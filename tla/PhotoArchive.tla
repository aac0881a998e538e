----------------------------- MODULE PhotoArchive -----------------------------
(***************************************************************************)
(* What the folder of a site promises about its photographs, with cameras,  *)
(* requests, locks and failures left out: each content is filed once and    *)
(* for good, under a number that follows one of the UTC day asked about and *)
(* exceeds those of its captures that asked about their own day.  Where     *)
(* every capture asks about its own day, the numbers of a day are 1, 2, 3   *)
(* and so on, in the order of the commits.                                  *)
(***************************************************************************)
EXTENDS Integers

CONSTANTS
    Captures,           \* contents of photographs
    MaxDailySequence    \* the largest number a file name can carry

VARIABLE filed          \* filed[c]: UTC day, day asked about and number of
                        \* content c, or NotFiled

NotFiled == [seq |-> 0]

Init == filed = [c \in Captures |-> NotFiled]

FiledOn(day) == {c \in Captures : filed[c] # NotFiled /\ filed[c].day = day}

File(c, day, asked, seq) ==
    /\ filed[c] = NotFiled
    /\ seq = 1 \/ \E d \in FiledOn(asked) : filed[d].seq = seq - 1
    /\ \A d \in FiledOn(asked) : filed[d].asked = asked => filed[d].seq < seq
    /\ filed' = [filed EXCEPT ![c] = [day |-> day, asked |-> asked, seq |-> seq]]

Next ==
    \E c \in Captures, day, asked \in Nat, seq \in 1 .. MaxDailySequence :
        File(c, day, asked, seq)

Spec == Init /\ [][Next]_filed
=============================================================================
