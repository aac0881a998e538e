------------------------------ MODULE Sessions ------------------------------
(***************************************************************************)
(* The session of one browser: token pairs rotated by /auth/refresh, and    *)
(* the dashboard's request path, which answers a 401 with one refresh and   *)
(* one replay while other requests of the page do the same.                 *)
(*                                                                          *)
(* A pair is named by its refresh token.  Its access token is stateless and *)
(* only expires; its refresh token is a row that is live until it is        *)
(* revoked.  A request runs in its own transaction, so what /auth/refresh   *)
(* writes before it raises is rolled back with it (db/session.py:103-110).  *)
(*                                                                          *)
(* External parts: the network, and the tab the user may close.             *)
(***************************************************************************)
EXTENDS Integers, FiniteSets

CONSTANTS
    Calls,      \* requests the page has in flight at one time
    Pairs,      \* token pairs that somebody holds
    NoPair,     \* an empty localStorage
    MaxFailures,    \* MAX_LOGIN_FAILURES
    MaxLapses   \* requests and answers that get lost, and tabs closed

ASSUME SessionAssumption ==
    /\ NoPair \notin Pairs
    /\ MaxFailures \in Nat \ {0}
    /\ MaxLapses \in Nat

VARIABLES
    revoked,    \* pairs whose refresh token is revoked
    expired,    \* pairs whose access token has expired
    kept,       \* the pair in localStorage, or NoPair
    call,       \* call[c]: where request c is, or Idle
    failures,   \* the login throttle's count in its present window
    lapses

sessionVars == <<revoked, expired, kept, call, failures, lapses>>

Idle == [step |-> "idle"]
Steps == {"sent", "refused", "presented", "checked", "answered", "replayed",
          "leaving", "left"}
Requests == [step : Steps, pair : Pairs \cup {NoPair}, restoring : BOOLEAN, heard : BOOLEAN]

SessionsTypeOK ==
    /\ revoked \subseteq Pairs
    /\ expired \subseteq Pairs
    /\ kept \in Pairs \cup {NoPair}
    /\ call \in [Calls -> Requests \cup {Idle}]
    /\ failures \in 0 .. MaxFailures
    /\ lapses \in 0 .. MaxLapses

SessionsInit ==
    /\ revoked = {}
    /\ expired = {}
    /\ kept = NoPair
    /\ call = [c \in Calls |-> Idle]
    /\ failures = 0
    /\ lapses = 0

-----------------------------------------------------------------------------
InHand == ({kept} \cup {call[c].pair : c \in {d \in Calls : call[d] # Idle}}) \ {NoPair}

\* get_by_hash, and revoked_at is None.
Live(p) == p \in Pairs \ revoked

Goes(c, step) == call' = [call EXCEPT ![c].step = step]
Ends(c) == call' = [call EXCEPT ![c] = Idle]
Lapse == lapses < MaxLapses /\ lapses' = lapses + 1

\* _start_session names a pair that is new to everybody.  Pairs that nobody
\* holds are forgotten.
NewPair == CHOOSE p \in Pairs : p \notin InHand
Forget(pairs) == pairs \cap InHand

\* revoke: the one token, and only while it is not revoked; revoke_family: every
\* token of the sign-in, which here is every pair somebody holds.
Revoke(p) == revoked' = Forget(revoked) \cup {p}
RevokeFamily == revoked' = InHand

\* InMemoryThrottle.check
Admits == failures < MaxFailures

-----------------------------------------------------------------------------
(***************************************************************************)
(* Signing in.                                                              *)
(***************************************************************************)
\* POST /auth/login with the right password (or POST /auth/register): the
\* throttle's counter is cleared and the page stores the pair.  Filling in the
\* form takes longer than what the last session left in flight.
SignIn ==
    /\ kept = NoPair /\ \A c \in Calls : call[c] = Idle
    /\ Admits
    /\ kept' = NewPair
    /\ revoked' = {} /\ expired' = {}
    /\ failures' = 0
    /\ UNCHANGED <<call, lapses>>

\* A wrong password: one more failure, and no session.
SignInFails ==
    /\ kept = NoPair
    /\ Admits
    /\ \A c \in Calls : call[c] = Idle
    /\ failures' = failures + 1
    /\ UNCHANGED <<revoked, expired, kept, call, lapses>>

\* _current: a window of LOGIN_FAILURE_WINDOW seconds ends with its count.
WindowRolls ==
    /\ failures > 0
    /\ failures' = 0
    /\ UNCHANGED <<revoked, expired, kept, call, lapses>>

-----------------------------------------------------------------------------
(***************************************************************************)
(* authed(): send, and on a 401 refresh once and send again.                *)
(***************************************************************************)
Listening == {c \in Calls : call[c] # Idle /\ call[c].heard}

\* A page asks for something; one just loaded has restoreSession ask for
\* /users/me.
Send(c, restoring) ==
    /\ call[c] = Idle
    /\ restoring => Listening = {}
    /\ kept # NoPair
    /\ call' = [call EXCEPT ![c] =
                  [step |-> "sent", pair |-> kept, restoring |-> restoring, heard |-> TRUE]]
    /\ UNCHANGED <<revoked, expired, kept, failures, lapses>>

\* get_current_user verifies the access token, and nothing but its expiry
\* can have changed.
Answer(c) ==
    /\ call[c].step = "sent"
    /\ IF call[c].pair \in expired THEN Goes(c, "refused") ELSE Ends(c)
    /\ UNCHANGED <<revoked, expired, kept, failures, lapses>>

AccessExpires(p) ==
    /\ p \in InHand
    /\ expired' = expired \cup {p}
    /\ UNCHANGED <<revoked, kept, call, failures, lapses>>

\* What the page does with a request that ends in an error: restoreSession
\* clears the session, every other caller shows the message.
Errs(c) ==
    /\ Ends(c)
    /\ kept' = IF call[c].heard /\ call[c].restoring THEN NoPair ELSE kept

\* refresh(): the refresh token is read from localStorage when the 401 arrives.
Present(c) ==
    /\ call[c].step = "refused"
    /\ IF kept = NoPair
       THEN Errs(c)
       ELSE call' = [call EXCEPT ![c].step = "presented", ![c].pair = kept] /\ UNCHANGED kept
    /\ UNCHANGED <<revoked, expired, failures, lapses>>

\* RefreshSession.execute reads the token.  One revoked already revokes its
\* family, raises, and the request's transaction is rolled back.
RefreshRead(c) ==
    /\ call[c].step = "presented"
    /\ call' = IF Live(call[c].pair)
               THEN [call EXCEPT ![c].step = "checked"]
               ELSE [call EXCEPT ![c].step = "answered", ![c].pair = NoPair]
    /\ UNCHANGED <<revoked, expired, kept, failures, lapses>>

\* The token is revoked if it still can be (the count of rows is not looked
\* at), a successor is minted and the request commits.
RefreshCommit(c) ==
    /\ call[c].step = "checked"
    /\ Revoke(call[c].pair)
    /\ expired' = Forget(expired)
    /\ call' = [call EXCEPT ![c].step = "answered", ![c].pair = NewPair]
    /\ UNCHANGED <<kept, failures, lapses>>

\* Mutant: a refresh that fails leaves the session in localStorage.
RefreshAnswered_KeepsSession(c) ==
    /\ call[c].step = "answered"
    /\ IF ~call[c].heard \/ call[c].pair = NoPair
       THEN Ends(c) /\ UNCHANGED kept
       ELSE Goes(c, "replayed") /\ kept' = call[c].pair
    /\ UNCHANGED <<revoked, expired, failures, lapses>>

\* refresh() gets its answer: storeSession and replay, or clearSession.
RefreshAnswered(c) ==
    /\ call[c].step = "answered"
    /\ CASE ~call[c].heard -> Ends(c) /\ UNCHANGED kept
         [] call[c].heard /\ call[c].pair = NoPair -> Ends(c) /\ kept' = NoPair
         [] OTHER -> Goes(c, "replayed") /\ kept' = call[c].pair
    /\ UNCHANGED <<revoked, expired, failures, lapses>>

\* Mutant: a replay that is refused refreshes once more.
ReplayAnswered_Again(c) ==
    /\ call[c].step = "replayed"
    /\ IF call[c].pair \in expired THEN Goes(c, "refused") ELSE Ends(c)
    /\ UNCHANGED <<revoked, expired, kept, failures, lapses>>

\* The second answer is final, a 401 included.
ReplayAnswered(c) ==
    /\ call[c].step = "replayed"
    /\ IF call[c].pair \in expired THEN Errs(c) ELSE Ends(c) /\ UNCHANGED kept
    /\ UNCHANGED <<revoked, expired, failures, lapses>>

\* fetch rejects: before the server saw the request, or after it answered.
RequestLost(c) ==
    /\ call[c].step \in {"sent", "replayed"}
    /\ Lapse
    /\ Errs(c)
    /\ UNCHANGED <<revoked, expired, failures>>

RefreshLost(c) ==
    /\ call[c].step \in {"presented", "checked", "answered"}
    /\ Lapse
    /\ call' = [call EXCEPT ![c].step = "answered", ![c].pair = NoPair]
    /\ UNCHANGED <<revoked, expired, kept, failures>>

-----------------------------------------------------------------------------
(***************************************************************************)
(* Leaving.                                                                 *)
(***************************************************************************)
\* logout() reads the token, and asks the server first.
LogOut(c) ==
    /\ call[c] = Idle
    /\ kept # NoPair
    /\ call' = [call EXCEPT ![c] =
                  [step |-> "leaving", pair |-> kept, restoring |-> FALSE, heard |-> TRUE]]
    /\ UNCHANGED <<revoked, expired, kept, failures, lapses>>

\* LogoutUser.execute: revoke_family, which is every pair of the session.
Logout(c) ==
    /\ call[c].step = "leaving"
    /\ RevokeFamily
    /\ Goes(c, "left")
    /\ UNCHANGED <<expired, kept, failures, lapses>>

LogoutLost(c) ==
    /\ call[c].step = "leaving"
    /\ Lapse
    /\ Goes(c, "left")
    /\ UNCHANGED <<revoked, expired, kept, failures>>

\* clearSession, whatever the server said.
Left(c) ==
    /\ call[c].step = "left"
    /\ Ends(c)
    /\ kept' = IF call[c].heard THEN NoPair ELSE kept
    /\ UNCHANGED <<revoked, expired, failures, lapses>>

\* The tab is closed or reloaded: nobody hears the answers any more, and the
\* server ends what it was asked.
CloseTab ==
    /\ Lapse
    /\ Listening # {}
    /\ call' = [c \in Calls |->
                 IF call[c] # Idle /\ call[c].step \in {"presented", "checked", "answered",
                                                        "leaving", "left"}
                 THEN [call[c] EXCEPT !.heard = FALSE] ELSE Idle]
    /\ UNCHANGED <<revoked, expired, kept, failures>>

-----------------------------------------------------------------------------
Progress(c) ==
    \/ Answer(c) \/ Present(c) \/ RefreshRead(c) \/ RefreshCommit(c)
    \/ RefreshAnswered(c) \/ ReplayAnswered(c)
    \/ Logout(c) \/ Left(c)

SessionsNext ==
    \/ SignIn \/ SignInFails \/ WindowRolls
    \/ \E c \in Calls :
        \/ \E restoring \in BOOLEAN : Send(c, restoring)
        \/ LogOut(c)
        \/ Progress(c)
        \/ RequestLost(c) \/ RefreshLost(c) \/ LogoutLost(c)
    \/ \E p \in Pairs : AccessExpires(p)
    \/ CloseTab

SessionsSpec == SessionsInit /\ [][SessionsNext]_sessionVars

(***************************************************************************)
(* fetch resolves or rejects, an access token expires after its quarter of  *)
(* an hour, and a page that is open keeps asking (the folder polls every    *)
(* minute).                                                                 *)
(***************************************************************************)
Asking ==
    /\ \A c \in Calls : WF_sessionVars(Progress(c))
    /\ SF_sessionVars(\E c \in Calls : Send(c, FALSE))
    /\ WF_sessionVars(\E p \in Pairs : AccessExpires(p))

SessionsFairSpec == SessionsSpec /\ Asking

-----------------------------------------------------------------------------
(***************************************************************************)
(* What a session promises.                                                 *)
(***************************************************************************)
\* No request waits for a session for ever: it is answered, or ends after one
\* refresh and one replay (auth.ts:12-15).
CallsEnd == \A c \in Calls : []<>(call[c] = Idle)

\* A browser that keeps a revoked pair, whether its answer was lost, its tab
\* closed or a sign-out crossed a refresh, is signed out or given a live pair
\* in the end (auth.ts:12-15).
DeadSessionEnds == []<>(kept \notin revoked)

\* A page that asks for several things at once stays signed in: the refresh a
\* 401 triggers is transparent (auth.ts:12-13), so without a sign-out, a lost
\* request or an expired replay the browser is not signed out.
RefreshIsTransparent ==
    [][\A c \in Calls : RefreshAnswered(c) /\ lapses = 0 /\ Live(kept) => kept' # NoPair]_sessionVars

=============================================================================
