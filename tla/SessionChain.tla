----------------------------- MODULE SessionChain -----------------------------
(***************************************************************************)
(* A signed session and its successors (app/services/session.py, the two   *)
(* routes of app/api/auth.py, ADR 0202).  A login signs a token; a switch  *)
(* of view revokes it and signs the next, with the same expiry; a logout   *)
(* revokes it.  Tokens are stateless: the ledger of revoked ids is all     *)
(* that ends one, and each revocation purges its expired rows.             *)
(*                                                                         *)
(* A token is its login and its number in the chain.  A request passes the *)
(* gate, revokes, and commits, and dies anywhere; a signed token reaches   *)
(* its bearer when the request that signed it has committed.               *)
(***************************************************************************)
EXTENDS Naturals, FiniteSets

CONSTANTS
    Logins,
    Calls,          \* requests in flight
    Lifetime,       \* SESSION_LIFETIME_SECONDS
    LastMoment,     \* bound of the clock
    MaxSwitches     \* bound: switches of one login

ASSUME SessionAssumption == {Lifetime, LastMoment, MaxSwitches} \subseteq Nat

VARIABLES
    moment,         \* the real clock
    loginExp,       \* the expiry of a login's tokens, 0 before it
    newest,         \* how many tokens of a login were signed and answered
    revoked,        \* the committed ledger: tokens
    call            \* what each request is doing

sessionVars == <<moment, loginExp, newest, revoked, call>>

Tokens == {<<l, n>> : l \in Logins, n \in 1..MaxSwitches + 1}
Issued == {t \in Tokens : t[2] <= newest[t[1]]}
Unexpired(t) == moment < loginExp[t[1]]

Waiting == [does |-> "nothing"]
Does(r, what) == call[r].does = what
Pending(t) == {r \in Calls : Does(r, "revoked") /\ call[r].token = t}

Move(r, state) ==
    /\ call' = [call EXCEPT ![r] = state]
    /\ UNCHANGED <<moment, loginExp, newest, revoked>>

(* verified_session and is_revoked: signature, expiry, then the ledger.    *)
Live(t) == t \in Issued /\ Unexpired(t) /\ t \notin revoked

LogIn(l) ==
    /\ loginExp[l] = 0
    /\ loginExp' = [loginExp EXCEPT ![l] = moment + Lifetime]
    /\ newest' = [newest EXCEPT ![l] = 1]
    /\ UNCHANGED <<moment, revoked, call>>

(* The switch's gate wants a live session; what the person may switch to   *)
(* is read again, and a refusal changes nothing.                           *)
EnterSwitch(r, t) ==
    /\ Does(r, "nothing")
    /\ Live(t)
    /\ Move(r, [does |-> "gated", token |-> t, switching |-> TRUE])

(* The logout's gate does not ask the ledger.                              *)
EnterLogout(r, t) ==
    /\ Does(r, "nothing")
    /\ t \in Issued /\ Unexpired(t)
    /\ Move(r, [does |-> "gated", token |-> t, switching |-> FALSE])

(* Mutant: a switch whose insert did nothing goes on.                      *)
SwitchesAnyway(r) ==
    /\ Does(r, "gated")
    /\ Pending(call[r].token) = {}
    /\ Move(r, [call[r] EXCEPT !.does = "revoked"])

(* The insert waits for another request's uncommitted row, and does        *)
(* nothing on a committed one: the switch is refused, the logout goes on.  *)
Revoke(r) ==
    LET t == call[r].token IN
    /\ Does(r, "gated")
    /\ Pending(t) = {}
    /\ Move(r, IF t \in revoked /\ call[r].switching THEN Waiting
               ELSE [call[r] EXCEPT !.does = "revoked"])

(* purge_revoked_sessions, in the same transaction as the insert.          *)
Purged == {t \in revoked : loginExp[t[1]] < moment}

CommitRevocation(r) ==
    LET t == call[r].token IN
    /\ Does(r, "revoked")
    /\ call[r].switching => newest[t[1]] <= MaxSwitches
    /\ revoked' = (revoked \ Purged) \cup {t}
    /\ newest' = IF call[r].switching THEN [newest EXCEPT ![t[1]] = @ + 1] ELSE newest
    /\ call' = [call EXCEPT ![r] = Waiting]
    /\ UNCHANGED <<moment, loginExp>>

LoseCall(r) == ~Does(r, "nothing") /\ Move(r, Waiting)

MomentPasses ==
    /\ moment < LastMoment
    /\ moment' = moment + 1
    /\ UNCHANGED <<loginExp, newest, revoked, call>>

SessionInit ==
    /\ moment = 1
    /\ loginExp = [l \in Logins |-> 0]
    /\ newest = [l \in Logins |-> 0]
    /\ revoked = {}
    /\ call = [r \in Calls |-> Waiting]

SessionNext ==
    \/ \E l \in Logins : LogIn(l)
    \/ \E r \in Calls :
          \/ \E t \in Tokens : EnterSwitch(r, t) \/ EnterLogout(r, t)
          \/ Revoke(r) \/ CommitRevocation(r) \/ LoseCall(r)
    \/ MomentPasses

SessionSpec == SessionInit /\ [][SessionNext]_sessionVars

-----------------------------------------------------------------------------
(* However many switches and logouts race, one login has at most one live  *)
(* session: a token is spent once, and the purge forgets only tokens that  *)
(* no longer verify (session.py:453-474).                                  *)
OneLiveSession == \A l \in Logins : Cardinality({t \in Tokens : t[1] = l /\ Live(t)}) <= 1
=============================================================================
