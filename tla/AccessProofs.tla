----------------------------- MODULE AccessProofs -----------------------------
(***************************************************************************)
(* Proofs about who acts as whom, for every set of requests, people and    *)
(* comments and every length of time: a launch lets its bearer in once and *)
(* leaves a section or a reason, a login has one live session, and a name  *)
(* that was read is on the record.                                         *)
(***************************************************************************)
EXTENDS SessionChain, IdentityReveal, LaunchDoor, FiniteSetTheorems, TLAPS

-----------------------------------------------------------------------------
(* IdentityReveal.                                                         *)

Access == [actor : CareStaff, subject : Students]

RevealStates ==
    [at : {"closed"}]
      \cup [at : {"asked"}, actor : CareStaff, note : Notes]
      \cup [at : {"derived", "recorded", "committed"}, actor : CareStaff, subject : Students]

(* Types. *)
RevealTypeOK ==
    /\ care \subseteq CareStaff
    /\ routed \subseteq Notes
    /\ audit \subseteq Access
    /\ told \subseteq Access
    /\ reveal \in [Reveals -> RevealStates]

WroteToCare(s) == \E n \in routed : WriterOf[n] = s

Derived(r) == reveal[r].at \in {"derived", "recorded", "committed"}

(* A reveal that named its subject did so by a routed comment, and one that *)
(* committed is on the record.                                              *)
RevealInv ==
    /\ RevealTypeOK
    /\ \A r \in Reveals : Derived(r) => WroteToCare(reveal[r].subject)
    /\ \A r \in Reveals : Stands(r, "committed") => Accessed(r) \in audit
    /\ \A t \in told : t \in audit /\ WroteToCare(t.subject)

LEMMA RevealInvInit == RevealInit => RevealInv
  BY DEF RevealInit, RevealInv, RevealTypeOK, RevealStates, Closed, Derived, Stands

(* What a step does to one reveal: it goes to another state of its own.    *)
LEMMA RevealGoes ==
  ASSUME RevealInv, NEW r \in Reveals, NEW state \in RevealStates, Goes(r, state),
         care' \subseteq CareStaff, routed' = routed, audit \subseteq audit', audit' \subseteq Access,
         told' \subseteq Access,
         state.at \in {"derived", "recorded", "committed"} => WroteToCare(state.subject),
         state.at = "committed" => [actor |-> state.actor, subject |-> state.subject] \in audit',
         \A t \in told' : t \in audit' /\ WroteToCare(t.subject)
  PROVE  RevealInv'
<1>1. reveal' \in [Reveals -> RevealStates]
  BY DEF RevealInv, RevealTypeOK, Goes
<1>2. /\ reveal'[r] = state
      /\ \A q \in Reveals : q # r => reveal'[q] = reveal[q]
  BY DEF RevealInv, RevealTypeOK, Goes
<1>3. RevealTypeOK'
  BY <1>1 DEF RevealInv, RevealTypeOK
<1>4. ASSUME NEW q \in Reveals, Derived(q)' PROVE WroteToCare(reveal[q].subject)'
  <2>1. CASE q = r  BY <1>2, <1>4, <2>1 DEF Derived, WroteToCare
  <2>2. CASE q # r  BY <1>2, <1>4, <2>2 DEF Derived, WroteToCare, RevealInv
  <2> QED  BY <2>1, <2>2
<1>5. ASSUME NEW q \in Reveals, Stands(q, "committed")' PROVE Accessed(q)' \in audit'
  <2>1. CASE q = r  BY <1>2, <1>5, <2>1 DEF Stands, Accessed
  <2>2. CASE q # r  BY <1>2, <1>5, <2>2 DEF Stands, Accessed, RevealInv
  <2> QED  BY <2>1, <2>2
<1> QED  BY <1>3, <1>4, <1>5 DEF RevealInv, WroteToCare

LEMMA RevealInvStep == RevealInv /\ [RevealNext]_revealVars => RevealInv'
<1> SUFFICES ASSUME RevealInv, [RevealNext]_revealVars PROVE RevealInv'
  OBVIOUS
<1>1. ASSUME NEW p \in CareStaff, GiveOrTakeCare(p) PROVE RevealInv'
  BY <1>1 DEF GiveOrTakeCare, RevealInv, RevealTypeOK, Derived, WroteToCare, Stands, Accessed
<1>2. ASSUME NEW n \in Notes, RouteToCare(n) PROVE RevealInv'
  BY <1>2 DEF RouteToCare, RevealInv, RevealTypeOK, Derived, WroteToCare, Stands, Accessed
<1>3. ASSUME NEW r \in Reveals, NEW p \in CareStaff, NEW n \in Notes, AskForReveal(r, p, n)
      PROVE RevealInv'
  BY <1>3, RevealGoes DEF AskForReveal, RevealStates, RevealInv, RevealTypeOK
<1>4. ASSUME NEW r \in Reveals, DeriveSubject(r) PROVE RevealInv'
  <2>1. reveal[r].at = "asked" /\ reveal[r] \in RevealStates
    BY <1>4 DEF DeriveSubject, Stands, RevealInv, RevealTypeOK
  <2>2. reveal[r].actor \in CareStaff /\ reveal[r].note \in Notes
    BY <2>1 DEF RevealStates
  <2>3. WriterOf[reveal[r].note] \in Students
    BY <2>2, RevealAssumption
  <2>4. Closed \in RevealStates /\ Closed.at = "closed"
    BY DEF Closed, RevealStates
  <2>5. CASE reveal[r].note \in routed
    <3> DEFINE s == [at |-> "derived", actor |-> reveal[r].actor, subject |-> WriterOf[reveal[r].note]]
    <3>1. s \in RevealStates /\ WroteToCare(s.subject) /\ s.at = "derived"
      BY <2>2, <2>3, <2>5 DEF RevealStates, WroteToCare
    <3>2. Goes(r, s)
      BY <1>4, <2>5 DEF DeriveSubject
    <3> HIDE DEF s
    <3> QED  BY <1>4, <3>1, <3>2, RevealGoes DEF DeriveSubject, RevealInv, RevealTypeOK
  <2>6. CASE reveal[r].note \notin routed
    <3>1. Goes(r, Closed)
      BY <1>4, <2>6 DEF DeriveSubject
    <3> QED  BY <1>4, <2>4, <3>1, RevealGoes DEF DeriveSubject, RevealInv, RevealTypeOK
  <2> QED  BY <2>5, <2>6
<1>5. ASSUME NEW r \in Reveals, RecordReveal(r) PROVE RevealInv'
  <2>1. reveal[r].at = "derived" /\ reveal[r] \in RevealStates
    BY <1>5 DEF RecordReveal, Stands, RevealInv, RevealTypeOK
  <2>2. Closed \in RevealStates /\ Closed.at = "closed"
    BY DEF Closed, RevealStates
  <2>3. CASE reveal[r].actor \in care
    <3> DEFINE s == [reveal[r] EXCEPT !.at = "recorded"]
    <3>1. s \in RevealStates /\ s.at = "recorded" /\ s.subject = reveal[r].subject
      BY <2>1 DEF RevealStates
    <3>2. Goes(r, s)
      BY <1>5, <2>3 DEF RecordReveal
    <3>3. WroteToCare(s.subject)
      BY <2>1, <3>1 DEF RevealInv, Derived
    <3> HIDE DEF s
    <3> QED  BY <1>5, <3>1, <3>2, <3>3, RevealGoes DEF RecordReveal, RevealInv, RevealTypeOK
  <2>4. CASE reveal[r].actor \notin care
    <3>1. Goes(r, Closed)
      BY <1>5, <2>4 DEF RecordReveal
    <3> QED  BY <1>5, <2>2, <3>1, RevealGoes DEF RecordReveal, RevealInv, RevealTypeOK
  <2> QED  BY <2>3, <2>4
<1>6. ASSUME NEW r \in Reveals, CommitReveal(r) PROVE RevealInv'
  <2>1. reveal[r].at = "recorded" /\ reveal[r] \in RevealStates
    BY <1>6 DEF CommitReveal, Stands, RevealInv, RevealTypeOK
  <2> DEFINE s == [reveal[r] EXCEPT !.at = "committed"]
  <2>2. s \in RevealStates /\ s.at = "committed" /\ s.subject = reveal[r].subject /\ s.actor = reveal[r].actor
    BY <2>1 DEF RevealStates
  <2>3. Accessed(r) \in Access
    BY <2>1 DEF RevealStates, Accessed, Access
  <2>4. Goes(r, s)
    BY <1>6 DEF CommitReveal
  <2>5. WroteToCare(s.subject)
    BY <2>1, <2>2 DEF RevealInv, Derived
  <2>6. [actor |-> s.actor, subject |-> s.subject] \in audit'
    BY <1>6, <2>2 DEF CommitReveal, Accessed
  <2> HIDE DEF s
  <2> QED  BY <1>6, <2>2, <2>3, <2>4, <2>5, <2>6, RevealGoes DEF CommitReveal, RevealInv, RevealTypeOK
<1>7. ASSUME NEW r \in Reveals, ReadTheName(r) PROVE RevealInv'
  <2>1. reveal[r].at = "committed" /\ reveal[r] \in RevealStates
    BY <1>7 DEF ReadTheName, Spendable, Stands, RevealInv, RevealTypeOK
  <2>2. Accessed(r) \in audit /\ WroteToCare(Accessed(r).subject)
    BY <2>1 DEF RevealInv, Derived, Stands, Accessed
  <2>3. Closed \in RevealStates /\ Closed.at = "closed"
    BY DEF Closed, RevealStates
  <2>4. told' \subseteq told \cup {Accessed(r)}
    BY <1>7 DEF ReadTheName
  <2> QED  BY <1>7, <2>2, <2>3, <2>4, RevealGoes DEF ReadTheName, RevealInv, RevealTypeOK
<1>8. ASSUME NEW r \in Reveals, LoseReveal(r) PROVE RevealInv'
  <2>1. Closed \in RevealStates /\ Closed.at = "closed"
    BY DEF Closed, RevealStates
  <2> QED  BY <1>8, <2>1, RevealGoes DEF LoseReveal, RevealInv, RevealTypeOK
<1>9. CASE UNCHANGED revealVars
  BY <1>9 DEF revealVars, RevealInv, RevealTypeOK, Derived, WroteToCare, Stands, Accessed
<1> QED  BY <1>1, <1>2, <1>3, <1>4, <1>5, <1>6, <1>7, <1>8, <1>9 DEF RevealNext

(* Every name that was read is on the committed record, with who read it,  *)
(* and is the name of somebody whose comment was routed to Care: any       *)
(* number of reveals, roles given and taken at any moment.                 *)
THEOREM NamesAreOnRecord == RevealSpec => []EveryNameIsOnRecord
<1>1. RevealInv => EveryNameIsOnRecord
  BY DEF RevealInv, EveryNameIsOnRecord, WroteToCare
<1> QED  BY <1>1, RevealInvInit, RevealInvStep, PTL DEF RevealSpec

-----------------------------------------------------------------------------
(* SessionChain.                                                           *)

CallStates ==
    [does : {"nothing"}] \cup [does : {"gated", "revoked"}, token : Tokens, switching : BOOLEAN]

(* Types.                                                                  *)
SessionTypeOK ==
    /\ moment \in Nat \ {0}
    /\ loginExp \in [Logins -> Nat]
    /\ newest \in [Logins -> 0..MaxSwitches + 1]
    /\ revoked \subseteq Tokens
    /\ call \in [Calls -> CallStates]

(* Every token but the newest of its login is spent, for as long as it     *)
(* would verify.                                                           *)
OlderAreSpent == \A t \in Tokens : t[2] < newest[t[1]] => t \in revoked \/ ~Unexpired(t)

(* A token is being revoked by one request at a time, and one that is      *)
(* being switched away from is the newest.                                 *)
RevokedOnce ==
    \A r, q \in Calls : Does(r, "revoked") /\ Does(q, "revoked") /\ call[r].token = call[q].token => r = q

SwitchesTheNewest ==
    \A r \in Calls : Does(r, "revoked") /\ call[r].switching =>
        call[r].token[2] = newest[call[r].token[1]] \/ ~Unexpired(call[r].token)

BusyWithIssued ==
    \A r \in Calls : ~Does(r, "nothing") => call[r].token \in Issued

(* A login has no tokens before it.                                        *)
NoneBeforeLogin == \A l \in Logins : loginExp[l] = 0 => newest[l] = 0

SessionInv ==
    /\ SessionTypeOK /\ NoneBeforeLogin /\ OlderAreSpent
    /\ RevokedOnce /\ SwitchesTheNewest /\ BusyWithIssued

LEMMA TokenParts ==
  \A t \in Tokens : t[1] \in Logins /\ t[2] \in Nat \ {0} /\ t = <<t[1], t[2]>>
  BY SessionAssumption DEF Tokens

LEMMA SessionInvInit == SessionInit => SessionInv
<1> SUFFICES ASSUME SessionInit PROVE SessionInv
  OBVIOUS
<1>1. SessionTypeOK
  BY SessionAssumption DEF SessionInit, SessionTypeOK, CallStates, Waiting
<1>2. OlderAreSpent
  BY TokenParts DEF SessionInit, OlderAreSpent
<1>3. RevokedOnce /\ SwitchesTheNewest /\ BusyWithIssued
  BY DEF SessionInit, RevokedOnce, SwitchesTheNewest, BusyWithIssued, Does, Waiting
<1>4. NoneBeforeLogin
  BY DEF SessionInit, NoneBeforeLogin
<1> QED  BY <1>1, <1>2, <1>3, <1>4 DEF SessionInv

(* A request that moves on by itself, and is not revoking unless it may.   *)
LEMMA SessionMove ==
  ASSUME SessionInv, NEW r \in Calls, NEW state \in CallStates, Move(r, state),
         state.does # "nothing" => state.token \in Issued,
         state.does = "revoked" =>
            /\ Pending(state.token) \subseteq {r}
            /\ state.switching => state.token[2] = newest[state.token[1]] \/ ~Unexpired(state.token)
  PROVE  SessionInv'
<1>1. /\ call' \in [Calls -> CallStates]
      /\ call'[r] = state
      /\ \A q \in Calls : q # r => call'[q] = call[q]
  BY DEF SessionInv, SessionTypeOK, Move
<1>2. UNCHANGED <<moment, loginExp, newest, revoked>>
  BY DEF Move
<1>3. SessionTypeOK' /\ NoneBeforeLogin' /\ OlderAreSpent'
  BY <1>1, <1>2 DEF SessionInv, SessionTypeOK, NoneBeforeLogin, OlderAreSpent, Unexpired
<1>4. BusyWithIssued'
  <2> SUFFICES ASSUME NEW q \in Calls, ~Does(q, "nothing")' PROVE (call[q].token \in Issued)'
    BY DEF BusyWithIssued
  <2>1. Issued' = Issued
    BY <1>2 DEF Issued
  <2>2. CASE q = r  BY <1>1, <2>1, <2>2 DEF Does
  <2>3. CASE q # r  BY <1>1, <2>1, <2>3 DEF Does, SessionInv, BusyWithIssued
  <2> QED  BY <2>2, <2>3
<1>5. RevokedOnce'
  <2> SUFFICES ASSUME NEW p \in Calls, NEW q \in Calls, p # q,
                      Does(p, "revoked")', Does(q, "revoked")', call'[p].token = call'[q].token
               PROVE FALSE
    BY DEF RevokedOnce
  <2>1. CASE p = r
    <3>1. q \in Pending(state.token)
      BY <1>1, <2>1 DEF Pending, Does
    <3> QED  BY <1>1, <2>1, <3>1 DEF Does
  <2>2. CASE q = r
    <3>1. p \in Pending(state.token)
      BY <1>1, <2>2 DEF Pending, Does
    <3> QED  BY <1>1, <2>2, <3>1 DEF Does
  <2>3. CASE p # r /\ q # r
    BY <1>1, <2>3 DEF SessionInv, RevokedOnce, Does
  <2> QED  BY <2>1, <2>2, <2>3
<1>6. SwitchesTheNewest'
  <2> SUFFICES ASSUME NEW q \in Calls, Does(q, "revoked")', call'[q].switching
               PROVE (call[q].token[2] = newest[call[q].token[1]] \/ ~Unexpired(call[q].token))'
    BY DEF SwitchesTheNewest
  <2>1. CASE q = r  BY <1>1, <1>2, <2>1 DEF Does, Unexpired
  <2>2. CASE q # r  BY <1>1, <1>2, <2>2 DEF Does, Unexpired, SessionInv, SwitchesTheNewest
  <2> QED  BY <2>1, <2>2
<1> QED  BY <1>3, <1>4, <1>5, <1>6 DEF SessionInv

LEMMA CommitRevocationKeeps ==
  ASSUME SessionInv, NEW r \in Calls, CommitRevocation(r)
  PROVE  SessionInv'
<1> DEFINE t == call[r].token
           l == t[1]
<1>1. /\ call[r].does = "revoked" /\ t \in Tokens /\ call[r].switching \in BOOLEAN
      /\ t \in Issued
      /\ l \in Logins
  BY TokenParts DEF CommitRevocation, Does, SessionInv, SessionTypeOK, CallStates, BusyWithIssued
<1>2. /\ call' \in [Calls -> CallStates]
      /\ call'[r] = Waiting
      /\ \A q \in Calls : q # r => call'[q] = call[q]
  BY DEF CommitRevocation, SessionInv, SessionTypeOK, CallStates, Waiting
<1>3. /\ moment' = moment /\ loginExp' = loginExp
      /\ \A u \in Tokens : Unexpired(u)' = Unexpired(u)
  BY DEF CommitRevocation, Unexpired
<1>4. revoked' = (revoked \ Purged) \cup {t}
  BY DEF CommitRevocation
<1>5. /\ newest' \in [Logins -> 0..MaxSwitches + 1]
      /\ newest'[l] = IF call[r].switching THEN newest[l] + 1 ELSE newest[l]
      /\ \A k \in Logins : k # l => newest'[k] = newest[k]
  <2>1. CASE call[r].switching
    BY <1>1, <2>1, SessionAssumption DEF CommitRevocation, SessionInv, SessionTypeOK
  <2>2. CASE ~call[r].switching
    BY <1>1, <2>2 DEF CommitRevocation, SessionInv, SessionTypeOK
  <2> QED  BY <2>1, <2>2
<1>6. \A k \in Logins : newest[k] \in Nat /\ newest'[k] \in Nat /\ newest[k] <= newest'[k]
  BY <1>1, <1>5, SessionAssumption DEF SessionInv, SessionTypeOK
<1>7. SessionTypeOK'
  BY <1>1, <1>2, <1>3, <1>4, <1>5 DEF SessionInv, SessionTypeOK
<1>8. \A u \in revoked : u \in revoked' \/ ~Unexpired(u)
  BY <1>4, TokenParts DEF Purged, Unexpired, SessionInv, SessionTypeOK
<1>9. OlderAreSpent'
  <2> SUFFICES ASSUME NEW u \in Tokens, u[2] < newest'[u[1]]
               PROVE  u \in revoked' \/ ~Unexpired(u)
    BY <1>3 DEF OlderAreSpent
  <2>1. u[1] \in Logins /\ u[2] \in Nat /\ u = <<u[1], u[2]>> /\ t[2] \in Nat /\ t = <<l, t[2]>>
    BY <1>1, TokenParts
  <2>2. CASE u[2] < newest[u[1]]
    BY <1>8, <2>2 DEF SessionInv, OlderAreSpent
  <2>3. CASE ~(u[2] < newest[u[1]])
    <3>1. u[1] = l /\ call[r].switching /\ u[2] = newest[l]
      BY <1>5, <1>6, <2>1, <2>3
    <3>2. t[2] = newest[l] \/ ~Unexpired(t)
      BY <1>1, <3>1 DEF SessionInv, SwitchesTheNewest, Does
    <3>3. CASE t[2] = newest[l]  BY <1>4, <2>1, <3>1, <3>3
    <3>4. CASE ~Unexpired(t)  BY <3>1, <3>4 DEF Unexpired
    <3> QED  BY <3>2, <3>3, <3>4
  <2> QED  BY <2>2, <2>3
<1>10. RevokedOnce'
  BY <1>2 DEF SessionInv, RevokedOnce, Does, Waiting
<1>11. SwitchesTheNewest'
  <2> SUFFICES ASSUME NEW q \in Calls, Does(q, "revoked")', call'[q].switching
               PROVE (call[q].token[2] = newest[call[q].token[1]] \/ ~Unexpired(call[q].token))'
    BY DEF SwitchesTheNewest
  <2> DEFINE v == call[q].token
  <2>1. q # r /\ call'[q] = call[q] /\ call[q].does = "revoked" /\ call[q].switching
    BY <1>2 DEF Does, Waiting
  <2>0. SUFFICES v[2] = newest'[v[1]] \/ ~Unexpired(v)
    BY <1>3, <2>1 DEF Unexpired
  <2>2. v \in Tokens /\ v # t
    BY <1>1, <2>1 DEF SessionInv, SessionTypeOK, CallStates, RevokedOnce, Does
  <2>3. v[2] = newest[v[1]] \/ ~Unexpired(v)
    BY <2>1 DEF SessionInv, SwitchesTheNewest, Does
  <2>4. v = <<v[1], v[2]>> /\ v[1] \in Logins /\ t = <<l, t[2]>>
    BY <1>1, <2>2, TokenParts
  <2>5. CASE ~Unexpired(v)
    BY <2>5
  <2>6. CASE v[1] # l \/ ~call[r].switching
    BY <1>5, <2>3, <2>4, <2>6
  <2>7. CASE v[2] = newest[v[1]] /\ v[1] = l /\ call[r].switching
    <3>1. t[2] = newest[l] \/ ~Unexpired(t)
      BY <1>1, <2>7 DEF SessionInv, SwitchesTheNewest, Does
    <3>2. ~Unexpired(t)
      BY <2>2, <2>4, <2>7, <3>1
    <3>3. ~Unexpired(v)
      BY <2>7, <3>2 DEF Unexpired
    <3> QED  BY <2>5, <3>3
  <2> QED  BY <2>3, <2>5, <2>6, <2>7
<1>12. BusyWithIssued'
  <2> SUFFICES ASSUME NEW q \in Calls, ~Does(q, "nothing")' PROVE (call[q].token \in Issued)'
    BY DEF BusyWithIssued
  <2>1. q # r /\ call'[q] = call[q] /\ ~Does(q, "nothing")
    BY <1>2 DEF Does, Waiting
  <2>2. call[q].token \in Tokens /\ call[q].token[2] <= newest[call[q].token[1]]
    BY <2>1 DEF SessionInv, BusyWithIssued, Issued
  <2>3. call[q].token[1] \in Logins /\ call[q].token[2] \in Nat
    BY <2>2, TokenParts
  <2> QED  BY <1>6, <2>1, <2>2, <2>3 DEF Issued
<1>13. NoneBeforeLogin'
  <2>1. newest[l] >= 1 /\ loginExp[l] # 0
    BY <1>1, <1>6, TokenParts DEF Issued, SessionInv, NoneBeforeLogin
  <2> QED  BY <1>3, <1>5, <2>1 DEF SessionInv, NoneBeforeLogin
<1> QED  BY <1>7, <1>9, <1>10, <1>11, <1>12, <1>13 DEF SessionInv

LEMMA SessionInvStep == SessionInv /\ [SessionNext]_sessionVars => SessionInv'
<1> SUFFICES ASSUME SessionInv, [SessionNext]_sessionVars PROVE SessionInv'
  OBVIOUS
<1>1. ASSUME NEW l \in Logins, LogIn(l) PROVE SessionInv'
  <2>1. /\ call' = call /\ moment' = moment /\ revoked' = revoked /\ loginExp[l] = 0
        /\ loginExp'[l] = moment + Lifetime /\ newest'[l] = 1
        /\ \A k \in Logins : k # l => loginExp'[k] = loginExp[k] /\ newest'[k] = newest[k]
    BY <1>1 DEF LogIn, SessionInv, SessionTypeOK
  <2>2. SessionTypeOK'
    BY <1>1, SessionAssumption DEF LogIn, SessionInv, SessionTypeOK
  <2>3. newest[l] = 0 /\ loginExp'[l] \in Nat \ {0}
    BY <2>1, SessionAssumption DEF SessionInv, SessionTypeOK, NoneBeforeLogin
  <2>4. \A t \in Tokens : t[1] = l => ~(t[2] < newest'[l]) /\ t \notin Issued
    BY <2>1, <2>3, TokenParts DEF Issued
  <2>5. NoneBeforeLogin'
    BY <2>1, <2>3 DEF SessionInv, NoneBeforeLogin
  <2>6. OlderAreSpent'
    <3> SUFFICES ASSUME NEW t \in Tokens, t[2] < newest'[t[1]]
                 PROVE t \in revoked' \/ ~Unexpired(t)'
      BY DEF OlderAreSpent
    <3>1. t[1] # l /\ t[1] \in Logins
      BY <2>4, TokenParts
    <3> QED  BY <2>1, <3>1 DEF SessionInv, OlderAreSpent, Unexpired
  <2>7. RevokedOnce'
    BY <2>1 DEF SessionInv, RevokedOnce, Does
  <2>8. \A r \in Calls : ~Does(r, "nothing") =>
           call[r].token \in Tokens /\ call[r].token[1] \in Logins /\ call[r].token[1] # l
    BY <2>4, TokenParts DEF SessionInv, BusyWithIssued, Issued
  <2>9. SwitchesTheNewest'
    <3> SUFFICES ASSUME NEW r \in Calls, Does(r, "revoked")', call'[r].switching
                 PROVE (call[r].token[2] = newest[call[r].token[1]] \/ ~Unexpired(call[r].token))'
      BY DEF SwitchesTheNewest
    <3>1. call[r].token[1] \in Logins /\ call[r].token[1] # l
      BY <2>1, <2>8 DEF Does
    <3> QED  BY <2>1, <3>1 DEF SessionInv, SwitchesTheNewest, Unexpired, Does
  <2>10. BusyWithIssued'
    <3> SUFFICES ASSUME NEW r \in Calls, ~Does(r, "nothing")' PROVE (call[r].token \in Issued)'
      BY DEF BusyWithIssued
    <3>1. call[r].token[1] \in Logins /\ call[r].token[1] # l
      BY <2>1, <2>8 DEF Does
    <3> QED  BY <2>1, <3>1 DEF SessionInv, BusyWithIssued, Issued, Does
  <2> QED  BY <2>2, <2>5, <2>6, <2>7, <2>9, <2>10 DEF SessionInv
<1>2. ASSUME NEW r \in Calls, NEW t \in Tokens, EnterSwitch(r, t) PROVE SessionInv'
  BY <1>2, SessionMove DEF EnterSwitch, Live, CallStates
<1>3. ASSUME NEW r \in Calls, NEW t \in Tokens, EnterLogout(r, t) PROVE SessionInv'
  BY <1>3, SessionMove DEF EnterLogout, CallStates
<1>4. ASSUME NEW r \in Calls, Revoke(r) PROVE SessionInv'
  <2>1. call[r].does = "gated" /\ call[r] \in CallStates /\ call[r].token \in Issued
    BY <1>4 DEF Revoke, Does, SessionInv, SessionTypeOK, BusyWithIssued
  <2> DEFINE t == call[r].token
             s == [call[r] EXCEPT !.does = "revoked"]
  <2>2. /\ s \in CallStates /\ s.does = "revoked" /\ s.token = t
        /\ s.switching = call[r].switching
    BY <2>1 DEF CallStates
  <2>3. t \in Tokens /\ t[2] <= newest[t[1]] /\ t[2] \in Nat /\ newest[t[1]] \in Nat
    BY <2>1, TokenParts, SessionAssumption DEF Issued, SessionInv, SessionTypeOK
  <2>4. CASE t \in revoked /\ call[r].switching
    <3>1. Move(r, Waiting)
      BY <1>4, <2>4 DEF Revoke
    <3> QED  BY <3>1, SessionMove DEF Waiting, CallStates
  <2>5. CASE ~(t \in revoked /\ call[r].switching)
    <3>1. Move(r, s) /\ Pending(t) = {}
      BY <1>4, <2>5 DEF Revoke
    <3>2. call[r].switching => t[2] = newest[t[1]] \/ ~Unexpired(t)
      BY <2>3, <2>5 DEF SessionInv, OlderAreSpent
    <3> HIDE DEF s, t
    <3>3. Pending(s.token) \subseteq {r}
      BY <2>2, <3>1
    <3> QED  BY <2>1, <2>2, <3>1, <3>2, <3>3, SessionMove DEF t
  <2> QED  BY <2>4, <2>5
<1>5. ASSUME NEW r \in Calls, CommitRevocation(r) PROVE SessionInv'
  BY <1>5, CommitRevocationKeeps
<1>6. ASSUME NEW r \in Calls, LoseCall(r) PROVE SessionInv'
  BY <1>6, SessionMove DEF LoseCall, Waiting, CallStates
<1>7. CASE MomentPasses
  <2>1. moment' \in Nat \ {0} /\ \A t \in Tokens : ~Unexpired(t) => ~Unexpired(t)'
    BY <1>7, TokenParts DEF MomentPasses, SessionInv, SessionTypeOK, Unexpired
  <2>2. UNCHANGED <<loginExp, newest, revoked, call>>
    BY <1>7 DEF MomentPasses
  <2>3. OlderAreSpent'
    BY <2>1, <2>2 DEF SessionInv, OlderAreSpent
  <2>4. \A r \in Calls : Does(r, "revoked") => call[r].token \in Tokens
    BY DEF SessionInv, SessionTypeOK, CallStates, Does
  <2>5. SwitchesTheNewest'
    <3> SUFFICES ASSUME NEW r \in Calls, Does(r, "revoked")', call'[r].switching
                 PROVE (call[r].token[2] = newest[call[r].token[1]] \/ ~Unexpired(call[r].token))'
      BY DEF SwitchesTheNewest
    <3>1. call[r].token \in Tokens /\ (call[r].token[2] = newest[call[r].token[1]] \/ ~Unexpired(call[r].token))
      BY <2>2, <2>4 DEF SessionInv, SwitchesTheNewest, Does
    <3>2. ~Unexpired(call[r].token) => ~Unexpired(call[r].token)'
      BY <2>1, <2>2, <3>1 DEF Unexpired
    <3> QED  BY <2>2, <3>1, <3>2
  <2>6. SessionTypeOK'
    BY <2>1, <2>2 DEF SessionInv, SessionTypeOK
  <2>7. NoneBeforeLogin'
    BY <2>2 DEF SessionInv, NoneBeforeLogin
  <2>8. RevokedOnce'
    BY <2>2 DEF SessionInv, RevokedOnce, Does
  <2>9. BusyWithIssued'
    BY <2>2 DEF SessionInv, BusyWithIssued, Does, Issued
  <2> QED  BY <2>3, <2>5, <2>6, <2>7, <2>8, <2>9 DEF SessionInv
<1>8. CASE UNCHANGED sessionVars
  BY <1>8 DEF sessionVars, SessionInv, SessionTypeOK, NoneBeforeLogin, OlderAreSpent, RevokedOnce,
              SwitchesTheNewest, BusyWithIssued, Does, Issued, Unexpired
<1> QED  BY <1>1, <1>2, <1>3, <1>4, <1>5, <1>6, <1>7, <1>8 DEF SessionNext

(* Two tokens of one login are never both live, so they are at most one.   *)
LEMMA LiveIsNewest ==
  ASSUME SessionInv
  PROVE  OneLiveSession
<1> SUFFICES ASSUME NEW l \in Logins
             PROVE Cardinality({t \in Tokens : t[1] = l /\ Live(t)}) <= 1
  BY DEF OneLiveSession
<1> DEFINE L == {t \in Tokens : t[1] = l /\ Live(t)}
           n == newest[l]
<1>1. ASSUME NEW t \in L PROVE t = <<l, n>>
  <2>1. t \in Tokens /\ t[1] = l /\ t[2] \in Nat /\ t = <<l, t[2]>> /\ n \in Nat
    BY TokenParts, SessionAssumption DEF SessionInv, SessionTypeOK
  <2>2. t \in Issued /\ Unexpired(t) /\ t \notin revoked
    BY DEF Live
  <2>3. ~(t[2] < n) /\ t[2] <= n
    BY <2>1, <2>2 DEF SessionInv, OlderAreSpent, Issued
  <2> QED  BY <2>1, <2>3
<1>2. L \subseteq {<<l, n>>}
  BY <1>1
<1>3. IsFiniteSet({<<l, n>>}) /\ Cardinality({<<l, n>>}) = 1
  BY FS_Singleton
<1>4. Cardinality(L) <= Cardinality({<<l, n>>})
  BY <1>2, <1>3, FS_Subset
<1> QED  BY <1>3, <1>4

(* However many switches and logouts race, and whenever the purge runs, a  *)
(* login has at most one live session: a token is spent once.              *)
THEOREM OneSession == SessionSpec => []OneLiveSession
  BY LiveIsNewest, SessionInvInit, SessionInvStep, PTL DEF SessionSpec

-----------------------------------------------------------------------------
(* LaunchDoor.                                                             *)

Rows == [context : {ContextOf[l] : l \in Launches}, course : {CourseOf[l] : l \in Launches},
         code : {CodeOf[l] : l \in Launches}, address : {AddressOf[l] : l \in Launches}]

Provisioning == {"course", "section", "stored"}

DeliveryStates ==
    [step : {"idle"}]
      \cup [step : {"verifying", "admitted"}, launch : Launches, since : Nat]
      \cup [step : {"claimed"}, launch : Launches, since : Nat, expires : Nat]
      \cup [step : Provisioning, launch : Launches, since : Nat, bound : SUBSET Rows,
            course : SUBSET {CourseOf[l] : l \in Launches}, section : SUBSET Rows,
            defect : BOOLEAN, beaten : BOOLEAN]

(* Types.                                                                  *)
DoorTypeOK ==
    /\ instant \in Nat
    /\ begun \subseteq Launches
    /\ inFlight \in [Launches -> Nat]
    /\ ledger \in [Launches -> Nat]
    /\ admitted \in [Launches -> Nat]
    /\ delivery \in [Deliveries -> DeliveryStates]
    /\ courses \subseteq {CourseOf[l] : l \in Launches}
    /\ sections \subseteq Rows
    /\ silent \subseteq Launches /\ beaten \subseteq Launches

LEMMA DeliveryShape ==
  ASSUME NEW s \in DeliveryStates
  PROVE  /\ s.step \in {"idle", "verifying", "claimed", "admitted", "course", "section", "stored"}
         /\ s.step # "idle" => s.launch \in Launches /\ s.since \in Nat
         /\ s.step = "claimed" => s.expires \in Nat
         /\ s.step \in Provisioning =>
               s \in [step : Provisioning, launch : Launches, since : Nat, bound : SUBSET Rows,
                      course : SUBSET {CourseOf[l] : l \in Launches}, section : SUBSET Rows,
                      defect : BOOLEAN, beaten : BOOLEAN]
  BY DEF DeliveryStates, Provisioning

(* What one delivery does leaves the others where they are.                *)
DeliveryGoes(d, state) == delivery' = [delivery EXCEPT ![d] = state]

LEMMA OneDeliveryGoes ==
  ASSUME DoorTypeOK, NEW d \in Deliveries, NEW state \in DeliveryStates, DeliveryGoes(d, state)
  PROVE  /\ delivery' \in [Deliveries -> DeliveryStates]
         /\ delivery'[d] = state
         /\ \A e \in Deliveries : e # d => delivery'[e] = delivery[e]
  BY DEF DoorTypeOK, DeliveryGoes

LEMMA IdleIsAState == Idle \in DeliveryStates /\ Idle.step = "idle"
  BY DEF Idle, DeliveryStates

LEMMA NewRow ==
  ASSUME NEW l \in Launches
  PROVE  /\ NewSection(l) \in Rows
         /\ NewSection(l).context = ContextOf[l] /\ NewSection(l).course = CourseOf[l]
         /\ NewSection(l).code = CodeOf[l]
  BY DEF NewSection, Rows

LEMMA CorrectedRow ==
  ASSUME NEW bound, bound \subseteq Rows, NEW l \in Launches,
         \A m \in bound : m.context = ContextOf[l] /\ m.course = CourseOf[l] /\ m.code = CodeOf[l]
  PROVE  Corrections(bound, l) \subseteq {NewSection(l)}
<1> SUFFICES ASSUME NEW s \in bound PROVE [s EXCEPT !.address = AddressOf[l]] = NewSection(l)
  BY DEF Corrections
<1> QED  BY DEF NewSection, Rows

(* What each step does to the one delivery that takes it.                  *)
LEMMA DoorStepStates ==
  ASSUME DoorTypeOK, NEW d \in Deliveries
  PROVE  /\ \A l \in Launches : LookUp(d, l) => \E s \in DeliveryStates :
              s.step \in {"idle", "verifying"} /\ DeliveryGoes(d, s)
         /\ FailVerification(d) => DeliveryGoes(d, Idle)
         /\ ClaimNonce(d) => \E s \in DeliveryStates : s.step \in {"idle", "claimed"} /\ DeliveryGoes(d, s)
         /\ AdmitLaunch(d) => \E s \in DeliveryStates : s.step = "admitted" /\ DeliveryGoes(d, s)
         /\ LoseDelivery(d) => DeliveryGoes(d, Idle)
         /\ CommitProvisioning(d) => DeliveryGoes(d, Idle)
<1> USE DEF DeliveryGoes
<1>0. Idle \in DeliveryStates /\ Idle.step = "idle"
  BY IdleIsAState
<1>1. ASSUME NEW l \in Launches, LookUp(d, l)
      PROVE \E s \in DeliveryStates : s.step \in {"idle", "verifying"} /\ DeliveryGoes(d, s)
  <2> DEFINE s == [step |-> "verifying", launch |-> l, since |-> instant]
  <2>1. s \in DeliveryStates /\ s.step = "verifying"
    BY DEF DoorTypeOK, DeliveryStates
  <2>2. delivery' = [delivery EXCEPT ![d] = s] \/ delivery' = [delivery EXCEPT ![d] = Idle]
    BY <1>1 DEF LookUp, RefuseLaunch
  <2> HIDE DEF s
  <2> QED  BY <1>0, <2>1, <2>2
<1>2. FailVerification(d) => DeliveryGoes(d, Idle)
  BY DEF FailVerification, RefuseLaunch
<1>3. ASSUME ClaimNonce(d)
      PROVE \E s \in DeliveryStates : s.step \in {"idle", "claimed"} /\ DeliveryGoes(d, s)
  <2> DEFINE s == [step |-> "claimed", launch |-> Carries(d), since |-> delivery[d].since,
                   expires |-> ClaimExpires]
  <2>1. delivery[d].launch \in Launches /\ delivery[d].since \in Nat
    BY <1>3, DeliveryShape DEF ClaimNonce, At, DoorTypeOK
  <2>2. ClaimExpires \in Nat
    BY LedgerOutlivesTheLogin DEF DoorTypeOK, ClaimExpires
  <2>3. s \in DeliveryStates /\ s.step = "claimed"
    BY <2>1, <2>2 DEF DeliveryStates, Carries
  <2>4. delivery' = [delivery EXCEPT ![d] = s] \/ delivery' = [delivery EXCEPT ![d] = Idle]
    BY <1>3 DEF ClaimNonce, RefuseLaunch
  <2> HIDE DEF s
  <2> QED  BY <1>0, <2>3, <2>4
<1>4. ASSUME AdmitLaunch(d) PROVE \E s \in DeliveryStates : s.step = "admitted" /\ DeliveryGoes(d, s)
  <2> DEFINE s == [step |-> "admitted", launch |-> Carries(d), since |-> delivery[d].since]
  <2>1. delivery[d].launch \in Launches /\ delivery[d].since \in Nat
    BY <1>4, DeliveryShape DEF AdmitLaunch, At, DoorTypeOK
  <2>2. s \in DeliveryStates /\ s.step = "admitted"
    BY <2>1 DEF DeliveryStates, Carries
  <2>3. delivery' = [delivery EXCEPT ![d] = s]
    BY <1>4 DEF AdmitLaunch
  <2> HIDE DEF s
  <2> QED  BY <2>2, <2>3
<1>5. (LoseDelivery(d) => DeliveryGoes(d, Idle)) /\ (CommitProvisioning(d) => DeliveryGoes(d, Idle))
  BY DEF LoseDelivery, CommitProvisioning
<1> QED  BY <1>1, <1>2, <1>3, <1>4, <1>5

(* What provisioning does to the one delivery that takes the step.         *)
LEMMA ProvisioningStates ==
  ASSUME DoorTypeOK, NEW d \in Deliveries, ResolveContext(d) \/ UpsertCourse(d) \/ UpsertSection(d)
  PROVE  \E s \in DeliveryStates :
            /\ s.step \in Provisioning \cup {"idle"}
            /\ s.step # "idle" => s.launch = Carries(d) /\ s.since = delivery[d].since
            /\ DeliveryGoes(d, s)
<1> USE DEF DeliveryGoes
<1>0. delivery[d] \in DeliveryStates /\ Idle \in DeliveryStates /\ Idle.step = "idle"
  BY IdleIsAState DEF DoorTypeOK
<1>1. CASE ResolveContext(d)
  <2> DEFINE s == [step |-> "course", launch |-> Carries(d), since |-> delivery[d].since,
                   bound |-> BoundTo(ContextOf[Carries(d)]), course |-> {}, section |-> {},
                   defect |-> FALSE, beaten |-> FALSE]
  <2>1. Carries(d) \in Launches /\ delivery[d].since \in Nat
    BY <1>0, <1>1, DeliveryShape DEF ResolveContext, At, Carries
  <2>2. BoundTo(ContextOf[Carries(d)]) \subseteq Rows
    BY DEF BoundTo, DoorTypeOK
  <2>3. s \in DeliveryStates /\ s.step = "course" /\ s.launch = Carries(d) /\ s.since = delivery[d].since
    BY <2>1, <2>2 DEF DeliveryStates, Provisioning
  <2>4. delivery' = [delivery EXCEPT ![d] = s] \/ delivery' = [delivery EXCEPT ![d] = Idle]
    BY <1>1 DEF ResolveContext
  <2> HIDE DEF s
  <2> QED  BY <1>0, <2>3, <2>4 DEF Provisioning
<1>2. CASE UpsertCourse(d)
  <2> DEFINE s == [delivery[d] EXCEPT !.step = "section", !.course = {CourseOf[Carries(d)]} \ courses]
  <2>1. delivery[d].step \in Provisioning /\ Carries(d) \in Launches
    BY <1>0, <1>2, DeliveryShape DEF UpsertCourse, At, Provisioning, Carries
  <2>2. s \in DeliveryStates /\ s.step = "section" /\ s.launch = Carries(d) /\ s.since = delivery[d].since
    BY <1>0, <2>1, DeliveryShape DEF DeliveryStates, Provisioning, Carries
  <2>3. delivery' = [delivery EXCEPT ![d] = s]
    BY <1>2 DEF UpsertCourse, DoorTypeOK
  <2> HIDE DEF s
  <2> QED  BY <2>2, <2>3 DEF Provisioning
<1>3. CASE UpsertSection(d)
  <2>1. delivery[d].step \in Provisioning /\ Carries(d) \in Launches
    BY <1>0, <1>3, DeliveryShape DEF UpsertSection, At, Provisioning, Carries
  <2>2. delivery[d].bound \subseteq Rows
    BY <1>0, <2>1, DeliveryShape
  <2>3. Corrections(delivery[d].bound, Carries(d)) \subseteq Rows
    BY <2>1, <2>2 DEF Corrections, Rows
  <2>4. NewSection(Carries(d)) \in Rows
    BY <2>1, NewRow
  <2> DEFINE Stored(section, course, defect, lost) ==
               [delivery[d] EXCEPT !.step = "stored", !.course = course, !.section = section,
                                   !.defect = defect, !.beaten = lost]
  <2>5. ASSUME NEW section \in SUBSET Rows, NEW course \in SUBSET {CourseOf[l] : l \in Launches},
               NEW defect \in BOOLEAN, NEW lost \in BOOLEAN
        PROVE  LET s == Stored(section, course, defect, lost) IN
               s \in DeliveryStates /\ s.step = "stored" /\ s.launch = Carries(d) /\ s.since = delivery[d].since
    BY <1>0, <2>1, DeliveryShape DEF DeliveryStates, Provisioning, Carries
  <2>6. delivery[d] \in [step : Provisioning, launch : Launches, since : Nat, bound : SUBSET Rows,
                         course : SUBSET {CourseOf[l] : l \in Launches}, section : SUBSET Rows,
                         defect : BOOLEAN, beaten : BOOLEAN]
    BY <1>0, <2>1, DeliveryShape
  <2>7. CASE CorrectSection(d)
    <3> DEFINE s == Stored(Corrections(delivery[d].bound, Carries(d)), delivery[d].course,
                           delivery[d].defect, delivery[d].beaten)
    <3>1. delivery' = [delivery EXCEPT ![d] = s]
      BY <2>6, <2>7 DEF CorrectSection, DoorTypeOK
    <3>2. s \in DeliveryStates /\ s.step = "stored" /\ s.launch = Carries(d) /\ s.since = delivery[d].since
      BY <2>3, <2>5, <2>6
    <3> HIDE DEF s
    <3> QED  BY <3>1, <3>2 DEF Provisioning
  <2>8. CASE InsertSection(d) /\ Carries(d) \in Underivable
    <3> DEFINE s == Stored(delivery[d].section, {}, TRUE, delivery[d].beaten)
    <3>1. delivery' = [delivery EXCEPT ![d] = s]
      BY <2>6, <2>8 DEF InsertSection, RolledBack
    <3>2. s \in DeliveryStates /\ s.step = "stored" /\ s.launch = Carries(d) /\ s.since = delivery[d].since
      BY <2>5, <2>6
    <3> HIDE DEF s
    <3> QED  BY <3>1, <3>2 DEF Provisioning
  <2>9. CASE InsertSection(d) /\ Carries(d) \notin Underivable
    <3> DEFINE there == \E s \in sections : Conflicts(s, Carries(d))
               section == IF there THEN {} ELSE {NewSection(Carries(d))}
               s == Stored(section, delivery[d].course, delivery[d].defect, there)
    <3>0. delivery' = [delivery EXCEPT ![d].step = "stored", ![d].beaten = there, ![d].section = section]
      BY <2>9, Zenon DEF InsertSection
    <3>1. delivery' = [delivery EXCEPT ![d] = s]
      <4> HIDE DEF there, section
      <4> QED  BY <2>6, <3>0 DEF DoorTypeOK
    <3>2. section \in SUBSET Rows /\ there \in BOOLEAN
      BY <2>4
    <3>3. s \in DeliveryStates /\ s.step = "stored" /\ s.launch = Carries(d) /\ s.since = delivery[d].since
      BY <2>5, <2>6, <3>2
    <3> HIDE DEF s
    <3> QED  BY <3>1, <3>3 DEF Provisioning
  <2> QED  BY <1>3, <2>7, <2>8, <2>9 DEF UpsertSection
<1> QED  BY <1>1, <1>2, <1>3


LEMMA DoorTypes == DoorTypeOK /\ [DoorNext]_doorVars => DoorTypeOK'
<1> SUFFICES ASSUME DoorTypeOK, [DoorNext]_doorVars PROVE DoorTypeOK'
  OBVIOUS
<1>0. Idle \in DeliveryStates
  BY IdleIsAState
<1>1. ASSUME NEW l \in Launches, Login(l) PROVE DoorTypeOK'
  BY <1>1, LedgerOutlivesTheLogin DEF Login, DoorTypeOK, provisioned
<1>2. ASSUME NEW d \in Deliveries, NEW l \in Launches, LookUp(d, l) PROVE DoorTypeOK'
  BY <1>2, DoorStepStates, OneDeliveryGoes DEF LookUp, RefuseLaunch, DoorTypeOK, provisioned
<1>3. ASSUME NEW d \in Deliveries, FailVerification(d) PROVE DoorTypeOK'
  BY <1>0, <1>3, DoorStepStates, OneDeliveryGoes DEF FailVerification, RefuseLaunch, DoorTypeOK, provisioned
<1>4. ASSUME NEW d \in Deliveries, ClaimNonce(d) PROVE DoorTypeOK'
  BY <1>4, DoorStepStates, OneDeliveryGoes DEF ClaimNonce, RefuseLaunch, DoorTypeOK, provisioned
<1>5. ASSUME NEW d \in Deliveries, AdmitLaunch(d) PROVE DoorTypeOK'
  <2>1. Carries(d) \in Launches /\ delivery[d].expires \in Nat
    BY <1>5, DeliveryShape DEF AdmitLaunch, At, Carries, DoorTypeOK
  <2>2. delivery' \in [Deliveries -> DeliveryStates]
    BY <1>5, DoorStepStates, OneDeliveryGoes
  <2>3. ledger' \in [Launches -> Nat] /\ admitted' \in [Launches -> Nat]
    BY <1>5, <2>1 DEF AdmitLaunch, DoorTypeOK
  <2> QED  BY <1>5, <2>2, <2>3 DEF AdmitLaunch, DoorTypeOK, provisioned
<1>6. ASSUME NEW d \in Deliveries, ResolveContext(d) \/ UpsertCourse(d) \/ UpsertSection(d) PROVE DoorTypeOK'
  BY <1>6, ProvisioningStates, OneDeliveryGoes
     DEF ResolveContext, UpsertCourse, UpsertSection, DoorTypeOK, provisioned
<1>7. ASSUME NEW d \in Deliveries, CommitProvisioning(d) PROVE DoorTypeOK'
  <2>1. delivery[d].course \subseteq {CourseOf[l] : l \in Launches} /\ delivery[d].section \subseteq Rows
    BY <1>7, DeliveryShape DEF CommitProvisioning, At, DoorTypeOK, Provisioning
  <2>2. Carries(d) \in Launches
    BY <1>7, DeliveryShape DEF CommitProvisioning, At, DoorTypeOK, Carries
  <2>3. silent' \subseteq Launches /\ beaten' \subseteq Launches
    BY <1>7, <2>2 DEF CommitProvisioning, DoorTypeOK
  <2>4. courses' \subseteq {CourseOf[l] : l \in Launches} /\ sections' \subseteq Rows
    BY <1>7, <2>1 DEF CommitProvisioning, DoorTypeOK
  <2>5. delivery' \in [Deliveries -> DeliveryStates]
    BY <1>0, <1>7, DoorStepStates, OneDeliveryGoes
  <2> QED  BY <1>7, <2>3, <2>4, <2>5 DEF CommitProvisioning, DoorTypeOK
<1>8. ASSUME NEW d \in Deliveries, LoseDelivery(d) PROVE DoorTypeOK'
  BY <1>0, <1>8, DoorStepStates, OneDeliveryGoes DEF LoseDelivery, DoorTypeOK, provisioned
<1>9. CASE PurgeLaunches \/ PassTime
  BY <1>9 DEF PurgeLaunches, PassTime, DoorTypeOK, provisioned
<1>10. CASE UNCHANGED doorVars
  BY <1>10 DEF doorVars, DoorTypeOK
<1> QED  BY <1>1, <1>2, <1>3, <1>4, <1>5, <1>6, <1>7, <1>8, <1>9, <1>10 DEF DoorNext

Verifying(d, l) == delivery[d].step \in {"verifying", "claimed"} /\ Carries(d) = l
Claims(d, l) == At(d, "claimed") /\ Carries(d) = l

(* The login of a launch is over at e: no delivery that is still before    *)
(* the ledger found its state after that, its claim outlives every such    *)
(* delivery, and so does the ledger's row for as long as it is kept.       *)
EndsAt(l, e) ==
    /\ e <= instant + InFlight
    /\ inFlight[l] \in {0, e}
    /\ \A d \in Deliveries : Verifying(d, l) => delivery[d].since < e
    /\ \A d \in Deliveries : Claims(d, l) => e + Patience < delivery[d].expires
    /\ admitted[l] # 0 =>
         IF ledger[l] = 0 THEN e + Patience < instant ELSE e + Patience < ledger[l]

LoginsEnd == \A l \in Launches : \E e \in Nat : EndsAt(l, e)

(* No delivery runs longer than its patience.                              *)
InTime == \A d \in Deliveries : Busy(d) => instant <= delivery[d].since + Patience

(* A launch whose login did not happen is nowhere.                         *)
NotBegun ==
    \A l \in Launches \ begun :
        /\ inFlight[l] = 0 /\ ledger[l] = 0 /\ admitted[l] = 0
        /\ \A d \in Deliveries : ~Verifying(d, l)

(* A nonce is claimed by one delivery, and only while nobody used it.      *)
OneClaim ==
    \A d \in Deliveries, l \in Launches : Claims(d, l) =>
        /\ admitted[l] = 0 /\ ledger[l] = 0
        /\ \A e \in Deliveries : Claims(e, l) => e = d

AdmissionInv == DoorTypeOK /\ InTime /\ NotBegun /\ OneClaim /\ LoginsEnd /\ AdmittedOnce

LEMMA AdmissionInit == DoorInit => AdmissionInv
<1> SUFFICES ASSUME DoorInit PROVE AdmissionInv
  OBVIOUS
<1>1. DoorTypeOK
  BY IdleIsAState DEF DoorInit, DoorTypeOK
<1>2. \A d \in Deliveries : delivery[d].step = "idle"
  BY IdleIsAState DEF DoorInit
<1>3. InTime /\ NotBegun /\ OneClaim
  BY <1>2 DEF DoorInit, InTime, NotBegun, OneClaim, Busy, At, Verifying, Claims
<1>4. \A l \in Launches : EndsAt(l, 0)
  BY <1>2, LedgerOutlivesTheLogin DEF DoorInit, EndsAt, Verifying, Claims, At
<1>5. AdmittedOnce
  BY DEF DoorInit, AdmittedOnce
<1> QED  BY <1>1, <1>3, <1>4, <1>5 DEF AdmissionInv, LoginsEnd

(* A delivery that leaves the door, or is past it, disturbs nothing.       *)
LEMMA AdmissionLeft ==
  ASSUME AdmissionInv, DoorTypeOK', NEW d \in Deliveries, NEW state \in DeliveryStates,
         DeliveryGoes(d, state), state.step \notin {"verifying", "claimed"},
         state.step # "idle" => Busy(d) /\ state.since = delivery[d].since,
         UNCHANGED <<instant, begun, ledger, admitted>>,
         \A l \in Launches : inFlight'[l] \in {0, inFlight[l]}
  PROVE  AdmissionInv'
<1>1. /\ delivery'[d] = state
      /\ \A e \in Deliveries : e # d => delivery'[e] = delivery[e]
  BY OneDeliveryGoes DEF AdmissionInv
<1>2. \A e \in Deliveries, l \in Launches :
         /\ Verifying(e, l)' => Verifying(e, l) /\ delivery'[e] = delivery[e]
         /\ Claims(e, l)' => Claims(e, l) /\ delivery'[e] = delivery[e]
  BY <1>1 DEF Verifying, Claims, At, Carries
<1>3. InTime'
  <2> SUFFICES ASSUME NEW e \in Deliveries, Busy(e)' PROVE instant' <= delivery'[e].since + Patience
    BY DEF InTime
  <2>1. Busy(e) /\ delivery'[e].since = delivery[e].since
    BY <1>1 DEF Busy, At
  <2> QED  BY <2>1 DEF AdmissionInv, InTime
<1>4. NotBegun' /\ OneClaim' /\ AdmittedOnce'
  BY <1>2 DEF AdmissionInv, NotBegun, OneClaim, AdmittedOnce
<1>5. ASSUME NEW l \in Launches, NEW e \in Nat, EndsAt(l, e) PROVE EndsAt(l, e)'
  BY <1>2, <1>5 DEF EndsAt
<1> QED  BY <1>3, <1>4, <1>5 DEF AdmissionInv, LoginsEnd

LEMMA AdmissionStep == AdmissionInv /\ [DoorNext]_doorVars => AdmissionInv'
<1> SUFFICES ASSUME AdmissionInv, [DoorNext]_doorVars PROVE AdmissionInv'
  OBVIOUS
<1> USE DEF provisioned
<1>0. DoorTypeOK /\ DoorTypeOK' /\ Idle \in DeliveryStates /\ Idle.step = "idle"
  BY DoorTypes, IdleIsAState DEF AdmissionInv
<1>n. {InFlight, Remembered, Patience, instant} \subseteq Nat /\ InFlight + Patience < Remembered
  BY <1>0, LedgerOutlivesTheLogin DEF DoorTypeOK
<1>1. ASSUME NEW l \in Launches, Login(l) PROVE AdmissionInv'
  <2>1. UNCHANGED <<instant, ledger, delivery, admitted>> /\ begun' = begun \cup {l} /\ l \notin begun
    BY <1>1 DEF Login
  <2>2. inFlight'[l] = instant + InFlight /\ \A k \in Launches : k # l => inFlight'[k] = inFlight[k]
    BY <1>0, <1>1 DEF Login, DoorTypeOK
  <2>3. InTime' /\ OneClaim' /\ AdmittedOnce'
    BY <2>1 DEF AdmissionInv, InTime, OneClaim, AdmittedOnce, Busy, At, Claims, Carries
  <2>4. NotBegun'
    BY <2>1, <2>2 DEF AdmissionInv, NotBegun, Verifying, Carries
  <2>5. \E e \in Nat : EndsAt(l, e)'
    <3>1. admitted[l] = 0 /\ \A d \in Deliveries : ~Verifying(d, l) /\ ~Claims(d, l)
      BY <2>1 DEF AdmissionInv, NotBegun, Verifying, Claims, At
    <3>2. PICK e \in Nat : e = instant + InFlight
      BY <1>n
    <3>3. EndsAt(l, e)'
      BY <1>n, <2>1, <2>2, <3>1, <3>2 DEF EndsAt, Verifying, Claims, At, Carries
    <3> QED  BY <3>3
  <2>6. ASSUME NEW k \in Launches, k # l, NEW e \in Nat, EndsAt(k, e) PROVE EndsAt(k, e)'
    BY <2>1, <2>2, <2>6 DEF EndsAt, Verifying, Claims, At, Carries
  <2>7. LoginsEnd'
    BY <2>5, <2>6 DEF AdmissionInv, LoginsEnd
  <2> QED  BY <1>0, <2>3, <2>4, <2>7 DEF AdmissionInv
<1>2. ASSUME NEW d \in Deliveries, NEW l \in Launches, LookUp(d, l) PROVE AdmissionInv'
  <2>1. CASE ~(inFlight[l] > instant)
    <3>1. RefuseLaunch(d, l)
      BY <1>2, <2>1 DEF LookUp
    <3>2. \A k \in Launches : inFlight'[k] \in {0, inFlight[k]}
      BY <1>0, <3>1 DEF RefuseLaunch, DoorTypeOK
    <3> QED  BY <1>0, <3>1, <3>2, AdmissionLeft DEF RefuseLaunch, DeliveryGoes
  <2>2. CASE inFlight[l] > instant
    <3> DEFINE s == [step |-> "verifying", launch |-> l, since |-> instant]
    <3>1. s \in DeliveryStates /\ s.step = "verifying" /\ s.launch = l /\ s.since = instant
      BY <1>n DEF DeliveryStates
    <3>2. l \in begun /\ DeliveryGoes(d, s) /\ UNCHANGED <<instant, begun, inFlight, ledger, admitted>>
      BY <1>2, <2>2 DEF LookUp, DeliveryGoes
    <3> HIDE DEF s
    <3>3. /\ delivery'[d] = s
          /\ \A e \in Deliveries : e # d => delivery'[e] = delivery[e]
      BY <1>0, <3>1, <3>2, OneDeliveryGoes
    <3>4. \A e \in Deliveries, k \in Launches :
             /\ Verifying(e, k)' => (Verifying(e, k) /\ delivery'[e] = delivery[e])
                                      \/ (e = d /\ k = l /\ delivery'[e] = s)
             /\ Claims(e, k)' => Claims(e, k) /\ delivery'[e] = delivery[e]
      BY <3>1, <3>3 DEF Verifying, Claims, At, Carries
    <3>5. InTime'
      BY <1>n, <3>1, <3>2, <3>3 DEF AdmissionInv, InTime, Busy, At
    <3>6. NotBegun' /\ OneClaim' /\ AdmittedOnce'
      BY <3>2, <3>4 DEF AdmissionInv, NotBegun, OneClaim, AdmittedOnce
    <3>7. ASSUME NEW k \in Launches, NEW e \in Nat, EndsAt(k, e) PROVE EndsAt(k, e)'
      <4>1. k = l => instant < e
        BY <1>n, <2>2, <3>7 DEF EndsAt
      <4> QED  BY <3>1, <3>2, <3>4, <3>7, <4>1 DEF EndsAt
    <3> QED  BY <1>0, <3>5, <3>6, <3>7 DEF AdmissionInv, LoginsEnd
  <2> QED  BY <2>1, <2>2
<1>3. ASSUME NEW d \in Deliveries, FailVerification(d) PROVE AdmissionInv'
  <2>1. Carries(d) \in Launches
    BY <1>0, <1>3, DeliveryShape DEF FailVerification, At, Carries, DoorTypeOK
  <2>2. \A k \in Launches : inFlight'[k] \in {0, inFlight[k]}
    BY <1>0, <1>3, <2>1 DEF FailVerification, RefuseLaunch, DoorTypeOK
  <2> QED  BY <1>0, <1>3, <2>2, AdmissionLeft DEF FailVerification, RefuseLaunch, DeliveryGoes
<1>4. ASSUME NEW d \in Deliveries, ClaimNonce(d) PROVE AdmissionInv'
  <2> DEFINE l == Carries(d)
  <2>1. l \in Launches /\ delivery[d].since \in Nat /\ delivery[d].step = "verifying"
    BY <1>0, <1>4, DeliveryShape DEF ClaimNonce, At, Carries, DoorTypeOK
  <2>2. CASE ledger[l] # 0
    <3>1. RefuseLaunch(d, l)
      BY <1>4, <2>2 DEF ClaimNonce
    <3>2. \A k \in Launches : inFlight'[k] \in {0, inFlight[k]}
      BY <1>0, <2>1, <3>1 DEF RefuseLaunch, DoorTypeOK
    <3> QED  BY <1>0, <3>1, <3>2, AdmissionLeft DEF RefuseLaunch, DeliveryGoes
  <2>3. CASE ledger[l] = 0
    <3> DEFINE s == [step |-> "claimed", launch |-> l, since |-> delivery[d].since,
                     expires |-> ClaimExpires]
    <3>1. /\ s \in DeliveryStates /\ s.step = "claimed" /\ s.launch = l
          /\ s.since = delivery[d].since /\ s.expires = instant + Remembered
      BY <1>n, <2>1 DEF DeliveryStates, ClaimExpires
    <3>2. DeliveryGoes(d, s) /\ UNCHANGED <<instant, begun, inFlight, ledger, admitted>>
      BY <1>4, <2>3 DEF ClaimNonce, DeliveryGoes
    <3>3. \A e \in Deliveries \ {d} : ~Claims(e, l)
      BY <1>4 DEF ClaimNonce, Claims
    <3>4. Verifying(d, l) /\ Busy(d)
      BY <2>1 DEF Verifying, Busy, At
    <3> HIDE DEF s
    <3>5. /\ delivery'[d] = s
          /\ \A e \in Deliveries : e # d => delivery'[e] = delivery[e]
      BY <1>0, <3>1, <3>2, OneDeliveryGoes
    <3>6. \A e \in Deliveries, k \in Launches :
             /\ Verifying(e, k)' => Verifying(e, k) /\ delivery'[e].since = delivery[e].since
             /\ Claims(e, k)' => (e # d /\ Claims(e, k) /\ delivery'[e] = delivery[e])
                                   \/ (e = d /\ k = l /\ delivery'[e] = s)
      BY <2>1, <3>1, <3>5 DEF Verifying, Claims, At, Carries
    <3>7. admitted[l] = 0
      <4>1. PICK e \in Nat : EndsAt(l, e)
        BY <2>1 DEF AdmissionInv, LoginsEnd
      <4>2. delivery[d].since < e /\ instant <= delivery[d].since + Patience
        BY <3>4, <4>1 DEF EndsAt, AdmissionInv, InTime
      <4>3. ~ (e + Patience < instant)
        BY <1>n, <2>1, <4>2
      <4> QED  BY <2>3, <4>1, <4>3 DEF EndsAt
    <3>8. InTime'
      <4>1. \A e \in Deliveries : Busy(e)' => Busy(e) /\ delivery'[e].since = delivery[e].since
        BY <3>1, <3>4, <3>5 DEF Busy, At
      <4> QED  BY <3>2, <4>1 DEF AdmissionInv, InTime
    <3>9. NotBegun' /\ AdmittedOnce'
      BY <3>2, <3>6 DEF AdmissionInv, NotBegun, AdmittedOnce
    <3>10. OneClaim'
      <4> SUFFICES ASSUME NEW e \in Deliveries, NEW k \in Launches, Claims(e, k)'
                   PROVE  /\ admitted'[k] = 0 /\ ledger'[k] = 0
                          /\ \A f \in Deliveries : Claims(f, k)' => f = e
        BY DEF OneClaim
      <4>1. CASE e = d
        BY <2>3, <3>2, <3>3, <3>6, <3>7, <4>1
      <4>2. CASE e # d
        <5>1. Claims(e, k) /\ k # l
          BY <3>3, <3>6, <4>2
        <5>2. admitted[k] = 0 /\ ledger[k] = 0 /\ \A f \in Deliveries : Claims(f, k) => f = e
          BY <5>1 DEF AdmissionInv, OneClaim
        <5> QED  BY <3>2, <3>6, <5>1, <5>2
      <4> QED  BY <4>1, <4>2
    <3>11. ASSUME NEW k \in Launches, NEW e \in Nat, EndsAt(k, e) PROVE EndsAt(k, e)'
      <4>1. k = l => e + Patience < instant + Remembered
        BY <1>n, <3>11 DEF EndsAt
      <4> QED  BY <3>1, <3>2, <3>6, <3>11, <4>1 DEF EndsAt
    <3> QED  BY <1>0, <3>8, <3>9, <3>10, <3>11 DEF AdmissionInv, LoginsEnd
  <2> QED  BY <2>2, <2>3
<1>5. ASSUME NEW d \in Deliveries, AdmitLaunch(d) PROVE AdmissionInv'
  <2> DEFINE l == Carries(d)
             s == [step |-> "admitted", launch |-> l, since |-> delivery[d].since]
  <2>1. /\ l \in Launches /\ delivery[d].since \in Nat /\ delivery[d].step = "claimed"
        /\ delivery[d].expires \in Nat
    BY <1>0, <1>5, DeliveryShape DEF AdmitLaunch, At, Carries, DoorTypeOK
  <2>2. s \in DeliveryStates /\ s.step = "admitted" /\ s.since = delivery[d].since
    BY <2>1 DEF DeliveryStates
  <2>3. DeliveryGoes(d, s) /\ UNCHANGED <<instant, begun, inFlight>>
    BY <1>5 DEF AdmitLaunch, DeliveryGoes
  <2>4. /\ ledger'[l] = delivery[d].expires /\ admitted'[l] = admitted[l] + 1
        /\ \A k \in Launches : k # l => ledger'[k] = ledger[k] /\ admitted'[k] = admitted[k]
    BY <1>0, <1>5, <2>1 DEF AdmitLaunch, DoorTypeOK
  <2> HIDE DEF s
  <2>5. /\ delivery'[d] = s
        /\ \A e \in Deliveries : e # d => delivery'[e] = delivery[e]
    BY <1>0, <2>2, <2>3, OneDeliveryGoes
  <2>6. Claims(d, l) /\ Verifying(d, l) /\ Busy(d)
    BY <2>1 DEF Claims, Verifying, Busy, At
  <2>7. admitted[l] = 0 /\ \A e \in Deliveries : Claims(e, l) => e = d
    BY <2>1, <2>6 DEF AdmissionInv, OneClaim
  <2>8. \A e \in Deliveries, k \in Launches :
           /\ Verifying(e, k)' => Verifying(e, k) /\ delivery'[e] = delivery[e]
           /\ Claims(e, k)' => Claims(e, k) /\ e # d /\ k # l /\ delivery'[e] = delivery[e]
    BY <2>2, <2>5, <2>7 DEF Verifying, Claims, At, Carries
  <2>9. InTime'
    <3>1. \A e \in Deliveries : Busy(e)' => Busy(e) /\ delivery'[e].since = delivery[e].since
      BY <2>2, <2>5, <2>6 DEF Busy, At
    <3> QED  BY <2>3, <3>1 DEF AdmissionInv, InTime
  <2>10. l \in begun
    BY <2>1, <2>6 DEF AdmissionInv, NotBegun
  <2>11. NotBegun' /\ OneClaim'
    BY <2>3, <2>4, <2>8, <2>10 DEF AdmissionInv, NotBegun, OneClaim
  <2>12. AdmittedOnce'
    BY <2>4, <2>7 DEF AdmissionInv, AdmittedOnce
  <2>13. ASSUME NEW k \in Launches, NEW e \in Nat, EndsAt(k, e) PROVE EndsAt(k, e)'
    <3>1. CASE k = l
      <4>1. e + Patience < delivery[d].expires
        BY <2>6, <2>13, <3>1 DEF EndsAt
      <4>2. ledger'[l] # 0
        BY <1>n, <2>1, <2>4, <4>1
      <4> QED  BY <2>3, <2>4, <2>8, <2>13, <3>1, <4>1, <4>2 DEF EndsAt
    <3>2. CASE k # l
      BY <2>3, <2>4, <2>8, <2>13, <3>2 DEF EndsAt
    <3> QED  BY <3>1, <3>2
  <2> QED  BY <1>0, <2>9, <2>11, <2>12, <2>13 DEF AdmissionInv, LoginsEnd
<1>6. ASSUME NEW d \in Deliveries, ResolveContext(d) \/ UpsertCourse(d) \/ UpsertSection(d)
      PROVE AdmissionInv'
  <2>1. PICK s \in DeliveryStates :
          /\ s.step \in Provisioning \cup {"idle"}
          /\ s.step # "idle" => s.launch = Carries(d) /\ s.since = delivery[d].since
          /\ DeliveryGoes(d, s)
    BY <1>0, <1>6, ProvisioningStates
  <2>2. Busy(d) /\ UNCHANGED <<instant, begun, inFlight, ledger, admitted>>
    BY <1>6 DEF ResolveContext, UpsertCourse, UpsertSection, Busy, At
  <2> QED  BY <1>0, <2>1, <2>2, AdmissionLeft DEF Provisioning
<1>7. ASSUME NEW d \in Deliveries, CommitProvisioning(d) \/ LoseDelivery(d) PROVE AdmissionInv'
  BY <1>0, <1>7, AdmissionLeft DEF CommitProvisioning, LoseDelivery, DeliveryGoes
<1>8. CASE PurgeLaunches
  <2>1. UNCHANGED <<instant, begun, delivery, admitted>>
    BY <1>8 DEF PurgeLaunches
  <2>2. \A l \in Launches :
          /\ inFlight'[l] \in {0, inFlight[l]}
          /\ IF ledger[l] < instant THEN ledger'[l] = 0 ELSE ledger'[l] = ledger[l]
    BY <1>8 DEF PurgeLaunches
  <2>3. InTime' /\ NotBegun' /\ OneClaim' /\ AdmittedOnce'
    BY <2>1, <2>2
       DEF AdmissionInv, InTime, NotBegun, OneClaim, AdmittedOnce, Busy, At, Verifying, Claims, Carries
  <2>4. ASSUME NEW l \in Launches, NEW e \in Nat, EndsAt(l, e) PROVE EndsAt(l, e)'
    <3>1. ledger[l] \in Nat
      BY <1>0 DEF DoorTypeOK
    <3> QED  BY <1>n, <2>1, <2>2, <2>4, <3>1 DEF EndsAt, Verifying, Claims, At, Carries
  <2> QED  BY <1>0, <2>3, <2>4 DEF AdmissionInv, LoginsEnd
<1>9. CASE PassTime
  <2>1. UNCHANGED <<begun, inFlight, ledger, delivery, admitted>> /\ instant' = instant + 1
    BY <1>9 DEF PassTime
  <2>2. InTime'
    <3> SUFFICES ASSUME NEW d \in Deliveries, Busy(d) PROVE instant + 1 <= delivery[d].since + Patience
      BY <2>1 DEF InTime, Busy, At
    <3>1. delivery[d].since \in Nat /\ instant - delivery[d].since < Patience
      BY <1>0, <1>9, DeliveryShape DEF PassTime, DoorTypeOK, Busy, At
    <3> QED  BY <1>n, <3>1
  <2>3. NotBegun' /\ OneClaim' /\ AdmittedOnce'
    BY <2>1 DEF AdmissionInv, NotBegun, OneClaim, AdmittedOnce, At, Verifying, Claims, Carries
  <2>4. ASSUME NEW l \in Launches, NEW e \in Nat, EndsAt(l, e) PROVE EndsAt(l, e)'
    BY <1>n, <2>1, <2>4 DEF EndsAt, Verifying, Claims, At, Carries
  <2> QED  BY <1>0, <2>2, <2>3, <2>4 DEF AdmissionInv, LoginsEnd
<1>10. CASE UNCHANGED doorVars
  <2>1. InTime' /\ NotBegun' /\ OneClaim' /\ AdmittedOnce'
    BY <1>10 DEF doorVars, AdmissionInv, InTime, NotBegun, OneClaim, AdmittedOnce, Busy, At,
                 Verifying, Claims, Carries
  <2>2. ASSUME NEW l \in Launches, NEW e \in Nat, EndsAt(l, e) PROVE EndsAt(l, e)'
    BY <1>10, <2>2 DEF doorVars, EndsAt, Verifying, Claims, At, Carries
  <2> QED  BY <1>0, <2>1, <2>2 DEF AdmissionInv, LoginsEnd
<1> QED  BY <1>1, <1>2, <1>3, <1>4, <1>5, <1>6, <1>7, <1>8, <1>9, <1>10 DEF DoorNext

(* A launch lets in one person once, for any number of launches and of     *)
(* deliveries of each, whatever dies and whenever the purge runs, as long  *)
(* as the ledger outlives the login and the longest delivery.              *)
THEOREM LaunchesAdmitOnce == DoorSpec => []AdmittedOnce
<1>1. AdmissionInv => AdmittedOnce
  BY DEF AdmissionInv
<1> QED  BY <1>1, AdmissionInit, AdmissionStep, PTL DEF DoorSpec

Provisions(d) == delivery[d].step \in Provisioning
HeldRows(d) == IF Provisions(d) THEN delivery[d].section ELSE {}

SameName(s, m) == s.course = m.course /\ s.code = m.code
IsRowOf(s, l) == s.context = ContextOf[l] /\ s.course = CourseOf[l] /\ s.code = CodeOf[l]
IsThere(l) == \E s \in sections : IsRowOf(s, l)

(* The two unique keys agree on which committed row a row stands for.      *)
Fits(m) == \A s \in sections : s.context = m.context <=> SameName(s, m)

(* What a delivery that is provisioning holds: rows of its own launch, and *)
(* once it is about to commit, a defect and nothing else, or a section     *)
(* that is there or that it brings, or a row it lost the insert to.        *)
InOrder(d) ==
    Provisions(d) =>
      /\ delivery[d].section \subseteq {NewSection(Carries(d))}
      /\ \A m \in delivery[d].section : Fits(m)
      /\ \A m \in delivery[d].bound : IsRowOf(m, Carries(d))
      /\ delivery[d].bound # {} => IsThere(Carries(d))
      /\ delivery[d].course \subseteq {CourseOf[Carries(d)]}
      /\ ~At(d, "stored") => delivery[d].section = {} /\ ~delivery[d].beaten /\ ~delivery[d].defect
      /\ At(d, "stored") =>
           \/ delivery[d].defect /\ delivery[d].course = {} /\ delivery[d].section = {}
                /\ ~delivery[d].beaten
           \/ /\ ~delivery[d].defect
              /\ \/ IsThere(Carries(d))
                 \/ delivery[d].section # {}
                 \/ delivery[d].beaten /\ \E s \in sections : Conflicts(s, Carries(d))

RowsApart == \A s, m \in sections : s.context = m.context \/ SameName(s, m) => s = m

Apart(R, S) == \A m \in R, s \in S : m.context # s.context /\ ~SameName(m, s)
HeldApart == \A d, e \in Deliveries : d # e => Apart(HeldRows(d), HeldRows(e))

ProvisioningInv ==
    /\ DoorTypeOK /\ RowsApart /\ HeldApart
    /\ \A d \in Deliveries : InOrder(d)
    /\ NoHalfProvisioned

LEMMA ProvisioningInit == DoorInit => ProvisioningInv
<1> SUFFICES ASSUME DoorInit PROVE ProvisioningInv
  OBVIOUS
<1>1. DoorTypeOK
  BY IdleIsAState DEF DoorInit, DoorTypeOK
<1>2. \A d \in Deliveries : ~Provisions(d) /\ HeldRows(d) = {}
  BY IdleIsAState DEF DoorInit, Provisions, HeldRows, Provisioning
<1> QED  BY <1>1, <1>2 DEF DoorInit, ProvisioningInv, RowsApart, HeldApart, Apart, InOrder, NoHalfProvisioned

(* One delivery moves while the committed rows stay.                       *)
LEMMA OneProvisions ==
  ASSUME ProvisioningInv, DoorTypeOK', NEW d \in Deliveries, NEW state \in DeliveryStates,
         DeliveryGoes(d, state), UNCHANGED <<courses, sections, silent, beaten>>,
         InOrder(d)', \A e \in Deliveries \ {d} : Apart(HeldRows(d)', HeldRows(e))
  PROVE  ProvisioningInv'
<1>1. \A e \in Deliveries : e # d => delivery'[e] = delivery[e]
  BY OneDeliveryGoes DEF ProvisioningInv
<1>2. \A e \in Deliveries : e # d => HeldRows(e)' = HeldRows(e) /\ (InOrder(e) => InOrder(e)')
  BY <1>1 DEF HeldRows, Provisions, InOrder, Carries, At, Fits, IsThere
<1>3. HeldApart'
  <2> SUFFICES ASSUME NEW a \in Deliveries, NEW b \in Deliveries, a # b
               PROVE  Apart(HeldRows(a)', HeldRows(b)')
    BY DEF HeldApart, Apart
  <2>1. CASE a = d
    BY <1>2, <2>1
  <2>2. CASE b = d
    <3>1. Apart(HeldRows(d)', HeldRows(a)')
      BY <1>2, <2>2
    <3> QED  BY <2>2, <3>1 DEF Apart, SameName
  <2>3. CASE a # d /\ b # d
    BY <1>2, <2>3 DEF ProvisioningInv, HeldApart
  <2> QED  BY <2>1, <2>2, <2>3
<1>4. RowsApart' /\ NoHalfProvisioned'
  BY DEF ProvisioningInv, RowsApart, NoHalfProvisioned, Named
<1> QED  BY <1>2, <1>3, <1>4 DEF ProvisioningInv

LEMMA NotProvisioning ==
  ASSUME ProvisioningInv, DoorTypeOK', NEW d \in Deliveries, NEW state \in DeliveryStates,
         DeliveryGoes(d, state), UNCHANGED <<courses, sections, silent, beaten>>,
         state.step \notin Provisioning
  PROVE  ProvisioningInv'
<1>1. delivery'[d] = state
  BY OneDeliveryGoes DEF ProvisioningInv
<1>2. InOrder(d)' /\ HeldRows(d)' = {}
  BY <1>1 DEF InOrder, HeldRows, Provisions
<1> QED  BY <1>2, OneProvisions DEF Apart

LEMMA ResolveKeeps ==
  ASSUME ProvisioningInv, DoorTypeOK', NEW d \in Deliveries, ResolveContext(d)
  PROVE  ProvisioningInv'
<1> DEFINE l == Carries(d)
           s == [step |-> "course", launch |-> l, since |-> delivery[d].since,
                 bound |-> BoundTo(ContextOf[l]), course |-> {}, section |-> {},
                 defect |-> FALSE, beaten |-> FALSE]
<1>1. DoorTypeOK /\ UNCHANGED <<courses, sections, silent, beaten>>
  BY DEF ProvisioningInv, ResolveContext
<1>2. CASE MayIngest(l) /\ ~IsDefective(l)
  <2>1. DeliveryGoes(d, s)
    BY <1>2 DEF ResolveContext, DeliveryGoes
  <2>2. l \in Launches /\ delivery[d].since \in Nat
    BY <1>1, DeliveryShape DEF ResolveContext, At, Carries, DoorTypeOK
  <2>3. \A m \in BoundTo(ContextOf[l]) : IsRowOf(m, l) /\ m \in sections
    BY <1>2 DEF IsDefective, BoundTo, Named, IsRowOf
  <2>4. BoundTo(ContextOf[l]) \subseteq Rows
    BY <1>1 DEF BoundTo, DoorTypeOK
  <2>5. /\ s \in DeliveryStates /\ s.step = "course" /\ s.launch = l /\ s.section = {} /\ s.course = {}
        /\ ~s.beaten /\ ~s.defect /\ s.bound = BoundTo(ContextOf[l])
    BY <2>2, <2>4 DEF DeliveryStates, Provisioning
  <2> HIDE DEF s
  <2>6. delivery'[d] = s
    BY <1>1, <2>1, <2>5, OneDeliveryGoes
  <2>7. s.bound # {} => IsThere(l)
    BY <2>3, <2>5 DEF IsThere
  <2>8. InOrder(d)'
    BY <1>1, <2>3, <2>5, <2>6, <2>7 DEF InOrder, Carries, At, Fits, IsThere
  <2>9. HeldRows(d)' = {}
    BY <2>5, <2>6 DEF HeldRows
  <2> QED  BY <1>1, <2>1, <2>5, <2>8, <2>9, OneProvisions DEF Apart
<1>3. CASE ~(MayIngest(l) /\ ~IsDefective(l))
  <2>1. DeliveryGoes(d, Idle)
    BY <1>3 DEF ResolveContext, DeliveryGoes
  <2> QED  BY <1>1, <2>1, IdleIsAState, NotProvisioning DEF Provisioning
<1> QED  BY <1>2, <1>3

LEMMA CourseKeeps ==
  ASSUME ProvisioningInv, DoorTypeOK', NEW d \in Deliveries, UpsertCourse(d)
  PROVE  ProvisioningInv'
<1> DEFINE s == [delivery[d] EXCEPT !.step = "section", !.course = {CourseOf[Carries(d)]} \ courses]
<1>1. DoorTypeOK /\ UNCHANGED <<courses, sections, silent, beaten>> /\ delivery[d].step = "course"
  BY DEF ProvisioningInv, UpsertCourse, provisioned, At
<1>2. DeliveryGoes(d, s)
  BY <1>1 DEF UpsertCourse, DeliveryGoes, DoorTypeOK
<1>3. /\ s \in DeliveryStates /\ s.step = "section" /\ s.launch = delivery[d].launch
      /\ s.course \subseteq {CourseOf[Carries(d)]} /\ s.section = delivery[d].section
      /\ s.bound = delivery[d].bound /\ s.beaten = delivery[d].beaten /\ s.defect = delivery[d].defect
  <2>1. delivery[d].step \in Provisioning /\ delivery[d] \in DeliveryStates /\ delivery[d].launch \in Launches
    BY <1>1, DeliveryShape DEF Provisioning, DoorTypeOK
  <2> QED  BY <2>1, DeliveryShape DEF DeliveryStates, Provisioning, Carries
<1> HIDE DEF s
<1>4. delivery'[d] = s
  BY <1>1, <1>2, <1>3, OneDeliveryGoes
<1>5. InOrder(d) /\ Provisions(d) /\ delivery[d].section = {}
  BY <1>1 DEF ProvisioningInv, InOrder, Provisions, Provisioning, At
<1>6. InOrder(d)'
  BY <1>1, <1>3, <1>4, <1>5 DEF InOrder, Carries, At, Fits, IsThere
<1>7. HeldRows(d)' = {}
  BY <1>3, <1>4, <1>5 DEF HeldRows
<1> QED  BY <1>1, <1>2, <1>3, <1>6, <1>7, OneProvisions DEF Apart

LEMMA OthersHold ==
  ASSUME DoorTypeOK, NEW d \in Deliveries, NEW l \in Launches,
         \A s \in OthersSections(d) : ~Conflicts(s, l)
  PROVE  \A e \in Deliveries \ {d} : Apart({NewSection(l)}, HeldRows(e))
<1> SUFFICES ASSUME NEW e \in Deliveries \ {d}, NEW s \in HeldRows(e)
             PROVE  ~Conflicts(s, l)
  BY NewRow DEF Apart, Conflicts, SameName
<1>1. e \in OtherWriters(d) /\ s \in delivery[e].section
  BY DEF HeldRows, Provisions, Provisioning, OtherWriters
<1>2. s \in OthersSections(d)
  BY <1>1 DEF OthersSections
<1> QED  BY <1>2

LEMMA SectionKeeps ==
  ASSUME ProvisioningInv, DoorTypeOK', NEW d \in Deliveries, UpsertSection(d)
  PROVE  ProvisioningInv'
<1> DEFINE l == Carries(d)
           Stored(section, course, defect, lost) ==
               [delivery[d] EXCEPT !.step = "stored", !.course = course, !.section = section,
                                   !.defect = defect, !.beaten = lost]
<1>1. DoorTypeOK /\ UNCHANGED <<courses, sections, silent, beaten>> /\ delivery[d].step = "section"
  BY DEF ProvisioningInv, UpsertSection, provisioned, At
<1>2. delivery[d] \in [step : Provisioning, launch : Launches, since : Nat, bound : SUBSET Rows,
                       course : SUBSET {CourseOf[k] : k \in Launches}, section : SUBSET Rows,
                       defect : BOOLEAN, beaten : BOOLEAN]
  BY <1>1, DeliveryShape DEF Provisioning, DoorTypeOK
<1>3. l \in Launches /\ NewSection(l) \in Rows
  BY <1>2, NewRow DEF Carries
<1>5. /\ \A m \in delivery[d].bound : IsRowOf(m, l)
      /\ delivery[d].bound # {} => IsThere(l)
      /\ delivery[d].course \subseteq {CourseOf[l]}
      /\ delivery[d].section = {} /\ ~delivery[d].beaten /\ ~delivery[d].defect
  BY <1>1 DEF ProvisioningInv, InOrder, Provisions, Provisioning, At
(* What is left to show of each way to store the section.                  *)
<1>6. ASSUME NEW section, section \subseteq {NewSection(l)}, NEW course, course \subseteq {CourseOf[l]},
             course \subseteq delivery[d].course,
             NEW defect \in BOOLEAN, NEW lost \in BOOLEAN,
             DeliveryGoes(d, Stored(section, course, defect, lost)),
             \A m \in section : Fits(m),
             section # {} => \A e \in Deliveries \ {d} : Apart({NewSection(l)}, HeldRows(e)),
             \/ defect /\ course = {} /\ section = {} /\ ~lost
             \/ /\ ~defect
                /\ \/ IsThere(l)
                   \/ section # {}
                   \/ lost /\ \E s \in sections : Conflicts(s, l)
      PROVE  ProvisioningInv'
  <2> DEFINE s == Stored(section, course, defect, lost)
  <2>1. course \in SUBSET {CourseOf[k] : k \in Launches}
    BY <1>3, <1>6
  <2>2. /\ s \in DeliveryStates /\ s.step = "stored" /\ s.launch = delivery[d].launch
        /\ s.course = course /\ s.section = section
        /\ s.bound = delivery[d].bound /\ s.beaten = lost /\ s.defect = defect
    BY <1>2, <1>3, <1>6, <2>1 DEF DeliveryStates, Provisioning
  <2>3. DeliveryGoes(d, s)
    BY <1>6
  <2> HIDE DEF s
  <2>4. delivery'[d] = s
    BY <1>1, <2>2, <2>3, OneDeliveryGoes
  <2>5. InOrder(d)'
    BY <1>1, <1>5, <1>6, <2>2, <2>4 DEF InOrder, Carries, At, Fits, IsThere, Conflicts
  <2>6. HeldRows(d)' \subseteq section
    BY <2>2, <2>4 DEF HeldRows
  <2>7. \A e \in Deliveries \ {d} : Apart(HeldRows(d)', HeldRows(e))
    BY <1>6, <2>6 DEF Apart
  <2> QED  BY <1>1, <2>2, <2>3, <2>5, <2>7, OneProvisions
<1>7. CASE CorrectSection(d)
  <2> DEFINE section == Corrections(delivery[d].bound, l)
  <2>1. DeliveryGoes(d, Stored(section, delivery[d].course, delivery[d].defect, delivery[d].beaten))
    BY <1>1, <1>2, <1>7 DEF CorrectSection, DeliveryGoes, DoorTypeOK
  <2>2. section \subseteq {NewSection(l)}
    BY <1>2, <1>3, <1>5, CorrectedRow DEF IsRowOf
  <2>3. IsThere(l)
    BY <1>5, <1>7 DEF CorrectSection
  <2>4. Fits(NewSection(l))
    BY <1>3, <2>3, NewRow DEF IsThere, IsRowOf, Fits, SameName, ProvisioningInv, RowsApart
  <2>5. section # {} => \A e \in Deliveries \ {d} : Apart({NewSection(l)}, HeldRows(e))
    BY <1>1, <1>3, <1>7, OthersHold DEF CorrectSection
  <2> HIDE DEF section, Stored
  <2> QED  BY <1>2, <1>5, <1>6, <2>1, <2>2, <2>3, <2>4, <2>5
<1>8. CASE InsertSection(d) /\ l \in Underivable
  <2>1. DeliveryGoes(d, Stored({}, {}, TRUE, FALSE))
    BY <1>2, <1>5, <1>8 DEF InsertSection, RolledBack, DeliveryGoes
  <2> HIDE DEF Stored
  <2> QED  BY <1>5, <1>6, <2>1
<1>9. CASE InsertSection(d) /\ l \notin Underivable
  <2> DEFINE there == \E s \in sections : Conflicts(s, l)
             section == IF there THEN {} ELSE {NewSection(l)}
  <2>0. delivery' = [delivery EXCEPT ![d].step = "stored", ![d].beaten = there, ![d].section = section]
    BY <1>9, Zenon DEF InsertSection
  <2>1. DeliveryGoes(d, Stored(section, delivery[d].course, FALSE, there))
    <3> HIDE DEF there, section
    <3> QED  BY <1>1, <1>2, <1>5, <2>0 DEF DeliveryGoes, DoorTypeOK
  <2>2. section \subseteq {NewSection(l)} /\ there \in BOOLEAN
    OBVIOUS
  <2>3. ~there => Fits(NewSection(l))
    BY <1>3, NewRow DEF Fits, Conflicts, SameName
  <2>4. \A e \in Deliveries \ {d} : Apart({NewSection(l)}, HeldRows(e))
    BY <1>1, <1>3, <1>9, OthersHold DEF InsertSection
  <2>5. \A m \in section : Fits(m)
    BY <2>3
  <2>6. section # {} \/ (there /\ \E s \in sections : Conflicts(s, l))
    OBVIOUS
  <2> HIDE DEF there, section, Stored
  <2> QED  BY <1>5, <1>6, <2>1, <2>2, <2>4, <2>5, <2>6
<1> QED  BY <1>7, <1>8, <1>9 DEF UpsertSection

(* A commit replaces a row by the row of the same launch, which both keys   *)
(* agree on, or adds one that neither key knows: no name and no context is  *)
(* lost.                                                                    *)
LEMMA CommitKeeps ==
  ASSUME ProvisioningInv, DoorTypeOK', NEW d \in Deliveries, CommitProvisioning(d)
  PROVE  ProvisioningInv'
<1> DEFINE l == Carries(d)
           mine == delivery[d].section
<1>1. /\ DoorTypeOK /\ delivery[d].step = "stored" /\ InOrder(d) /\ Provisions(d)
      /\ l \in Launches /\ HeldRows(d) = mine
  BY DeliveryShape
     DEF CommitProvisioning, At, ProvisioningInv, DoorTypeOK, Carries, Provisions, Provisioning, HeldRows
<1>2. /\ sections' = {s \in sections : \A m \in mine : m.context # s.context} \cup mine
      /\ courses' = courses \cup delivery[d].course
      /\ delivery' = [delivery EXCEPT ![d] = Idle]
      /\ silent' \subseteq silent \cup {l}
      /\ beaten' = IF delivery[d].beaten THEN beaten \cup {l} ELSE beaten
  BY DEF CommitProvisioning
<1>3. /\ ~Provisions(d)' /\ HeldRows(d)' = {}
      /\ \A e \in Deliveries : e # d => delivery'[e] = delivery[e]
  BY <1>1, <1>2, IdleIsAState DEF DoorTypeOK, Provisions, HeldRows, Provisioning
<1>4. /\ mine \subseteq {NewSection(l)} /\ \A m \in mine : Fits(m) /\ IsRowOf(m, l)
      /\ \A m, s \in mine : m = s
  BY <1>1, NewRow DEF InOrder, IsRowOf
<1>5. \A s \in sections : \E t \in sections' : t.context = s.context /\ SameName(t, s)
  <2> SUFFICES ASSUME NEW s \in sections PROVE \E t \in sections' : t.context = s.context /\ SameName(t, s)
    OBVIOUS
  <2>1. CASE \A m \in mine : m.context # s.context
    BY <1>2, <2>1 DEF SameName
  <2>2. CASE \E m \in mine : m.context = s.context
    BY <1>2, <1>4, <2>2 DEF Fits, SameName
  <2> QED  BY <2>1, <2>2
<1>6. RowsApart'
  <2> SUFFICES ASSUME NEW s \in sections', NEW m \in sections', s.context = m.context \/ SameName(s, m)
               PROVE  s = m
    BY DEF RowsApart, SameName
  <2>1. CASE s \in mine /\ m \in mine
    BY <1>4, <2>1
  <2>2. CASE s \notin mine /\ m \notin mine
    BY <1>2, <2>2 DEF ProvisioningInv, RowsApart
  <2>3. CASE s \in mine /\ m \notin mine
    BY <1>2, <1>4, <2>3 DEF Fits, SameName
  <2>4. CASE s \notin mine /\ m \in mine
    BY <1>2, <1>4, <2>4 DEF Fits, SameName
  <2> QED  BY <2>1, <2>2, <2>3, <2>4
<1>7. HeldApart'
  <2> SUFFICES ASSUME NEW a \in Deliveries, NEW b \in Deliveries, a # b
               PROVE  Apart(HeldRows(a)', HeldRows(b)')
    BY DEF HeldApart, Apart
  <2>1. CASE a = d \/ b = d
    BY <1>3, <2>1 DEF Apart
  <2>2. CASE a # d /\ b # d
    <3>1. HeldRows(a)' = HeldRows(a) /\ HeldRows(b)' = HeldRows(b)
      BY <1>3, <2>2 DEF HeldRows, Provisions
    <3> QED  BY <3>1 DEF ProvisioningInv, HeldApart
  <2> QED  BY <2>1, <2>2
<1>8. ASSUME NEW k \in Launches PROVE IsThere(k) => IsThere(k)'
  BY <1>5 DEF IsThere, IsRowOf, SameName
<1>9. ASSUME NEW e \in Deliveries PROVE InOrder(e)'
  <2>1. CASE e = d
    BY <1>3, <2>1 DEF InOrder
  <2>2. CASE e # d
    <3> SUFFICES ASSUME Provisions(e) PROVE InOrder(e)'
      BY <1>3, <2>2 DEF InOrder, Provisions
    <3>1. delivery'[e] = delivery[e] /\ InOrder(e) /\ Carries(e) \in Launches
      BY <1>1, <1>3, <2>2, DeliveryShape DEF ProvisioningInv, DoorTypeOK, Carries, Provisions, Provisioning
    <3>2. ASSUME NEW n \in delivery[e].section PROVE Fits(n)'
      <4> SUFFICES ASSUME NEW s \in sections' PROVE s.context = n.context <=> SameName(s, n)
        BY DEF Fits, SameName
      <4>1. CASE s \in mine
        <5>1. Apart(HeldRows(e), HeldRows(d)) /\ n \in HeldRows(e)
          BY <2>2 DEF ProvisioningInv, HeldApart, HeldRows
        <5> QED  BY <1>1, <4>1, <5>1 DEF Apart, SameName
      <4>2. CASE s \notin mine
        BY <1>2, <3>1, <4>2 DEF InOrder, Fits
      <4> QED  BY <4>1, <4>2
    <3>3. (\E s \in sections : Conflicts(s, Carries(e))) => (\E s \in sections' : Conflicts(s, Carries(e)))
      BY <1>5 DEF Conflicts, SameName
    <3>4. Carries(e)' = Carries(e) /\ At(e, "stored")' = At(e, "stored") /\ Provisions(e)' = Provisions(e)
      BY <3>1 DEF Carries, At, Provisions
    <3>5. IsThere(Carries(e)) => IsThere(Carries(e))'
      BY <1>8, <3>1, <3>4 DEF IsThere
    <3> QED  BY <3>1, <3>2, <3>3, <3>4, <3>5 DEF InOrder, Conflicts, NewSection
  <2> QED  BY <2>1, <2>2
<1>10. NoHalfProvisioned'
  <2>1. ASSUME NEW k \in silent' PROVE \E s \in Named(k)' : s.context # ContextOf[k]
    <3>1. CASE k \in silent
      <4>1. PICK s \in sections : s.course = CourseOf[k] /\ s.code = CodeOf[k] /\ s.context # ContextOf[k]
        BY <3>1 DEF ProvisioningInv, NoHalfProvisioned, Named
      <4> QED  BY <1>5, <4>1 DEF Named, SameName
    <3>2. CASE k \notin silent
      <4>1. k = l /\ SectionAnswered(d) = {} /\ ~delivery[d].defect
        BY <3>2 DEF CommitProvisioning
      <4>2. mine = {} /\ \A s \in sections : s.context # ContextOf[l]
        BY <1>4, <4>1 DEF SectionAnswered, IsRowOf
      <4>3. \E s \in sections : Conflicts(s, l)
        BY <1>1, <4>1, <4>2 DEF InOrder, At, IsThere, IsRowOf
      <4>4. PICK s \in sections : s.course = CourseOf[k] /\ s.code = CodeOf[k] /\ s.context # ContextOf[k]
        BY <4>1, <4>2, <4>3 DEF Conflicts
      <4> QED  BY <1>5, <4>4 DEF Named, SameName
    <3> QED  BY <3>1, <3>2
  <2>2. ASSUME NEW c \in courses'
        PROVE  (\E s \in sections' : s.course = c) \/ (\E k \in beaten' : CourseOf[k] = c)
    <3>1. CASE c \in courses
      <4>1. (\E s \in sections : s.course = c) \/ (\E k \in beaten : CourseOf[k] = c)
        BY <3>1 DEF ProvisioningInv, NoHalfProvisioned
      <4> QED  BY <1>2, <1>5, <4>1 DEF SameName
    <3>2. CASE c \notin courses
      <4>1. c \in delivery[d].course /\ c = CourseOf[l]
        BY <1>1, <1>2, <3>2 DEF InOrder
      <4>2. IsThere(l) \/ mine # {} \/ delivery[d].beaten
        BY <1>1, <4>1 DEF InOrder, At
      <4>3. IsThere(l) => \E s \in sections' : s.course = c
        BY <1>5, <4>1 DEF IsThere, IsRowOf, SameName
      <4>4. mine # {} => \E s \in sections' : s.course = c
        BY <1>2, <1>4, <4>1 DEF IsRowOf
      <4> QED  BY <1>2, <4>1, <4>2, <4>3, <4>4
    <3> QED  BY <3>1, <3>2
  <2> QED  BY <2>1, <2>2 DEF NoHalfProvisioned
<1> QED  BY <1>6, <1>7, <1>9, <1>10 DEF ProvisioningInv

LEMMA ProvisioningStep == ProvisioningInv /\ [DoorNext]_doorVars => ProvisioningInv'
<1> SUFFICES ASSUME ProvisioningInv, [DoorNext]_doorVars PROVE ProvisioningInv'
  OBVIOUS
<1> USE DEF provisioned
<1>0. DoorTypeOK /\ DoorTypeOK' /\ Idle \in DeliveryStates /\ Idle.step \notin Provisioning
  BY DoorTypes, IdleIsAState DEF ProvisioningInv, Provisioning
<1>1. ASSUME NEW d \in Deliveries, NEW l \in Launches, LookUp(d, l) PROVE ProvisioningInv'
  <2>1. PICK s \in DeliveryStates : s.step \in {"idle", "verifying"} /\ DeliveryGoes(d, s)
    BY <1>0, <1>1, DoorStepStates
  <2> QED  BY <1>0, <1>1, <2>1, NotProvisioning DEF LookUp, RefuseLaunch, Provisioning
<1>2. ASSUME NEW d \in Deliveries, FailVerification(d) \/ LoseDelivery(d) PROVE ProvisioningInv'
  BY <1>0, <1>2, NotProvisioning DEF FailVerification, LoseDelivery, RefuseLaunch, DeliveryGoes
<1>3. ASSUME NEW d \in Deliveries, ClaimNonce(d) PROVE ProvisioningInv'
  <2>1. PICK s \in DeliveryStates : s.step \in {"idle", "claimed"} /\ DeliveryGoes(d, s)
    BY <1>0, <1>3, DoorStepStates
  <2> QED  BY <1>0, <1>3, <2>1, NotProvisioning DEF ClaimNonce, RefuseLaunch, Provisioning
<1>4. ASSUME NEW d \in Deliveries, AdmitLaunch(d) PROVE ProvisioningInv'
  <2>1. PICK s \in DeliveryStates : s.step = "admitted" /\ DeliveryGoes(d, s)
    BY <1>0, <1>4, DoorStepStates
  <2> QED  BY <1>0, <1>4, <2>1, NotProvisioning DEF AdmitLaunch, Provisioning
<1>5. ASSUME NEW d \in Deliveries,
             ResolveContext(d) \/ UpsertCourse(d) \/ UpsertSection(d) \/ CommitProvisioning(d)
      PROVE  ProvisioningInv'
  BY <1>0, <1>5, ResolveKeeps, CourseKeeps, SectionKeeps, CommitKeeps
<1>6. ASSUME UNCHANGED <<delivery, courses, sections, silent, beaten>> PROVE ProvisioningInv'
  BY <1>0, <1>6 DEF ProvisioningInv, RowsApart, HeldApart, HeldRows, Provisions, InOrder, Carries, At,
                    Fits, IsThere, NoHalfProvisioned, Named
<1>7. ASSUME NEW l \in Launches, Login(l) PROVE ProvisioningInv'
  BY <1>6, <1>7 DEF Login
<1>8. CASE PurgeLaunches \/ PassTime \/ UNCHANGED doorVars
  BY <1>6, <1>8 DEF PurgeLaunches, PassTime, doorVars
<1> QED  BY <1>1, <1>2, <1>3, <1>4, <1>5, <1>7, <1>8 DEF DoorNext

(* No staff launch ends with neither a section nor a defect unless another *)
(* launch took its section's name, and no course is left without a section *)
(* but for that same reason: for any launches, contexts and labels.        *)
THEOREM ProvisioningIsWhole == DoorSpec => []NoHalfProvisioned
<1>1. ProvisioningInv => NoHalfProvisioned
  BY DEF ProvisioningInv
<1> QED  BY <1>1, ProvisioningInit, ProvisioningStep, PTL DEF DoorSpec

=============================================================================
