------------------------- MODULE InteractionsProofs -------------------------
(***************************************************************************)
(* What holds for any number of asks, records and clients of Interactions. *)
(*                                                                         *)
(* The inductive invariant says of every open ask that its controller is   *)
(* aborted, or that it belongs to the published record of an open leader   *)
(* whose mode is sound.  The checks of live() then add nothing for an ask  *)
(* whose controller is not aborted, except for the readiness of the record;*)
(* and nothing that an event withdrew can be admitted again.               *)
(***************************************************************************)
EXTENDS Interactions, TLAPS

Ownership ==
    /\ owner # None => ClientOf[owner] \in connected
    /\ yolo => owner # None /\ access = "full"
    /\ revoked \subseteq aborted
    /\ sent \cap aborted = {}
    /\ \A a \in Open \ aborted : asker[a] = owner /\ ~Closed /\ ~inconsistent

IInv == TypeOK /\ Ownership

----------------------------------------------------------------------------
\* An abort answers nothing and closes nothing: it takes the aborted asks from
\* the transport.
LEMMA AbortFacts ==
    ASSUME TypeOK, NEW S \in SUBSET Open, Abort(S)
    PROVE  /\ aborted' = aborted \cup S
           /\ sent' = sent \ S
           /\ at' \in [Asks -> Stages]
           /\ \A a \in Asks : at'[a] = IF a \in S \cap sent THEN "settled" ELSE at[a]
           /\ Open' = Open
           /\ sent' = {a \in Asks : at'[a] = "waiting"}
  <1>1. \A a \in Asks : at'[a] = IF a \in S \cap sent THEN "settled" ELSE at[a]
    BY DEF Abort
  <1>2. \A a \in sent : at[a] = "waiting" /\ a \in Asks
    BY DEF TypeOK
  <1>3. aborted' = aborted \cup S /\ sent' = sent \ S
    BY DEF Abort
  <1>4. at' \in [Asks -> Stages]
    BY DEF Abort, TypeOK, Stages
  <1>5. Open' = Open
    BY <1>1, <1>2 DEF Open
  <1>6. sent' = {a \in Asks : at'[a] = "waiting"}
    BY <1>1, <1>2, <1>3 DEF TypeOK
  <1> QED BY <1>1, <1>3, <1>4, <1>5, <1>6

\* An ask that ends leaves everything that is kept for open asks.
LEMMA FinishFacts ==
    ASSUME TypeOK, NEW a \in Asks, NEW how \in Results, Finish(a, how)
    PROVE  /\ at' \in [Asks -> Stages] /\ at'[a] = "done"
           /\ \A b \in Asks \ {a} : at'[b] = at[b]
           /\ result' \in [Asks -> Results \cup {None}]
           /\ \A b \in Asks \ {a} : result'[b] = result[b]
           /\ result'[a] = how
           /\ asker' \in [Asks -> Records \cup {None}]
           /\ asker'[a] = None
           /\ \A b \in Asks \ {a} : asker'[b] = asker[b]
           /\ reply' \in [Asks -> Answers \cup {None}]
           /\ reply'[a] = None
           /\ \A b \in Asks \ {a} : reply'[b] = reply[b]
           /\ aborted' = aborted \ {a} /\ revoked' = revoked \ {a}
           /\ Open' = Open \ {a}
  <1>1. /\ at' = [at EXCEPT ![a] = "done"]
        /\ result' = [result EXCEPT ![a] = how]
        /\ asker' = [asker EXCEPT ![a] = None]
        /\ reply' = [reply EXCEPT ![a] = None]
        /\ aborted' = aborted \ {a} /\ revoked' = revoked \ {a}
    BY DEF Finish, Goto
  <1>2. /\ at \in [Asks -> Stages]
        /\ result \in [Asks -> Results \cup {None}]
        /\ asker \in [Asks -> Records \cup {None}]
        /\ reply \in [Asks -> Answers \cup {None}]
    BY DEF TypeOK
  <1>3. at' \in [Asks -> Stages] /\ at'[a] = "done" /\ \A b \in Asks \ {a} : at'[b] = at[b]
    BY <1>1, <1>2 DEF Stages
  <1>4. /\ result' \in [Asks -> Results \cup {None}]
        /\ \A b \in Asks \ {a} : result'[b] = result[b]
        /\ result'[a] = how
    BY <1>1, <1>2
  <1>5. /\ asker' \in [Asks -> Records \cup {None}]
        /\ asker'[a] = None
        /\ \A b \in Asks \ {a} : asker'[b] = asker[b]
    BY <1>1, <1>2
  <1>6. /\ reply' \in [Asks -> Answers \cup {None}]
        /\ reply'[a] = None
        /\ \A b \in Asks \ {a} : reply'[b] = reply[b]
    BY <1>1, <1>2
  <1>7. Open' = Open \ {a}
    BY <1>3 DEF Open
  <1> QED BY <1>1, <1>3, <1>4, <1>5, <1>6, <1>7

----------------------------------------------------------------------------
\* The two halves of the type invariant: the session, and its asks.

SessionTypes ==
    /\ owner \in Records \cup {None}
    /\ opened \subseteq Records
    /\ owner # None => owner \in opened
    /\ reloading \in BOOLEAN /\ busy \in BOOLEAN
    /\ connected \subseteq Clients
    /\ yolo \in BOOLEAN /\ inconsistent \in BOOLEAN
    /\ access \in {"workspace", "full"}
    /\ disposal \in {"none", "draining", "done"}

AskTypes ==
    /\ at \in [Asks -> Stages]
    /\ result \in [Asks -> Results \cup {None}]
    /\ asker \in [Asks -> Records \cup {None}]
    /\ reply \in [Asks -> Answers \cup {None}]
    /\ \A a \in Asks : asker[a] # None <=> a \in Open
    /\ \A a \in Asks : reply[a] # None => at[a] = "settled"
    /\ aborted \subseteq Open /\ revoked \subseteq Open
    /\ sent = {a \in Asks : at[a] = "waiting"}

LEMMA TypeHalves == TypeOK <=> SessionTypes /\ AskTypes
  BY DEF TypeOK, SessionTypes, AskTypes

\* Open asks that are not aborted.
Admissible == Open \ aborted

\* What Ownership says of the asks alone, and what it says of the session.
Bookkept == AskTypes /\ revoked \subseteq aborted /\ sent \cap aborted = {}

SessionSound ==
    /\ SessionTypes
    /\ owner # None => ClientOf[owner] \in connected
    /\ yolo => owner # None /\ access = "full"

AsksOfOwner == \A a \in Admissible : asker[a] = owner /\ ~Closed /\ ~inconsistent

LEMMA Parts == IInv <=> Bookkept /\ SessionSound /\ AsksOfOwner
  BY TypeHalves DEF IInv, Ownership, Bookkept, SessionSound, AsksOfOwner, Admissible

LEMMA PartsNext == IInv' <=> Bookkept' /\ SessionSound' /\ AsksOfOwner'
  <1>1. TypeOK' <=> SessionTypes' /\ AskTypes'
    BY DEF TypeOK, SessionTypes, AskTypes
  <1> QED BY <1>1 DEF IInv, Ownership, Bookkept, SessionSound, AsksOfOwner, Admissible

\* An abort of S keeps the books, and leaves what is admissible outside S.
LEMMA AbortPreserves ==
    ASSUME IInv, NEW S \in SUBSET Open, Abort(S),
           UNCHANGED <<result, asker, reply>>,
           revoked' \subseteq revoked \cup S
    PROVE  Bookkept' /\ Admissible' = Admissible \ S
  <1>1. /\ aborted' = aborted \cup S /\ sent' = sent \ S
        /\ at' \in [Asks -> Stages]
        /\ \A a \in Asks : at'[a] = IF a \in S \cap sent THEN "settled" ELSE at[a]
        /\ Open' = Open
        /\ sent' = {a \in Asks : at'[a] = "waiting"}
    BY AbortFacts DEF IInv
  <1>2. /\ AskTypes /\ revoked \subseteq aborted /\ sent \cap aborted = {}
    BY Parts DEF Bookkept
  <1>3. \A a \in Asks : reply'[a] # None => at'[a] = "settled"
    BY <1>1, <1>2 DEF AskTypes
  <1>4. aborted' \subseteq Open' /\ revoked' \subseteq Open' /\ revoked' \subseteq aborted'
    BY <1>1, <1>2 DEF AskTypes
  <1>5. AskTypes'
    BY <1>1, <1>2, <1>3, <1>4 DEF AskTypes
  <1>6. sent' \cap aborted' = {}
    BY <1>1, <1>2
  <1> QED BY <1>1, <1>4, <1>5, <1>6 DEF Bookkept, Admissible

\* A cancellation for a record leaves none of its asks admissible.
LEMMA CancelPreserves ==
    ASSUME IInv, NEW r \in Records, CancelAsks(ClientOf[r]), Revoke(r),
           UNCHANGED <<result, asker, reply>>
    PROVE  /\ Bookkept'
           /\ Admissible' \subseteq Admissible
           /\ \A a \in Admissible' : asker[a] # r
           /\ r = owner => Admissible' = {}
  <1> DEFINE S == {a \in Open : asker[a] \in RecordsOf(ClientOf[r])}
  <1>1. Abort(S) /\ S \in SUBSET Open
    BY DEF CancelAsks
  <1>2. {a \in Open : asker[a] = r} \subseteq S
    BY InteractionsAssumption DEF RecordsOf
  <1>3. revoked' \subseteq revoked \cup S
    BY <1>2 DEF Revoke
  <1>4. Bookkept' /\ Admissible' = Admissible \ S
    <2> HIDE DEF S
    <2> QED BY <1>1, <1>3, AbortPreserves
  <1>5. \A a \in Admissible' : a \in Admissible /\ asker[a] # r
    BY <1>2, <1>4 DEF Admissible
  <1>6. \A a \in Admissible : asker[a] = owner
    BY Parts DEF AsksOfOwner
  <1> QED BY <1>4, <1>5, <1>6

\* The end of an ask keeps the books of the others.
LEMMA FinishPreserves ==
    ASSUME IInv, NEW a \in Asks, NEW how \in Results, Finish(a, how),
           at[a] # "waiting", UNCHANGED sent
    PROVE  /\ Bookkept'
           /\ Admissible' = Admissible \ {a}
           /\ \A b \in Admissible' : asker'[b] = asker[b]
  <1>1. TypeOK /\ AskTypes /\ revoked \subseteq aborted /\ sent \cap aborted = {}
    BY Parts DEF Bookkept, IInv
  <1>2. /\ at' \in [Asks -> Stages] /\ at'[a] = "done"
        /\ \A b \in Asks \ {a} : at'[b] = at[b]
        /\ result' \in [Asks -> Results \cup {None}]
        /\ asker' \in [Asks -> Records \cup {None}]
        /\ asker'[a] = None
        /\ \A b \in Asks \ {a} : asker'[b] = asker[b]
        /\ reply' \in [Asks -> Answers \cup {None}]
        /\ reply'[a] = None
        /\ \A b \in Asks \ {a} : reply'[b] = reply[b]
        /\ aborted' = aborted \ {a} /\ revoked' = revoked \ {a}
        /\ Open' = Open \ {a}
    BY <1>1, FinishFacts
  <1>3. Admissible' = Admissible \ {a}
    BY <1>2 DEF Admissible
  <1>4. Admissible' \subseteq Asks \ {a}
    BY <1>3 DEF Admissible, Open
  <1>5. \A b \in Asks : asker'[b] # None <=> b \in Open'
    BY <1>1, <1>2 DEF AskTypes
  <1>6. \A b \in Asks : reply'[b] # None => at'[b] = "settled"
    BY <1>1, <1>2 DEF AskTypes
  <1>7. sent' = {b \in Asks : at'[b] = "waiting"}
    BY <1>1, <1>2 DEF AskTypes
  <1>8. AskTypes'
    BY <1>1, <1>2, <1>5, <1>6, <1>7 DEF AskTypes
  <1>9. revoked' \subseteq aborted' /\ sent' \cap aborted' = {}
    BY <1>1, <1>2
  <1> QED BY <1>2, <1>3, <1>4, <1>8, <1>9 DEF Bookkept

----------------------------------------------------------------------------
\* The invariant is preserved.

LEMMA DecisionIsResult ==
    ASSUME TypeOK, NEW a \in Asks
    PROVE  Decision(a) \in Results
  <1>1. reply[a] \in {"yes", "no", None}
    BY DEF TypeOK, Answers
  <1>2. CASE reply[a] = None
    <2>1. reply[a] # "yes" /\ reply[a] # "no"
      BY <1>2, InteractionsAssumption DEF Answers
    <2> QED BY <1>2, <2>1 DEF Decision, Results, Decisions
  <1>3. CASE reply[a] = "yes"
    <2>1. reply[a] # None
      BY <1>3, InteractionsAssumption DEF Answers
    <2> QED BY <1>3, <2>1 DEF Decision, Results, Decisions
  <1>4. CASE reply[a] = "no"
    <2>1. reply[a] # None
      BY <1>4, InteractionsAssumption DEF Answers
    <2> QED BY <1>4, <2>1 DEF Decision, Results, Decisions
  <1> QED BY <1>1, <1>2, <1>3, <1>4

\* A step that leaves the session alone keeps what is sound about it.
LEMMA SessionUnchanged ==
    ASSUME IInv, UNCHANGED <<session, permission, disposal>>
    PROVE  SessionSound' /\ Closed' = Closed
  BY Parts DEF SessionSound, SessionTypes, session, permission, Closed

\* The end of an ask, while nothing else changes.
LEMMA EndPreserves ==
    ASSUME IInv, NEW a \in Asks, NEW how \in Results, Finish(a, how),
           at[a] # "waiting", UNCHANGED <<session, permission, sent, disposal>>
    PROVE  IInv'
  <1>1. /\ Bookkept'
        /\ Admissible' = Admissible \ {a}
        /\ \A b \in Admissible' : asker'[b] = asker[b]
    BY FinishPreserves
  <1>2. SessionSound' /\ Closed' = Closed /\ UNCHANGED <<owner, inconsistent>>
    BY SessionUnchanged DEF session, permission
  <1>3. AsksOfOwner'
    <2>1. \A b \in Admissible : asker[b] = owner /\ ~Closed /\ ~inconsistent
      BY Parts DEF AsksOfOwner
    <2>2. \A b \in Admissible' : asker'[b] = owner' /\ ~Closed' /\ ~inconsistent'
      BY <1>1, <1>2, <2>1
    <2> QED BY <2>2 DEF AsksOfOwner
  <1> QED BY <1>1, <1>2, <1>3, PartsNext

LEMMA AskPreserves ==
    ASSUME IInv, NEW a \in Asks, AskStep(a)
    PROVE  IInv'
  <1> USE DEF IInv
  <1>0. /\ TypeOK /\ Bookkept /\ SessionSound /\ AsksOfOwner
        /\ AskTypes /\ revoked \subseteq aborted /\ sent \cap aborted = {}
    BY Parts DEF Bookkept
  <1>1. ASSUME NEW r \in Records, Refuse(a, r) PROVE IInv'
    <2>1. (IF Closed THEN "cancelled" ELSE "next") \in Results
      BY DEF Results
    <2>2. at[a] # "waiting"
      BY <1>1 DEF Refuse
    <2> QED BY <1>1, <2>1, <2>2, EndPreserves DEF Refuse
  <1>2. ASSUME NEW r \in Records, Accept(a, r) PROVE IInv'
    <2>1. /\ at[a] = "new" /\ owner = r /\ ~Closed
          /\ at' = [at EXCEPT ![a] = "accepted"]
          /\ asker' = [asker EXCEPT ![a] = r]
          /\ aborted' = IF Live(r) THEN aborted ELSE aborted \cup {a}
          /\ UNCHANGED <<session, permission, result, sent, reply, disposal, revoked>>
      BY <1>2 DEF Accept, Goto
    <2>2. /\ at' \in [Asks -> Stages] /\ asker' \in [Asks -> Records \cup {None}]
          /\ at'[a] = "accepted" /\ asker'[a] = r
          /\ \A b \in Asks \ {a} : at'[b] = at[b] /\ asker'[b] = asker[b]
      BY <1>0, <2>1 DEF AskTypes, Stages
    <2>3. Open' = Open \cup {a} /\ a \notin Open
      BY <2>1, <2>2 DEF Open
    <2>4. AskTypes'
      <3>1. \A b \in Asks : asker'[b] # None <=> b \in Open'
        BY <1>0, <2>2, <2>3, InteractionsAssumption DEF AskTypes
      <3>2. \A b \in Asks : reply'[b] # None => at'[b] = "settled"
        BY <1>0, <2>1, <2>2 DEF AskTypes
      <3>3. sent' = {b \in Asks : at'[b] = "waiting"}
        BY <1>0, <2>1, <2>2 DEF AskTypes
      <3>4. aborted' \subseteq Open' /\ revoked' \subseteq Open'
        BY <1>0, <2>1, <2>3 DEF AskTypes
      <3> QED BY <1>0, <2>1, <2>2, <3>1, <3>2, <3>3, <3>4 DEF AskTypes
    <2>5. revoked' \subseteq aborted' /\ sent' \cap aborted' = {}
      <3>1. a \notin sent
        BY <1>0, <2>1 DEF AskTypes
      <3> QED BY <1>0, <2>1, <3>1
    <2>6. SessionSound' /\ Closed' = Closed /\ UNCHANGED <<owner, inconsistent>>
      BY <2>1, SessionUnchanged DEF session, permission
    <2>7. AsksOfOwner'
      <3>1. ASSUME NEW b \in Admissible', b # a
            PROVE  asker'[b] = owner' /\ ~Closed' /\ ~inconsistent'
        <4>1. b \in Admissible /\ b \in Asks
          BY <2>1, <2>3, <3>1 DEF Admissible, Open
        <4> QED BY <1>0, <2>2, <2>6, <3>1, <4>1 DEF AsksOfOwner
      <3>2. ASSUME a \in Admissible'
            PROVE  asker'[a] = owner' /\ ~Closed' /\ ~inconsistent'
        <4>1. Live(r)
          BY <2>1, <3>2 DEF Admissible
        <4> QED BY <2>1, <2>2, <2>6, <4>1 DEF Live
      <3> QED BY <3>1, <3>2 DEF AsksOfOwner
    <2> QED BY <2>4, <2>5, <2>6, <2>7, PartsNext DEF Bookkept
  <1>3. CASE Run(a)
    <2>1. at[a] = "accepted" /\ UNCHANGED <<session, permission, disposal>>
      BY <1>3 DEF Run
    <2>2. CASE Finish(a, IF Admitted(a) THEN "allowed" ELSE "cancelled") /\ UNCHANGED sent
      <3>1. (IF Admitted(a) THEN "allowed" ELSE "cancelled") \in Results
        BY DEF Results, Decisions
      <3> QED BY <2>1, <2>2, <3>1, EndPreserves
    <2>3. CASE /\ Admitted(a) /\ Goto(a, "waiting") /\ sent' = sent \cup {a}
               /\ UNCHANGED <<result, asker, reply, aborted, revoked>>
      <3>1. /\ at' \in [Asks -> Stages] /\ at'[a] = "waiting"
            /\ \A b \in Asks \ {a} : at'[b] = at[b]
        BY <1>0, <2>3 DEF AskTypes, Stages, Goto
      <3>2. Open' = Open
        BY <2>1, <3>1 DEF Open
      <3>3. a \notin aborted
        BY <2>3 DEF Admitted
      <3>4. \A b \in Asks : reply'[b] # None => at'[b] = "settled"
        BY <1>0, <2>1, <2>3, <3>1 DEF AskTypes
      <3>5. sent' = {b \in Asks : at'[b] = "waiting"}
        BY <1>0, <2>3, <3>1 DEF AskTypes
      <3>6. AskTypes'
        BY <1>0, <2>3, <3>1, <3>2, <3>4, <3>5 DEF AskTypes
      <3>7. revoked' \subseteq aborted' /\ sent' \cap aborted' = {}
        BY <1>0, <2>3, <3>3
      <3>8. SessionSound' /\ Closed' = Closed /\ UNCHANGED <<owner, inconsistent>>
        BY <2>1, SessionUnchanged DEF session, permission
      <3>9. AsksOfOwner'
        BY <1>0, <2>3, <3>2, <3>8 DEF AsksOfOwner, Admissible
      <3> QED BY <3>6, <3>7, <3>8, <3>9, PartsNext DEF Bookkept
    <2> QED BY <1>3, <2>2, <2>3 DEF Run
  <1>4. ASSUME a \in sent, sent' = sent \ {a}, Goto(a, "settled"),
               reply' \in [Asks -> Answers \cup {None}],
               \A b \in Asks \ {a} : reply'[b] = reply[b],
               UNCHANGED <<session, permission, result, asker, aborted, disposal, revoked>>
        PROVE  IInv'
    <2>1. /\ at' \in [Asks -> Stages] /\ at'[a] = "settled"
          /\ \A b \in Asks \ {a} : at'[b] = at[b]
      BY <1>0, <1>4 DEF AskTypes, Stages, Goto
    <2>2. Open' = Open
      BY <1>0, <1>4, <2>1 DEF Open, AskTypes
    <2>3. \A b \in Asks : reply'[b] # None => at'[b] = "settled"
      BY <1>0, <1>4, <2>1 DEF AskTypes
    <2>4. sent' = {b \in Asks : at'[b] = "waiting"}
      BY <1>0, <1>4, <2>1 DEF AskTypes
    <2>5. AskTypes' /\ revoked' \subseteq aborted' /\ sent' \cap aborted' = {}
      BY <1>0, <1>4, <2>1, <2>2, <2>3, <2>4 DEF AskTypes
    <2>6. SessionSound' /\ Closed' = Closed /\ UNCHANGED <<owner, inconsistent>>
      BY <1>4, SessionUnchanged DEF session, permission
    <2>7. AsksOfOwner'
      BY <1>0, <1>4, <2>2, <2>6 DEF AsksOfOwner, Admissible
    <2> QED BY <2>5, <2>6, <2>7, PartsNext DEF Bookkept
  <1>5. ASSUME NEW answer \in Answers, Reply(a, answer) PROVE IInv'
    BY <1>0, <1>4, <1>5 DEF Reply, AskTypes
  <1>6. CASE ReplyError(a)
    BY <1>0, <1>4, <1>6 DEF ReplyError, AskTypes
  <1>7. CASE Continue(a)
    <2>1. (IF Admitted(a) THEN Decision(a) ELSE "cancelled") \in Results
      BY <1>0, DecisionIsResult DEF Results
    <2>2. at[a] # "waiting"
      BY <1>7 DEF Continue
    <2> QED BY <1>7, <2>1, <2>2, EndPreserves DEF Continue
  <1>8. CASE NativeAbort(a)
    <2>1. /\ {a} \in SUBSET Open /\ Abort({a}) /\ revoked' = revoked \cup {a}
          /\ UNCHANGED <<session, permission, result, asker, reply, disposal>>
      BY <1>8 DEF NativeAbort
    <2>2. Bookkept' /\ Admissible' = Admissible \ {a}
      BY <2>1, AbortPreserves
    <2>3. SessionSound' /\ Closed' = Closed /\ UNCHANGED <<owner, inconsistent>>
      BY <2>1, SessionUnchanged DEF session, permission
    <2>4. AsksOfOwner'
      BY <1>0, <2>1, <2>2, <2>3 DEF AsksOfOwner
    <2> QED BY <2>2, <2>3, <2>4, PartsNext
  <1> QED BY <1>1, <1>2, <1>3, <1>5, <1>6, <1>7, <1>8 DEF AskStep

\* A step of the session that leaves the asks alone.
LEMMA AsksUnchanged ==
    ASSUME IInv, UNCHANGED <<asks, revoked>>
    PROVE  /\ Bookkept'
           /\ Admissible' = Admissible
           /\ \A a \in Admissible' : asker'[a] = asker[a]
  <1>1. /\ AskTypes /\ revoked \subseteq aborted /\ sent \cap aborted = {}
        /\ UNCHANGED <<at, result, asker, aborted, sent, reply, revoked>>
    BY Parts DEF Bookkept, asks
  <1>2. Open' = Open
    BY <1>1 DEF Open
  <1>3. AskTypes'
    BY <1>1, <1>2 DEF AskTypes
  <1> QED BY <1>1, <1>2, <1>3 DEF Bookkept, Admissible

\* A withdrawal or a failed change of the owner's mode leaves it no ask to admit.
LEMMA OwnerCancelled ==
    ASSUME IInv, owner # None, CancelAsks(ClientOf[owner]), Revoke(owner),
           UNCHANGED <<result, asker, reply>>
    PROVE  Bookkept' /\ AsksOfOwner'
  <1>1. owner \in Records
    BY Parts DEF SessionSound, SessionTypes
  <1>2. Bookkept' /\ Admissible' = {}
    BY <1>1, CancelPreserves
  <1> QED BY <1>2 DEF AsksOfOwner

LEMMA SessionPreserves ==
    ASSUME IInv, SessionStep
    PROVE  IInv'
  <1>0. /\ Bookkept /\ SessionSound /\ AsksOfOwner /\ SessionTypes
        /\ owner # None => ClientOf[owner] \in connected
        /\ yolo => owner # None /\ access = "full"
    BY Parts DEF SessionSound
  <1>1. CASE SessionCancel
    <2>1. Bookkept' /\ AsksOfOwner'
      BY <1>1, OwnerCancelled DEF SessionCancel
    <2>2. SessionSound'
      BY <1>1, SessionUnchanged DEF SessionCancel
    <2> QED BY <2>1, <2>2, PartsNext
  <1>2. CASE Reload
    <2>1. Bookkept' /\ AsksOfOwner'
      BY <1>2, OwnerCancelled DEF Reload
    <2>2. SessionSound'
      BY <1>0, <1>2 DEF Reload, SessionSound, SessionTypes, permission
    <2> QED BY <2>1, <2>2, PartsNext
  <1>3. CASE ReloadFails \/ BusyEnds \/ PresetChanges
    <2>1. /\ UNCHANGED <<owner, opened, connected, permission, asks, disposal, revoked>>
          /\ reloading' \in BOOLEAN /\ busy' \in BOOLEAN
      BY <1>0, <1>3 DEF ReloadFails, BusyEnds, PresetChanges, SessionTypes
    <2>2. /\ Bookkept' /\ Admissible' = Admissible
          /\ \A a \in Admissible' : asker'[a] = asker[a]
      BY <2>1, AsksUnchanged
    <2>3. SessionSound'
      BY <1>0, <2>1 DEF SessionSound, SessionTypes, permission
    <2>4. AsksOfOwner'
      BY <1>0, <2>1, <2>2 DEF AsksOfOwner, permission, Closed
    <2> QED BY <2>2, <2>3, <2>4, PartsNext
  <1>4. CASE Retire
    <2>1. Bookkept' /\ AsksOfOwner'
      BY <1>4, OwnerCancelled DEF Retire
    <2>2. SessionSound'
      BY <1>0, <1>4 DEF Retire, Withdraw, SessionSound, SessionTypes
    <2> QED BY <2>1, <2>2, PartsNext
  <1>5. CASE SetModeFails
    <2>1. owner # None /\ FailedMutation /\ UNCHANGED <<session, access>>
      BY <1>5 DEF SetModeFails, Changeable
    <2>2. Bookkept' /\ AsksOfOwner'
      BY <2>1, OwnerCancelled DEF FailedMutation
    <2>3. SessionSound'
      BY <1>0, <2>1 DEF FailedMutation, SessionSound, SessionTypes, session
    <2> QED BY <2>2, <2>3, PartsNext
  <1>6. ASSUME NEW c \in Clients, Disconnect(c) PROVE IInv'
    <2>1. connected' = connected \ {c} /\ UNCHANGED <<opened, access, result, asker, reply, disposal>>
      BY <1>6 DEF Disconnect
    <2>2. CASE /\ owner \in RecordsOf(c) /\ Withdraw
               /\ CancelAsks(c) /\ Revoke(owner)
      <3>1. owner \in Records /\ ClientOf[owner] = c /\ owner # None
        BY <2>2, InteractionsAssumption DEF RecordsOf
      <3>2. Bookkept' /\ AsksOfOwner'
        BY <2>1, <2>2, <3>1, OwnerCancelled
      <3>3. SessionSound'
        BY <1>0, <2>1, <2>2 DEF Withdraw, SessionSound, SessionTypes
      <3> QED BY <3>2, <3>3, PartsNext
    <2>3. CASE /\ owner \notin RecordsOf(c)
               /\ LET S == {a \in sent : asker[a] \in RecordsOf(c)} IN
                  /\ sent' = sent \ S
                  /\ at' = [a \in Asks |-> IF a \in S THEN "settled" ELSE at[a]]
               /\ UNCHANGED <<owner, reloading, busy, yolo, inconsistent, aborted, revoked>>
      <3>1. \A a \in sent : a \in Admissible
        BY <1>0 DEF Bookkept, AskTypes, Admissible, Open
      <3>2. {a \in sent : asker[a] \in RecordsOf(c)} = {}
        BY <1>0, <2>3, <3>1 DEF AsksOfOwner
      <3>3. sent' = sent /\ at' = at
        BY <1>0, <2>3, <3>2 DEF Bookkept, AskTypes
      <3>4. UNCHANGED <<asks, revoked>>
        BY <2>1, <2>3, <3>3 DEF asks
      <3>5. /\ Bookkept' /\ Admissible' = Admissible
            /\ \A a \in Admissible' : asker'[a] = asker[a]
        BY <3>4, AsksUnchanged
      <3>6. owner # None => ClientOf[owner] # c
        BY <1>0, <2>3 DEF RecordsOf, SessionTypes
      <3>7. SessionSound'
        BY <1>0, <2>1, <2>3, <3>6 DEF SessionSound, SessionTypes
      <3>8. AsksOfOwner'
        BY <1>0, <2>1, <2>3, <3>5 DEF AsksOfOwner, Closed
      <3> QED BY <3>5, <3>7, <3>8, PartsNext
    <2> QED BY <1>6, <2>2, <2>3 DEF Disconnect
  <1>7. ASSUME NEW rec \in Records, Publish(rec) PROVE IInv'
    <2>1. /\ owner = None /\ opened' = opened \cup {rec} /\ owner' = rec /\ busy' = TRUE
          /\ ClientOf[rec] \in connected
          /\ UNCHANGED <<inconsistent, reloading, connected, asks, disposal, revoked>>
      BY <1>7 DEF Publish
    <2>2. /\ Bookkept' /\ Admissible' = Admissible
      BY <2>1, AsksUnchanged
    <2>3. Admissible = {}
      <3>1. \A a \in Admissible : asker[a] = None
        BY <1>0, <2>1 DEF AsksOfOwner
      <3>2. \A a \in Admissible : a \in Asks /\ asker[a] # None
        BY <1>0 DEF Bookkept, AskTypes, Admissible, Open
      <3> QED BY <3>1, <3>2
    <2>4. yolo' \in BOOLEAN /\ access' \in {"workspace", "full"} /\ (yolo' => access' = "full")
      <3>1. CASE UNCHANGED <<yolo, access>>
        BY <1>0, <3>1 DEF SessionTypes
      <3>2. ASSUME NEW full \in BOOLEAN, ApplyMode(full)
            PROVE  /\ yolo' \in BOOLEAN /\ access' \in {"workspace", "full"}
                   /\ yolo' => access' = "full"
        BY <3>2 DEF ApplyMode, Access
      <3> QED BY <1>7, <3>1, <3>2 DEF Publish
    <2>5. rec # None
      BY InteractionsAssumption
    <2>6. SessionSound'
      BY <1>0, <2>1, <2>4, <2>5 DEF SessionSound, SessionTypes
    <2> QED BY <2>2, <2>3, <2>6, PartsNext DEF AsksOfOwner
  <1>8. ASSUME NEW rec \in Records, Discard(rec) PROVE IInv'
    <2>1. /\ owner = None /\ opened' = opened \cup {rec}
          /\ UNCHANGED <<owner, reloading, busy, connected, yolo, inconsistent,
                         result, asker, reply, disposal>>
      BY <1>8 DEF Discard
    <2>2. PICK full \in BOOLEAN :
            \/ access' = Access(full) /\ UNCHANGED <<at, aborted, sent, revoked>>
            \/ ModeThrows(full) /\ CancelAsks(ClientOf[rec]) /\ Revoke(rec)
      BY <1>8 DEF Discard
    <2>3. access' \in {"workspace", "full"}
      BY <1>0, <2>2 DEF Access, ModeThrows, SessionTypes
    <2>4. SessionSound'
      BY <1>0, <2>1, <2>3 DEF SessionSound, SessionTypes
    <2>5. Bookkept' /\ Admissible' \subseteq Admissible
      <3>1. CASE UNCHANGED <<at, aborted, sent, revoked>>
        <4>1. UNCHANGED <<asks, revoked>>
          BY <2>1, <3>1 DEF asks
        <4> QED BY <4>1, AsksUnchanged
      <3>2. CASE CancelAsks(ClientOf[rec]) /\ Revoke(rec)
        BY <2>1, <3>2, CancelPreserves
      <3> QED BY <2>2, <3>1, <3>2
    <2>6. AsksOfOwner'
      BY <1>0, <2>1, <2>5 DEF AsksOfOwner, Closed
    <2> QED BY <2>4, <2>5, <2>6, PartsNext
  <1>9. ASSUME NEW full \in BOOLEAN, ModeNotified(full) PROVE IInv'
    <2>1. owner # None /\ UNCHANGED session
      BY <1>9 DEF ModeNotified, Changeable
    <2>2. CASE ApplyMode(full) /\ UNCHANGED <<inconsistent, asks, disposal, revoked>>
      <3>1. /\ Bookkept' /\ Admissible' = Admissible
            /\ \A a \in Admissible' : asker'[a] = asker[a]
        BY <2>2, AsksUnchanged
      <3>2. SessionSound'
        BY <1>0, <2>1, <2>2 DEF SessionSound, SessionTypes, session, ApplyMode, Access
      <3>3. AsksOfOwner'
        BY <1>0, <2>1, <2>2, <3>1 DEF AsksOfOwner, session, Closed
      <3> QED BY <3>1, <3>2, <3>3, PartsNext
    <2>3. CASE ModeThrows(full) /\ FailedMutation
      <3>1. Bookkept' /\ AsksOfOwner'
        BY <2>1, <2>3, OwnerCancelled DEF FailedMutation
      <3>2. access' \in {"workspace", "full"}
        BY <1>0, <2>3 DEF Access, ModeThrows, SessionTypes
      <3>3. SessionSound'
        BY <1>0, <2>1, <2>3, <3>2 DEF FailedMutation, SessionSound, SessionTypes, session
      <3> QED BY <3>1, <3>3, PartsNext
    <2> QED BY <1>9, <2>2, <2>3 DEF ModeNotified
  <1> QED BY <1>1, <1>2, <1>3, <1>4, <1>5, <1>6, <1>7, <1>8, <1>9 DEF SessionStep

LEMMA DisposePreserves ==
    ASSUME IInv, Dispose
    PROVE  IInv'
  <1>1. /\ Abort(Open) /\ revoked' = revoked \cup Open /\ disposal' = "draining"
        /\ UNCHANGED <<session, permission, result, asker, reply>>
    BY DEF Dispose
  <1>2. Bookkept' /\ Admissible' = {}
    BY <1>1, AbortPreserves DEF Admissible
  <1>3. SessionSound'
    BY <1>1, Parts DEF SessionSound, SessionTypes, session, permission
  <1> QED BY <1>2, <1>3, PartsNext DEF AsksOfOwner

LEMMA DisposalDonePreserves ==
    ASSUME IInv, DisposalDone
    PROVE  IInv'
  <1>1. Open = {} /\ disposal' = "done" /\ UNCHANGED <<session, permission, asks, revoked>>
    BY DEF DisposalDone
  <1>2. Bookkept' /\ Admissible' = {}
    BY <1>1, AsksUnchanged DEF Admissible
  <1>3. SessionSound'
    BY <1>1, Parts DEF SessionSound, SessionTypes, session, permission
  <1> QED BY <1>2, <1>3, PartsNext DEF AsksOfOwner

LEMMA InitInvariant == Init => IInv
  <1> SUFFICES ASSUME Init PROVE IInv
    OBVIOUS
  <1>1. Open = {} /\ Admissible = {}
    BY DEF Init, Open, Admissible
  <1>2. AskTypes
    BY <1>1 DEF Init, AskTypes, Stages
  <1>3. Bookkept
    BY <1>2 DEF Init, Bookkept
  <1>4. SessionSound /\ AsksOfOwner
    BY <1>1 DEF Init, SessionSound, SessionTypes, AsksOfOwner
  <1> QED BY <1>3, <1>4, Parts

LEMMA NextInvariant == IInv /\ [Next]_vars => IInv'
  <1> SUFFICES ASSUME IInv, [Next]_vars PROVE IInv'
    OBVIOUS
  <1>1. CASE \E a \in Asks : AskStep(a)
    BY <1>1, AskPreserves
  <1>2. CASE SessionStep
    BY <1>2, SessionPreserves
  <1>3. CASE Dispose
    BY <1>3, DisposePreserves
  <1>4. CASE DisposalDone
    BY <1>4, DisposalDonePreserves
  <1>5. CASE UNCHANGED vars
    <2>1. UNCHANGED <<session, permission, asks, disposal, revoked>>
      BY <1>5 DEF vars
    <2>2. SessionSound' /\ Closed' = Closed /\ UNCHANGED <<owner, inconsistent>>
      BY <2>1, SessionUnchanged DEF session, permission
    <2>3. /\ Bookkept' /\ Admissible' = Admissible
          /\ \A a \in Admissible' : asker'[a] = asker[a]
      BY <2>1, AsksUnchanged
    <2>4. AsksOfOwner'
      BY <2>2, <2>3, Parts DEF AsksOfOwner
    <2> QED BY <2>2, <2>3, <2>4, PartsNext
  <1> QED BY <1>1, <1>2, <1>3, <1>4, <1>5 DEF Next

\* The inductive invariant holds in every state that the leader can reach.
THEOREM Invariance == Spec => []IInv
  BY InitInvariant, NextInvariant, PTL DEF Spec

\* Type correctness for any number of asks, records and clients.
THEOREM TypeCorrect == Spec => []TypeOK
  <1>1. IInv => TypeOK
    BY DEF IInv
  <1> QED BY <1>1, Invariance, PTL

\* A client is only asked by a record that it owns and that may still act on
\* the answer: each event that withdraws the record also aborts the asks.
THEOREM NoStrayQuestion == Spec => []QuestionsBelong
  <1>1. ASSUME IInv PROVE QuestionsBelong
    <2>1. Bookkept /\ SessionSound /\ AsksOfOwner
      BY <1>1, Parts
    <2>2. ASSUME NEW a \in sent
          PROVE  /\ asker[a] = owner /\ ~inconsistent
                 /\ ClientOf[owner] \in connected
                 /\ a \notin revoked
                 /\ ~Closed
      <3>1. a \in Asks /\ a \in Open /\ a \notin aborted /\ a \notin revoked
        BY <2>1 DEF Bookkept, AskTypes, Open
      <3>2. asker[a] = owner /\ ~inconsistent /\ ~Closed
        BY <2>1, <3>1 DEF AsksOfOwner, Admissible
      <3>3. owner # None
        BY <2>1, <3>1, <3>2 DEF Bookkept, AskTypes
      <3> QED BY <2>1, <3>1, <3>2, <3>3 DEF SessionSound
    <2> QED BY <2>2 DEF QuestionsBelong
  <1> QED BY <1>1, Invariance, PTL

----------------------------------------------------------------------------
\* What a step may tell a native agent.

\* An ask that ends is refused, or is run or continued after the check of its
\* controller and of live().
LEMMA ResultsOfAsks ==
    ASSUME IInv, [Next]_vars, NEW a \in Asks, result[a] = None, result'[a] # None
    PROVE  /\ UNCHANGED access
           /\ \/ result'[a] \in {"cancelled", "next"}
              \/ Admitted(a) /\ Bypasses(a) /\ result'[a] = "allowed"
              \/ Admitted(a) /\ result'[a] = Decision(a)
  <1>1. result \in [Asks -> Results \cup {None}] /\ TypeOK
    BY DEF IInv, TypeOK
  <1>2. ASSUME NEW b \in Asks, NEW how, Finish(b, how)
        PROVE  a = b /\ result'[a] = how
    BY <1>1, <1>2 DEF Finish
  <1>3. CASE \E b \in Asks : AskStep(b)
    <2>1. PICK b \in Asks : AskStep(b)
      BY <1>3
    <2>2. UNCHANGED access
      BY <2>1 DEF AskStep, Refuse, Accept, Run, Continue, NativeAbort, ReplyError, Reply,
                  permission
    <2>3. ASSUME NEW r \in Records, Refuse(b, r)
          PROVE  result'[a] \in {"cancelled", "next"}
      <3>1. Finish(b, IF Closed THEN "cancelled" ELSE "next")
        BY <2>3 DEF Refuse
      <3> QED BY <1>2, <3>1
    <2>4. CASE Run(b)
      <3>1. Finish(b, IF Admitted(b) THEN "allowed" ELSE "cancelled") /\ (~Admitted(b) \/ Bypasses(b))
        BY <2>4 DEF Run
      <3> QED BY <1>2, <2>2, <3>1
    <2>5. CASE Continue(b)
      <3>1. Finish(b, IF Admitted(b) THEN Decision(b) ELSE "cancelled")
        BY <2>5 DEF Continue
      <3> QED BY <1>2, <2>2, <3>1
    <2>6. ~(\E r \in Records : Accept(b, r)) /\ ~NativeAbort(b) /\ ~ReplyError(b)
          /\ ~(\E answer \in Answers : Reply(b, answer))
      BY DEF Accept, NativeAbort, ReplyError, Reply
    <2> QED BY <2>1, <2>2, <2>3, <2>4, <2>5, <2>6 DEF AskStep
  <1>4. ~SessionStep /\ ~Dispose /\ ~DisposalDone /\ ~UNCHANGED vars
    <2>1. ~Dispose /\ ~DisposalDone /\ ~UNCHANGED vars
      BY DEF Dispose, DisposalDone, vars, asks
    <2>2. ~SessionStep
      BY DEF SessionStep, SessionCancel, Reload, ReloadFails, Retire, BusyEnds, PresetChanges,
             SetModeFails, Disconnect, Publish, Discard, ModeNotified, FailedMutation, asks
    <2> QED BY <2>1, <2>2
  <1> QED BY <1>3, <1>4 DEF Next

\* A reply becomes a decision only for the published record that asked, with
\* no withdrawal between the question and the decision.
THEOREM WithdrawnNeverDecides == Spec => DecisionsStand
  <1> DEFINE D == \A a \in Asks : result[a] = None /\ result'[a] \in Decisions =>
                    a \notin revoked /\ owner = asker[a] /\ ~inconsistent
  <1>1. ASSUME IInv, [Next]_vars PROVE D
    <2>1. SUFFICES ASSUME NEW a \in Asks, result[a] = None, result'[a] \in Decisions
                   PROVE  a \notin revoked /\ owner = asker[a] /\ ~inconsistent
      OBVIOUS
    <2>2. result'[a] # None /\ result'[a] \notin {"cancelled", "next"}
      BY <2>1, InteractionsAssumption DEF Decisions, Results
    <2>3. Admitted(a)
      BY <1>1, <2>1, <2>2, ResultsOfAsks
    <2> QED BY <1>1, <2>3, Parts DEF Admitted, Live, Bookkept
  <1> QED BY <1>1, Invariance, PTL DEF Spec, DecisionsStand

\* Nothing is allowed but by the user, or by a bypass that the native
\* permission agrees with.
THEOREM AllowedByUserOrBypass == Spec => AllowedByRight
  <1> DEFINE D == \A a \in Asks : result[a] = None /\ result'[a] = "allowed" =>
                    reply[a] = "yes" \/ (Kind[a] = "approval" /\ access = "full")
  <1>1. ASSUME IInv, [Next]_vars PROVE D
    <2>1. SUFFICES ASSUME NEW a \in Asks, result[a] = None, result'[a] = "allowed"
                   PROVE  reply[a] = "yes" \/ (Kind[a] = "approval" /\ access = "full")
      OBVIOUS
    <2>2. result'[a] # None
      BY <2>1, InteractionsAssumption DEF Decisions, Results
    <2>3. Bypasses(a) \/ Decision(a) = "allowed"
      BY <1>1, <2>1, <2>2, ResultsOfAsks
    <2>4. CASE Bypasses(a)
      BY <1>1, <2>4, Parts DEF Bypasses, SessionSound
    <2>5. CASE Decision(a) = "allowed"
      <3>1. reply[a] \in {"yes", "no", None}
        BY <1>1 DEF IInv, TypeOK, Answers
      <3>2. None \notin {"yes", "no"}
        BY InteractionsAssumption DEF Answers
      <3> QED BY <2>5, <3>1, <3>2 DEF Decision
    <2> QED BY <2>3, <2>4, <2>5
  <1> QED BY <1>1, Invariance, PTL DEF Spec, AllowedByRight
=============================================================================
