----------------------------- MODULE Outbox_proofs -----------------------------
(***************************************************************************)
(* What Outbox promises for any events, people, consumers, limits and      *)
(* faults: its types, that a worked event is held by one consumer alone,   *)
(* that delivered means told, that a settled event is final, that nobody   *)
(* is mailed twice but after a mishap, and that the outbox implements      *)
(* Notifications.                                                          *)
(*                                                                         *)
(* The inductive invariant adds to the checked ones what an attempt has in *)
(* hand while it runs (InHand) and that a pending event has an attempt     *)
(* left (AttemptLeft).  A second one, on top of it, matches every mail     *)
(* that is on no record with a mishap (Counted).                           *)
(***************************************************************************)
EXTENDS Outbox, TLAPS

\* A pending event has not used up its attempts; one not yet written has none.
AttemptLeft ==
    /\ \A e \in Events : state[e] = "pending" => attempts[e] < MaxAttempts
    /\ \A e \in Events : state[e] = "none" => attempts[e] = 0

\* Unless a mail was refused, everybody who should be told is still to come, was mailed in
\* this attempt or has a delivery from an earlier one.
InHand ==
    \A c \in Consumers : pc[c] = "mail" /\ ~refused[c] =>
        owedTo[ev[c]] \subseteq todo[c] \cup wrote[c] \cup Told(ev[c])

IInv == TypeOK /\ AttemptLeft /\ HeldAlone /\ InHand /\ DeliveredMeansTold

--------------------------------------------------------------------------------
(* Types. *)

\* An empty outbox has every variable of its type.
LEMMA InitTypeOK == Init => TypeOK
  <1> USE OutboxAssumption
  <1>1. Event \in Events
    BY DEF Event
  <1>2. 0 \in 0..Horizon /\ 0 \in 0..MaxAttempts /\ 0 \in 0..Limit
    OBVIOUS
  <1> QED
    BY <1>1, <1>2 DEF Init, TypeOK, Pairs

\* The rows after a failed attempt, with and without another one to come.
LEMMA RetriedType ==
  ASSUME TypeOK, AttemptLeft, NEW c \in Consumers, NEW e \in Events, state[e] = "pending",
         Retried(c, e)
  PROVE  /\ attempts' \in [Events -> 0..MaxAttempts]
         /\ state' \in [Events -> {"none", "pending", "delivered", "failed"}]
         /\ nextAt' \in [Events -> Nat]
         /\ AttemptLeft'
         /\ occurred' = occurred
         /\ state'[e] \in {"pending", "failed"}
         /\ \A f \in Events \ {e} : state'[f] = state[f] /\ attempts'[f] = attempts[f]
  <1> USE OutboxAssumption
  <1> DEFINE n == attempts[e] + 1
  <1>0. attempts[e] \in Nat /\ attempts[e] < MaxAttempts
    BY DEF TypeOK, AttemptLeft
  <1>1. n \in 1..MaxAttempts
    BY <1>0
  <1>2. passNow[c] + Backoff[n] \in Nat
    <2>1. passNow[c] \in Nat
      BY DEF TypeOK
    <2>2. Backoff[n] \in Nat
      BY <1>1
    <2> QED
      BY <2>1, <2>2
  <1>3. ~GivesUp(n) => n < MaxAttempts
    BY <1>1 DEF GivesUp
  <1> HIDE DEF n
  <1>4. /\ attempts' = [attempts EXCEPT ![e] = n]
        /\ state' = [state EXCEPT ![e] = IF GivesUp(n) THEN "failed" ELSE "pending"]
        /\ nextAt' = [nextAt EXCEPT ![e] = IF GivesUp(n) THEN 0 ELSE passNow[c] + Backoff[n]]
        /\ occurred' = occurred
    BY DEF Retried, n
  <1>5. state \in [Events -> {"none", "pending", "delivered", "failed"}]
        /\ attempts \in [Events -> 0..MaxAttempts] /\ nextAt \in [Events -> Nat]
    BY DEF TypeOK
  <1>6. attempts' \in [Events -> 0..MaxAttempts]
    BY <1>1, <1>4, <1>5
  <1>7. state' \in [Events -> {"none", "pending", "delivered", "failed"}]
    BY <1>4, <1>5
  <1>8. nextAt' \in [Events -> Nat]
    BY <1>2, <1>4, <1>5
  <1>9. /\ state'[e] \in {"pending", "failed"}
        /\ attempts'[e] = n
        /\ state'[e] = "pending" => n < MaxAttempts
    BY <1>3, <1>4, <1>5
  <1>10. \A f \in Events \ {e} : state'[f] = state[f] /\ attempts'[f] = attempts[f]
    BY <1>4, <1>5
  <1>11. AttemptLeft'
    BY <1>9, <1>10 DEF AttemptLeft
  <1> QED
    BY <1>4, <1>6, <1>7, <1>8, <1>9, <1>10, <1>11

\* What a consumer has in hand keeps its types when it lets go of its event.
LEMMA ReleaseType ==
  ASSUME TypeOK, NEW c \in Consumers, NEW next \in {"idle", "claim", "mail"}, Release(c, next)
  PROVE  /\ lock' \in [Events -> Consumers \cup {Nobody}]
         /\ pc' \in [Consumers -> {"idle", "claim", "mail"}]
         /\ ev' \in [Consumers -> Events]
         /\ todo' \in [Consumers -> SUBSET Users]
         /\ wrote' \in [Consumers -> SUBSET Users]
         /\ refused' \in [Consumers -> BOOLEAN]
  <1>1. Event \in Events
    BY OutboxAssumption DEF Event
  <1> QED
    BY <1>1 DEF Release, TypeOK

\* Deliveries are pairs of an event and a person, whatever an attempt adds.
LEMMA RecordedType ==
  ASSUME TypeOK, NEW c \in Consumers
  PROVE  Recorded(ev[c], wrote[c]) \in SUBSET Pairs
  BY DEF TypeOK, Pairs, Recorded

\* A fault that happens leaves its budget a natural number.
LEMMA SpendType ==
  ASSUME TypeOK, NEW f \in Faults, Spend(f)
  PROVE  left' \in [Faults -> Nat]
  <1>1. left \in [Faults -> Nat] /\ left[f] \in Nat
    BY DEF TypeOK
  <1>2. left[f] - 1 \in Nat
    BY <1>1 DEF Spend
  <1> QED
    BY <1>1, <1>2 DEF Spend

\* A pass below its limit may take one more event.
LEMMA TakenType ==
  ASSUME TypeOK, NEW c \in Consumers, taken[c] < Limit
  PROVE  [taken EXCEPT ![c] = @ + 1] \in [Consumers -> 0..Limit]
  <1>1. taken \in [Consumers -> 0..Limit] /\ Limit \in Nat
    BY OutboxAssumption DEF TypeOK
  <1>2. taken[c] + 1 \in 0..Limit
    BY <1>1
  <1> QED
    BY <1>1, <1>2

\* One mail more to somebody about the event in hand.
LEMMA MailedType ==
  ASSUME TypeOK, NEW c \in Consumers, NEW u \in Users
  PROVE  [mailed EXCEPT ![<<ev[c], u>>] = @ + 1] \in [Pairs -> Nat]
  <1>1. mailed \in [Pairs -> Nat] /\ <<ev[c], u>> \in Pairs
    BY DEF TypeOK, Pairs
  <1>2. mailed[<<ev[c], u>>] + 1 \in Nat
    BY <1>1
  <1> QED
    BY <1>1, <1>2

\* An attempt that ends in a retry or a throw still had one left to take.
LEMMA StepTypeOK ==
  ASSUME TypeOK, AttemptLeft, HeldAlone, [Next]_vars
  PROVE  TypeOK' /\ AttemptLeft'
  <1> USE OutboxAssumption
  <1>1. CASE Tick
    <2>1. TypeOK'
      BY <1>1 DEF Tick, TypeOK, rows, held
    <2>2. AttemptLeft'
      BY <1>1 DEF Tick, TypeOK, AttemptLeft, rows, held
    <2> QED BY <2>1, <2>2
  <1>2. ASSUME NEW e \in Events, Escalate(e) PROVE TypeOK' /\ AttemptLeft'
    <2>1. TypeOK'
      BY <1>2 DEF Escalate, TypeOK, held
    <2>2. AttemptLeft'
      BY <1>2 DEF Escalate, TypeOK, AttemptLeft, held
    <2> QED BY <2>1, <2>2
  <1>3. ASSUME NEW e \in Events, NEW to \in {"acknowledged", "resolved"}, Settle(e, to)
        PROVE  TypeOK' /\ AttemptLeft'
    <2>1. TypeOK'
      BY <1>3 DEF Settle, TypeOK, rows, held
    <2>2. AttemptLeft'
      BY <1>3 DEF Settle, TypeOK, AttemptLeft, rows, held
    <2> QED BY <2>1, <2>2
  <1>4. ASSUME NEW c \in Consumers, StartPass(c) PROVE TypeOK' /\ AttemptLeft'
    <2>1. TypeOK'
      <3>1. pc' \in [Consumers -> {"idle", "claim", "mail"}]
        BY <1>4 DEF StartPass, TypeOK
      <3>2. passNow' \in [Consumers -> 0..Horizon]
        BY <1>4 DEF StartPass, TypeOK
      <3>3. taken' \in [Consumers -> 0..Limit]
        BY <1>4 DEF StartPass, TypeOK
      <3> QED
        BY <1>4, <3>1, <3>2, <3>3 DEF StartPass, TypeOK, rows
    <2>2. AttemptLeft'
      BY <1>4 DEF StartPass, TypeOK, AttemptLeft, rows
    <2> QED BY <2>1, <2>2
  <1>5. ASSUME NEW c \in Consumers, EndPass(c) PROVE TypeOK' /\ AttemptLeft'
    <2>1. TypeOK'
      <3>1. pc' \in [Consumers -> {"idle", "claim", "mail"}]
        BY <1>5 DEF EndPass, TypeOK
      <3>2. passNow' \in [Consumers -> 0..Horizon]
        BY <1>5 DEF EndPass, TypeOK
      <3>3. taken' \in [Consumers -> 0..Limit]
        BY <1>5 DEF EndPass, TypeOK
      <3> QED
        BY <1>5, <3>1, <3>2, <3>3 DEF EndPass, TypeOK, rows
    <2>2. AttemptLeft'
      BY <1>5 DEF EndPass, TypeOK, AttemptLeft, rows
    <2> QED BY <2>1, <2>2
  <1>6. ASSUME NEW c \in Consumers, NEW e \in Events, Expire(c, e)
        PROVE  TypeOK' /\ AttemptLeft'
    <2>1. TypeOK'
      <3>1. state' \in [Events -> {"none", "pending", "delivered", "failed"}]
        BY <1>6 DEF Expire, TypeOK
      <3>2. nextAt' \in [Events -> Nat]
        BY <1>6 DEF Expire, TypeOK
      <3>3. taken' \in [Consumers -> 0..Limit]
        BY <1>6, TakenType DEF Expire
      <3> QED
        BY <1>6, <3>1, <3>2, <3>3 DEF Expire, TypeOK
    <2>2. AttemptLeft'
      BY <1>6 DEF Expire, TypeOK, AttemptLeft
    <2> QED BY <2>1, <2>2
  <1>7. ASSUME NEW c \in Consumers, NEW e \in Events, NEW R \in SUBSET Users, Claim(c, e, R)
        PROVE  TypeOK' /\ AttemptLeft'
    <2>1. TypeOK'
      <3>1. lock' \in [Events -> Consumers \cup {Nobody}]
        BY <1>7 DEF Claim, TypeOK
      <3>2. pc' \in [Consumers -> {"idle", "claim", "mail"}]
        BY <1>7 DEF Claim, TypeOK
      <3>3. taken' \in [Consumers -> 0..Limit]
        BY <1>7, TakenType DEF Claim
      <3>4. ev' \in [Consumers -> Events]
        BY <1>7 DEF Claim, TypeOK
      <3>5. owedTo' \in [Events -> SUBSET Users]
        BY <1>7 DEF Claim, TypeOK
      <3>6. todo' \in [Consumers -> SUBSET Users]
        BY <1>7 DEF Claim, TypeOK
      <3>7. wrote' \in [Consumers -> SUBSET Users]
        BY <1>7 DEF Claim, TypeOK
      <3>8. refused' \in [Consumers -> BOOLEAN]
        BY <1>7 DEF Claim, TypeOK
      <3> QED
        BY <1>7, <3>1, <3>2, <3>3, <3>4, <3>5, <3>6, <3>7, <3>8 DEF Claim, TypeOK, rows
    <2>2. AttemptLeft'
      BY <1>7 DEF Claim, TypeOK, AttemptLeft, rows
    <2> QED BY <2>1, <2>2
  <1>8. ASSUME NEW c \in Consumers, NEW u \in Users, Mail(c, u)
        PROVE  TypeOK' /\ AttemptLeft'
    <2>1. TypeOK'
      <3>1. todo' \in [Consumers -> SUBSET Users]
        BY <1>8 DEF Mail, TypeOK
      <3>2. wrote' \in [Consumers -> SUBSET Users]
        BY <1>8 DEF Mail, TypeOK
      <3>3. mailed' \in [Pairs -> Nat]
        BY <1>8, MailedType DEF Mail
      <3> QED
        BY <1>8, <3>1, <3>2, <3>3 DEF Mail, TypeOK, rows
    <2>2. AttemptLeft'
      BY <1>8 DEF Mail, TypeOK, AttemptLeft, rows, Pairs
    <2> QED BY <2>1, <2>2
  <1>9. ASSUME NEW c \in Consumers, NEW u \in Users, MailRefused(c, u)
        PROVE  TypeOK' /\ AttemptLeft'
    <2>1. TypeOK'
      <3>1. todo' \in [Consumers -> SUBSET Users]
        BY <1>9 DEF MailRefused, TypeOK
      <3>2. refused' \in [Consumers -> BOOLEAN]
        BY <1>9 DEF MailRefused, TypeOK
      <3>3. left' \in [Faults -> Nat]
        BY <1>9, SpendType DEF MailRefused, Faults
      <3> QED
        BY <1>9, <3>1, <3>2, <3>3 DEF MailRefused, TypeOK, rows
    <2>2. AttemptLeft'
      BY <1>9, SpendType DEF MailRefused, Faults, AttemptLeft, rows
    <2> QED BY <2>1, <2>2
  <1>10. ASSUME NEW c \in Consumers, NEW u \in Users, MailAnswerLost(c, u)
         PROVE  TypeOK' /\ AttemptLeft'
    <2>1. TypeOK'
      <3>1. todo' \in [Consumers -> SUBSET Users]
        BY <1>10 DEF MailAnswerLost, TypeOK
      <3>2. refused' \in [Consumers -> BOOLEAN]
        BY <1>10 DEF MailAnswerLost, TypeOK
      <3>3. mailed' \in [Pairs -> Nat]
        BY <1>10, MailedType DEF MailAnswerLost
      <3>4. mishaps' \in [Events -> Nat]
        BY <1>10 DEF MailAnswerLost, TypeOK
      <3>5. left' \in [Faults -> Nat]
        BY <1>10, SpendType DEF MailAnswerLost, Faults
      <3> QED
        BY <1>10, <3>1, <3>2, <3>3, <3>4, <3>5 DEF MailAnswerLost, TypeOK, rows
    <2>2. AttemptLeft'
      BY <1>10, SpendType DEF MailAnswerLost, Faults, AttemptLeft, rows, Pairs
    <2> QED BY <2>1, <2>2
  <1>11. ASSUME NEW c \in Consumers, Deliver(c) PROVE TypeOK' /\ AttemptLeft'
    <2>1. TypeOK'
      BY <1>11, ReleaseType, RecordedType DEF Deliver, TypeOK
    <2>2. AttemptLeft'
      BY <1>11, ReleaseType, RecordedType DEF Deliver, TypeOK, AttemptLeft
    <2> QED BY <2>1, <2>2
  <1>12. ASSUME NEW c \in Consumers, NoRecipient(c) PROVE TypeOK' /\ AttemptLeft'
    <2>1. attempts[ev[c]] + 1 \in 0..MaxAttempts
      BY <1>12 DEF NoRecipient, HeldAlone, AttemptLeft, TypeOK
    <2> QED
      BY <1>12, <2>1, ReleaseType DEF NoRecipient, TypeOK, AttemptLeft
  <1>13. ASSUME NEW c \in Consumers, Retry(c) PROVE TypeOK' /\ AttemptLeft'
    <2>1. ev[c] \in Events /\ state[ev[c]] = "pending"
      BY <1>13 DEF Retry, HeldAlone, TypeOK
    <2> QED
      BY <1>13, <2>1, RetriedType, ReleaseType, RecordedType DEF Retry, TypeOK
  <1>14. ASSUME NEW c \in Consumers, Throw(c) PROVE TypeOK' /\ AttemptLeft'
    <2>1. ev[c] \in Events /\ state[ev[c]] = "pending"
      BY <1>14 DEF Throw, HeldAlone, TypeOK
    <2>2. mishaps' \in [Events -> Nat]
      BY <1>14 DEF Throw, TypeOK
    <2>3. left' \in [Faults -> Nat]
      BY <1>14, SpendType DEF Throw, Faults
    <2>4. Retried(c, ev[c]) /\ Release(c, "claim")
      BY <1>14 DEF Throw
    <2> QED
      BY <1>14, <2>1, <2>2, <2>3, <2>4, RetriedType, ReleaseType DEF Throw, TypeOK
  <1>15. ASSUME NEW c \in Consumers, Crash(c) PROVE TypeOK' /\ AttemptLeft'
    <2>1. TypeOK'
      <3>1. mishaps' \in [Events -> Nat]
        BY <1>15 DEF Crash, TypeOK
      <3>2. left' \in [Faults -> Nat]
        BY <1>15, SpendType DEF Crash, Faults
      <3>3. passNow' \in [Consumers -> 0..Horizon]
        BY <1>15 DEF Crash, TypeOK
      <3>4. taken' \in [Consumers -> 0..Limit]
        BY <1>15 DEF Crash, TypeOK
      <3> QED
        BY <1>15, ReleaseType, <3>1, <3>2, <3>3, <3>4 DEF Crash, TypeOK, rows
    <2>2. AttemptLeft'
      BY <1>15, ReleaseType DEF Crash, Spend, Faults, TypeOK, AttemptLeft, rows
    <2> QED BY <2>1, <2>2
  <1>16. CASE UNCHANGED vars
    <2>1. TypeOK'
      BY <1>16 DEF vars, rows, held, TypeOK
    <2>2. AttemptLeft'
      BY <1>16 DEF vars, rows, held, TypeOK, AttemptLeft
    <2> QED BY <2>1, <2>2
  <1> QED
    BY <1>1, <1>2, <1>3, <1>4, <1>5, <1>6, <1>7, <1>8, <1>9, <1>10, <1>11, <1>12, <1>13,
       <1>14, <1>15, <1>16 DEF Next, Work, Trouble

--------------------------------------------------------------------------------
(* Who holds what. *)

\* Letting go of an event touches nothing of the other consumers, nor of other events.
LEMMA ReleaseEffect ==
  ASSUME TypeOK, NEW c \in Consumers, NEW next \in {"idle", "claim"}, Release(c, next)
  PROVE  /\ pc'[c] = next
         /\ \A d \in Consumers \ {c} :
              /\ pc'[d] = pc[d] /\ ev'[d] = ev[d] /\ todo'[d] = todo[d]
              /\ wrote'[d] = wrote[d] /\ refused'[d] = refused[d]
         /\ \A f \in Events \ {ev[c]} : lock'[f] = lock[f]
  BY DEF Release, TypeOK

\* Two consumers that work, work on two events.
LEMMA WorkApart ==
  ASSUME TypeOK, HeldAlone, NEW c \in Consumers, NEW d \in Consumers \ {c},
         pc[c] = "mail", pc[d] = "mail"
  PROVE  ev[c] \in Events /\ ev[d] \in Events /\ ev[c] # ev[d]
  BY DEF TypeOK, HeldAlone

\* An attempt that ends, however it ends, leaves the other consumers their events.
LEMMA EndAlone ==
  ASSUME TypeOK, HeldAlone, NEW c \in Consumers, NEW next \in {"idle", "claim"},
         pc[c] = "mail", Release(c, next), mailed' = mailed,
         \A f \in Events \ {ev[c]} : state'[f] = state[f]
  PROVE  HeldAlone'
  <1> SUFFICES ASSUME NEW d \in Consumers, pc'[d] = "mail"
               PROVE  /\ lock'[ev'[d]] = d
                      /\ state'[ev'[d]] = "pending"
                      /\ \A u \in wrote'[d] : mailed'[<<ev'[d], u>>] >= 1
    BY DEF HeldAlone
  <1>1. d # c
    BY ReleaseEffect
  <1>2. pc[d] = "mail" /\ ev'[d] = ev[d] /\ wrote'[d] = wrote[d]
    BY <1>1, ReleaseEffect
  <1>3. ev[d] \in Events \ {ev[c]}
    BY <1>1, <1>2, WorkApart
  <1>4. lock'[ev[d]] = lock[ev[d]] /\ state'[ev[d]] = state[ev[d]]
    BY <1>3, ReleaseEffect
  <1> QED
    BY <1>2, <1>4 DEF HeldAlone

\* A step that leaves who works on what, and only adds mails.
LEMMA MoreMails ==
  ASSUME TypeOK, HeldAlone, pc' = pc, ev' = ev, lock' = lock, state' = state, wrote' = wrote,
         mailed' = mailed \/ \E p \in Pairs : mailed' = [mailed EXCEPT ![p] = @ + 1]
  PROVE  HeldAlone'
  <1> SUFFICES ASSUME NEW d \in Consumers, pc[d] = "mail", NEW u \in wrote[d]
               PROVE  mailed'[<<ev[d], u>>] >= 1
    BY DEF HeldAlone
  <1>1. <<ev[d], u>> \in Pairs /\ mailed[<<ev[d], u>>] \in Nat /\ mailed[<<ev[d], u>>] >= 1
    BY DEF TypeOK, HeldAlone, Pairs
  <1> QED
    BY <1>1 DEF TypeOK

\* While it works, a consumer alone holds its event, pending; what it wrote it has mailed.
LEMMA StepHeldAlone ==
  ASSUME TypeOK, AttemptLeft, HeldAlone, [Next]_vars
  PROVE  HeldAlone'
  <1>1. CASE Tick
    BY <1>1, MoreMails DEF Tick, rows, held
  <1>2. ASSUME NEW e \in Events, Escalate(e) PROVE HeldAlone'
    <2>1. \A d \in Consumers : pc[d] = "mail" => ev[d] # e
      BY <1>2 DEF Escalate, HeldAlone
    <2>2. \A f \in Events \ {e} : state'[f] = state[f]
      BY <1>2 DEF Escalate, TypeOK
    <2>3. \A d \in Consumers : ev[d] \in Events
      BY DEF TypeOK
    <2> QED
      BY <1>2, <2>1, <2>2, <2>3 DEF Escalate, HeldAlone, held
  <1>3. ASSUME NEW e \in Events, NEW to \in {"acknowledged", "resolved"}, Settle(e, to)
        PROVE  HeldAlone'
    BY <1>3, MoreMails DEF Settle, rows, held
  <1>4. ASSUME NEW c \in Consumers, StartPass(c) PROVE HeldAlone'
    <2>1. \A d \in Consumers : pc'[d] = "mail" => pc[d] = "mail"
      BY <1>4 DEF StartPass, TypeOK
    <2> QED
      BY <1>4, <2>1 DEF StartPass, HeldAlone, rows
  <1>5. ASSUME NEW c \in Consumers, EndPass(c) PROVE HeldAlone'
    <2>1. \A d \in Consumers : pc'[d] = "mail" => pc[d] = "mail"
      BY <1>5 DEF EndPass, TypeOK
    <2> QED
      BY <1>5, <2>1 DEF EndPass, HeldAlone, rows
  <1>6. ASSUME NEW c \in Consumers, NEW e \in Events, Expire(c, e) PROVE HeldAlone'
    <2>1. \A d \in Consumers : pc[d] = "mail" => ev[d] # e
      BY <1>6, OutboxAssumption DEF Expire, Oldest, Claimable, HeldAlone
    <2>2. \A f \in Events \ {e} : state'[f] = state[f]
      BY <1>6 DEF Expire, TypeOK
    <2>3. \A d \in Consumers : ev[d] \in Events
      BY DEF TypeOK
    <2> QED
      BY <1>6, <2>1, <2>2, <2>3 DEF Expire, HeldAlone
  <1>7. ASSUME NEW c \in Consumers, NEW e \in Events, NEW R \in SUBSET Users, Claim(c, e, R)
        PROVE  HeldAlone'
    <2>1. \A d \in Consumers : pc[d] = "mail" => ev[d] # e
      BY <1>7, OutboxAssumption DEF Claim, Oldest, Claimable, HeldAlone
    <2>2. /\ ev'[c] = e /\ lock'[e] = c /\ wrote'[c] = {} /\ state[e] = "pending"
          /\ state' = state /\ mailed' = mailed
      BY <1>7 DEF Claim, Oldest, Claimable, TypeOK, rows
    <2>3. \A d \in Consumers \ {c} :
            /\ pc'[d] = pc[d] /\ ev'[d] = ev[d] /\ wrote'[d] = wrote[d] /\ ev[d] \in Events
      BY <1>7 DEF Claim, TypeOK
    <2>4. \A f \in Events \ {e} : lock'[f] = lock[f]
      BY <1>7 DEF Claim, TypeOK
    <2> QED
      BY <2>1, <2>2, <2>3, <2>4 DEF HeldAlone
  <1>8. ASSUME NEW c \in Consumers, NEW u \in Users, Mail(c, u) PROVE HeldAlone'
    <2>1. /\ mailed \in [Pairs -> Nat] /\ mailed' = [mailed EXCEPT ![<<ev[c], u>>] = @ + 1]
          /\ <<ev[c], u>> \in Pairs
      BY <1>8 DEF Mail, TypeOK, Pairs
    <2>2. /\ \A p \in Pairs : mailed[p] >= 1 => mailed'[p] >= 1
          /\ mailed'[<<ev[c], u>>] >= 1
      BY <2>1
    <2>3. \A d \in Consumers : ev[d] \in Events /\ wrote[d] \in SUBSET Users
      BY DEF TypeOK
    <2>4. /\ wrote'[c] = wrote[c] \cup {u}
          /\ \A d \in Consumers \ {c} : wrote'[d] = wrote[d]
      BY <1>8 DEF Mail, TypeOK
    <2>5. pc' = pc /\ ev' = ev /\ lock' = lock /\ state' = state
      BY <1>8 DEF Mail, rows
    <2> QED
      BY <2>2, <2>3, <2>4, <2>5 DEF HeldAlone, Pairs
  <1>9. ASSUME NEW c \in Consumers, NEW u \in Users, MailRefused(c, u) PROVE HeldAlone'
    BY <1>9, MoreMails DEF MailRefused, rows
  <1>10. ASSUME NEW c \in Consumers, NEW u \in Users, MailAnswerLost(c, u) PROVE HeldAlone'
    <2>1. <<ev[c], u>> \in Pairs
      BY DEF TypeOK, Pairs
    <2> QED
      BY <1>10, <2>1, MoreMails DEF MailAnswerLost, rows
  <1>11. ASSUME NEW c \in Consumers, Deliver(c) PROVE HeldAlone'
    BY <1>11, EndAlone DEF Deliver, TypeOK
  <1>12. ASSUME NEW c \in Consumers, NoRecipient(c) PROVE HeldAlone'
    BY <1>12, EndAlone DEF NoRecipient, TypeOK
  <1>13. ASSUME NEW c \in Consumers, Retry(c) PROVE HeldAlone'
    <2>1. ev[c] \in Events /\ state[ev[c]] = "pending"
      BY <1>13 DEF Retry, HeldAlone, TypeOK
    <2> QED
      BY <1>13, <2>1, RetriedType, EndAlone DEF Retry
  <1>14. ASSUME NEW c \in Consumers, Throw(c) PROVE HeldAlone'
    <2>1. ev[c] \in Events /\ state[ev[c]] = "pending"
      BY <1>14 DEF Throw, HeldAlone, TypeOK
    <2> QED
      BY <1>14, <2>1, RetriedType, EndAlone DEF Throw
  <1>15. ASSUME NEW c \in Consumers, Crash(c) PROVE HeldAlone'
    BY <1>15, EndAlone DEF Crash, rows
  <1>16. CASE UNCHANGED vars
    BY <1>16, MoreMails DEF vars, rows, held
  <1> QED
    BY <1>1, <1>2, <1>3, <1>4, <1>5, <1>6, <1>7, <1>8, <1>9, <1>10, <1>11, <1>12, <1>13,
       <1>14, <1>15, <1>16 DEF Next, Work, Trouble

--------------------------------------------------------------------------------
(* Whom an attempt still has to reach, and what is on record. *)

\* What a step that records more, or nothing, does to an attempt it is not about.
LEMMA StillInHand ==
  ASSUME TypeOK, InHand, delivery \subseteq delivery', NEW d \in Consumers,
         pc[d] = "mail", ~refused[d],
         ev'[d] = ev[d], owedTo'[ev[d]] = owedTo[ev[d]],
         todo[d] \cup wrote[d] \subseteq todo'[d] \cup wrote'[d]
  PROVE  owedTo'[ev'[d]] \subseteq todo'[d] \cup wrote'[d] \cup Told(ev[d])'
  BY DEF InHand, Told

\* An attempt that ends leaves the others what they have in hand.
LEMMA EndInHand ==
  ASSUME TypeOK, InHand, NEW c \in Consumers, NEW next \in {"idle", "claim"},
         Release(c, next), owedTo' = owedTo, delivery \subseteq delivery'
  PROVE  InHand'
  <1> SUFFICES ASSUME NEW d \in Consumers, pc'[d] = "mail", ~refused'[d]
               PROVE  owedTo'[ev'[d]] \subseteq todo'[d] \cup wrote'[d] \cup Told(ev[d])'
    BY DEF InHand, Told
  <1>1. d # c
    BY ReleaseEffect
  <1>2. /\ pc[d] = "mail" /\ ~refused[d] /\ ev'[d] = ev[d]
        /\ todo'[d] = todo[d] /\ wrote'[d] = wrote[d]
    BY <1>1, ReleaseEffect
  <1> QED
    BY <1>2, StillInHand

\* Unless a mail was refused, nobody who should be told is forgotten.
LEMMA StepInHand ==
  ASSUME TypeOK, AttemptLeft, HeldAlone, InHand, [Next]_vars
  PROVE  InHand'
  <1>1. CASE Tick
    BY <1>1 DEF Tick, InHand, Told, held
  <1>2. ASSUME NEW e \in Events, Escalate(e) PROVE InHand'
    BY <1>2 DEF Escalate, InHand, Told, held
  <1>3. ASSUME NEW e \in Events, NEW to \in {"acknowledged", "resolved"}, Settle(e, to)
        PROVE  InHand'
    BY <1>3 DEF Settle, InHand, Told, held
  <1>4. ASSUME NEW c \in Consumers, StartPass(c) PROVE InHand'
    <2>1. \A d \in Consumers : pc'[d] = "mail" => pc[d] = "mail"
      BY <1>4 DEF StartPass, TypeOK
    <2> QED
      BY <1>4, <2>1 DEF StartPass, InHand, Told
  <1>5. ASSUME NEW c \in Consumers, EndPass(c) PROVE InHand'
    <2>1. \A d \in Consumers : pc'[d] = "mail" => pc[d] = "mail"
      BY <1>5 DEF EndPass, TypeOK
    <2> QED
      BY <1>5, <2>1 DEF EndPass, InHand, Told
  <1>6. ASSUME NEW c \in Consumers, NEW e \in Events, Expire(c, e) PROVE InHand'
    BY <1>6 DEF Expire, InHand, Told
  <1>7. ASSUME NEW c \in Consumers, NEW e \in Events, NEW R \in SUBSET Users, Claim(c, e, R)
        PROVE  InHand'
    <2>1. \A d \in Consumers : pc[d] = "mail" => ev[d] # e
      BY <1>7, OutboxAssumption DEF Claim, Oldest, Claimable, HeldAlone
    <2>2. /\ ev'[c] = e /\ delivery' = delivery
          /\ owedTo'[e] \subseteq todo'[c] \cup Told(e)
      BY <1>7 DEF Claim, TypeOK
    <2>3. \A d \in Consumers \ {c} :
            /\ pc'[d] = pc[d] /\ ev'[d] = ev[d] /\ refused'[d] = refused[d]
            /\ todo'[d] = todo[d] /\ wrote'[d] = wrote[d] /\ ev[d] \in Events
      BY <1>7 DEF Claim, TypeOK
    <2>4. \A f \in Events \ {e} : owedTo'[f] = owedTo[f]
      BY <1>7 DEF Claim, TypeOK
    <2>5. ASSUME NEW d \in Consumers, pc'[d] = "mail", ~refused'[d]
          PROVE  owedTo'[ev'[d]] \subseteq todo'[d] \cup wrote'[d] \cup Told(ev[d])'
      <3>1. CASE d = c
        BY <3>1, <2>2 DEF Told
      <3>2. CASE d # c
        <4>1. pc[d] = "mail" /\ ~refused[d] /\ owedTo'[ev[d]] = owedTo[ev[d]]
          BY <3>2, <2>1, <2>3, <2>4, <2>5
        <4> QED
          BY <3>2, <4>1, <2>2, <2>3, StillInHand
      <3> QED
        BY <3>1, <3>2
    <2> QED
      BY <2>5 DEF InHand, Told
  <1>8. ASSUME NEW c \in Consumers, NEW u \in Users, Mail(c, u) PROVE InHand'
    <2>1. \A d \in Consumers : todo[d] \cup wrote[d] \subseteq todo'[d] \cup wrote'[d]
      BY <1>8 DEF Mail, TypeOK
    <2> QED
      BY <1>8, <2>1, StillInHand DEF Mail, InHand
  <1>9. ASSUME NEW c \in Consumers, NEW u \in Users, MailRefused(c, u) PROVE InHand'
    <2>1. refused'[c] /\ \A d \in Consumers \ {c} : refused'[d] = refused[d] /\ todo'[d] = todo[d]
      BY <1>9 DEF MailRefused, TypeOK
    <2> QED
      BY <1>9, <2>1, StillInHand DEF MailRefused, InHand
  <1>10. ASSUME NEW c \in Consumers, NEW u \in Users, MailAnswerLost(c, u) PROVE InHand'
    <2>1. refused'[c] /\ \A d \in Consumers \ {c} : refused'[d] = refused[d] /\ todo'[d] = todo[d]
      BY <1>10 DEF MailAnswerLost, TypeOK
    <2> QED
      BY <1>10, <2>1, StillInHand DEF MailAnswerLost, InHand
  <1>11. ASSUME NEW c \in Consumers, Deliver(c) PROVE InHand'
    BY <1>11, EndInHand DEF Deliver, Recorded
  <1>12. ASSUME NEW c \in Consumers, NoRecipient(c) PROVE InHand'
    BY <1>12, EndInHand DEF NoRecipient
  <1>13. ASSUME NEW c \in Consumers, Retry(c) PROVE InHand'
    BY <1>13, EndInHand DEF Retry, Recorded
  <1>14. ASSUME NEW c \in Consumers, Throw(c) PROVE InHand'
    BY <1>14, EndInHand DEF Throw
  <1>15. ASSUME NEW c \in Consumers, Crash(c) PROVE InHand'
    BY <1>15, EndInHand DEF Crash
  <1>16. CASE UNCHANGED vars
    BY <1>16 DEF vars, held, InHand, Told
  <1> QED
    BY <1>1, <1>2, <1>3, <1>4, <1>5, <1>6, <1>7, <1>8, <1>9, <1>10, <1>11, <1>12, <1>13,
       <1>14, <1>15, <1>16 DEF Next, Work, Trouble

\* A step that settles nothing as delivered, records nothing and takes no mail back.
LEMMA NothingDelivered ==
  ASSUME TypeOK, DeliveredMeansTold, delivery' = delivery,
         \A e \in Events : state'[e] = "delivered" =>
             state[e] = "delivered" /\ owedTo'[e] = owedTo[e],
         mailed' = mailed \/ \E p \in Pairs : mailed' = [mailed EXCEPT ![p] = @ + 1]
  PROVE  DeliveredMeansTold'
  <1>1. \A p \in delivery : p \in Pairs /\ mailed[p] \in Nat /\ mailed[p] >= 1
    BY DEF TypeOK, DeliveredMeansTold
  <1>2. \A p \in delivery : mailed'[p] >= 1
    BY <1>1 DEF TypeOK
  <1> QED
    BY <1>2 DEF DeliveredMeansTold, Told

\* Putting on record what an attempt mailed: every delivery is of an accepted mail.
LEMMA RecordedMailed ==
  ASSUME TypeOK, HeldAlone, DeliveredMeansTold, NEW c \in Consumers, pc[c] = "mail",
         delivery' = Recorded(ev[c], wrote[c]), mailed' = mailed
  PROVE  \A p \in delivery' : mailed'[p] >= 1
  BY DEF TypeOK, HeldAlone, DeliveredMeansTold, Recorded

\* An event marked delivered has told everybody its last attempt found should be told.
LEMMA StepDelivered ==
  ASSUME TypeOK, AttemptLeft, HeldAlone, InHand, DeliveredMeansTold, [Next]_vars
  PROVE  DeliveredMeansTold'
  <1>1. CASE Tick
    BY <1>1, NothingDelivered DEF Tick, rows
  <1>2. ASSUME NEW e \in Events, Escalate(e) PROVE DeliveredMeansTold'
    <2>1. \A f \in Events : state'[f] = "delivered" => state[f] = "delivered"
      BY <1>2 DEF Escalate, TypeOK
    <2> QED
      BY <1>2, <2>1, NothingDelivered DEF Escalate
  <1>3. ASSUME NEW e \in Events, NEW to \in {"acknowledged", "resolved"}, Settle(e, to)
        PROVE  DeliveredMeansTold'
    BY <1>3, NothingDelivered DEF Settle, rows
  <1>4. ASSUME NEW c \in Consumers, StartPass(c) PROVE DeliveredMeansTold'
    BY <1>4, NothingDelivered DEF StartPass, rows
  <1>5. ASSUME NEW c \in Consumers, EndPass(c) PROVE DeliveredMeansTold'
    BY <1>5, NothingDelivered DEF EndPass, rows
  <1>6. ASSUME NEW c \in Consumers, NEW e \in Events, Expire(c, e) PROVE DeliveredMeansTold'
    <2>1. \A f \in Events : state'[f] = "delivered" => state[f] = "delivered"
      BY <1>6 DEF Expire, TypeOK
    <2> QED
      BY <1>6, <2>1, NothingDelivered DEF Expire
  <1>7. ASSUME NEW c \in Consumers, NEW e \in Events, NEW R \in SUBSET Users, Claim(c, e, R)
        PROVE  DeliveredMeansTold'
    <2>1. state[e] = "pending" /\ state' = state
      BY <1>7 DEF Claim, Oldest, Claimable, rows
    <2>2. \A f \in Events \ {e} : owedTo'[f] = owedTo[f]
      BY <1>7 DEF Claim, TypeOK
    <2> QED
      BY <1>7, <2>1, <2>2, NothingDelivered DEF Claim
  <1>8. ASSUME NEW c \in Consumers, NEW u \in Users, Mail(c, u) PROVE DeliveredMeansTold'
    <2>1. <<ev[c], u>> \in Pairs
      BY DEF TypeOK, Pairs
    <2> QED
      BY <1>8, <2>1, NothingDelivered DEF Mail, rows
  <1>9. ASSUME NEW c \in Consumers, NEW u \in Users, MailRefused(c, u)
        PROVE  DeliveredMeansTold'
    BY <1>9, NothingDelivered DEF MailRefused, rows
  <1>10. ASSUME NEW c \in Consumers, NEW u \in Users, MailAnswerLost(c, u)
         PROVE  DeliveredMeansTold'
    <2>1. <<ev[c], u>> \in Pairs
      BY DEF TypeOK, Pairs
    <2> QED
      BY <1>10, <2>1, NothingDelivered DEF MailAnswerLost, rows
  <1>11. ASSUME NEW c \in Consumers, Deliver(c) PROVE DeliveredMeansTold'
    <2>0. PICK e \in Events : e = ev[c]
      BY DEF TypeOK
    <2>1. owedTo[e] \subseteq wrote[c] \cup Told(e)
      BY <1>11, <2>0 DEF Deliver, InHand
    <2>2. owedTo[e] \subseteq Told(e)'
      BY <1>11, <2>0, <2>1 DEF Deliver, Told, Recorded, TypeOK
    <2>3. \A p \in delivery' : mailed'[p] >= 1
      BY <1>11, RecordedMailed DEF Deliver
    <2>4. \A f \in Events \ {e} : state'[f] = state[f]
      BY <1>11, <2>0 DEF Deliver, TypeOK
    <2>5. owedTo' = owedTo /\ delivery \subseteq delivery'
      BY <1>11 DEF Deliver, Recorded
    <2>6. \A f \in Events : state'[f] = "delivered" => owedTo'[f] \subseteq Told(f)'
      BY <2>2, <2>4, <2>5 DEF DeliveredMeansTold, Told
    <2> QED
      BY <2>3, <2>6 DEF DeliveredMeansTold, Told
  <1>12. ASSUME NEW c \in Consumers, NoRecipient(c) PROVE DeliveredMeansTold'
    <2>1. \A f \in Events : state'[f] = "delivered" => state[f] = "delivered"
      BY <1>12 DEF NoRecipient, TypeOK
    <2> QED
      BY <1>12, <2>1, NothingDelivered DEF NoRecipient
  <1>13. ASSUME NEW c \in Consumers, Retry(c) PROVE DeliveredMeansTold'
    <2>1. ev[c] \in Events /\ state[ev[c]] = "pending"
      BY <1>13 DEF Retry, HeldAlone, TypeOK
    <2>2. \A f \in Events : state'[f] = "delivered" => state[f] = "delivered"
      BY <1>13, <2>1, RetriedType DEF Retry
    <2>3. \A p \in delivery' : mailed'[p] >= 1
      BY <1>13, RecordedMailed DEF Retry
    <2>4. owedTo' = owedTo /\ delivery \subseteq delivery'
      BY <1>13 DEF Retry, Recorded
    <2> QED
      BY <2>2, <2>3, <2>4 DEF DeliveredMeansTold, Told
  <1>14. ASSUME NEW c \in Consumers, Throw(c) PROVE DeliveredMeansTold'
    <2>1. ev[c] \in Events /\ state[ev[c]] = "pending"
      BY <1>14 DEF Throw, HeldAlone, TypeOK
    <2>2. \A f \in Events : state'[f] = "delivered" => state[f] = "delivered"
      BY <1>14, <2>1, RetriedType DEF Throw
    <2> QED
      BY <1>14, <2>2, NothingDelivered DEF Throw
  <1>15. ASSUME NEW c \in Consumers, Crash(c) PROVE DeliveredMeansTold'
    BY <1>15, NothingDelivered DEF Crash, rows
  <1>16. CASE UNCHANGED vars
    BY <1>16, NothingDelivered DEF vars, rows
  <1> QED
    BY <1>1, <1>2, <1>3, <1>4, <1>5, <1>6, <1>7, <1>8, <1>9, <1>10, <1>11, <1>12, <1>13,
       <1>14, <1>15, <1>16 DEF Next, Work, Trouble

--------------------------------------------------------------------------------
(* The theorems. *)

\* The inductive invariant holds in every reachable state.
THEOREM Inductive == Spec => []IInv
  <1>1. Init => IInv
    <2> SUFFICES ASSUME Init PROVE IInv
      OBVIOUS
    <2>1. TypeOK
      BY InitTypeOK
    <2>2. AttemptLeft /\ HeldAlone /\ InHand /\ DeliveredMeansTold
      BY DEF Init, AttemptLeft, HeldAlone, InHand, DeliveredMeansTold
    <2> QED
      BY <2>1, <2>2 DEF IInv
  <1>2. IInv /\ [Next]_vars => IInv'
    BY StepTypeOK, StepHeldAlone, StepInHand, StepDelivered DEF IInv
  <1> QED
    BY <1>1, <1>2, PTL DEF Spec

\* Every variable keeps its type, attempts within MAX_ATTEMPTS among them.
THEOREM TypeCorrect == Spec => []TypeOK
  <1>1. IInv => TypeOK
    BY DEF IInv
  <1> QED
    BY <1>1, Inductive, PTL

\* The row lock does what one() needs of it: no two consumers work on one event.
THEOREM WorkedAlone == Spec => []HeldAlone
  <1>1. IInv => HeldAlone
    BY DEF IInv
  <1> QED
    BY <1>1, Inductive, PTL

\* However its attempts ended, an event marked delivered has told everybody it should.
THEOREM DeliveredIsTold == Spec => []DeliveredMeansTold
  <1>1. IInv => DeliveredMeansTold
    BY DEF IInv
  <1> QED
    BY <1>1, Inductive, PTL

\* A step changes the outcome of a pending event or of none.
LEMMA OnlyPendingChanges ==
  ASSUME IInv, [Next]_vars, NEW e \in Events, state[e] \in {"delivered", "failed"}
  PROVE  state'[e] = state[e] /\ attempts'[e] = attempts[e]
  <1> USE DEF IInv
  <1>1. CASE Tick
    BY <1>1 DEF Tick, rows
  <1>2. ASSUME NEW f \in Events, Escalate(f) PROVE state'[e] = state[e] /\ attempts'[e] = attempts[e]
    BY <1>2 DEF Escalate, TypeOK
  <1>3. ASSUME NEW f \in Events, NEW to \in {"acknowledged", "resolved"}, Settle(f, to)
        PROVE  state'[e] = state[e] /\ attempts'[e] = attempts[e]
    BY <1>3 DEF Settle, rows
  <1>4. ASSUME NEW c \in Consumers, StartPass(c) \/ EndPass(c) \/ Crash(c)
        PROVE  state'[e] = state[e] /\ attempts'[e] = attempts[e]
    BY <1>4 DEF StartPass, EndPass, Crash, rows
  <1>5. ASSUME NEW c \in Consumers, NEW f \in Events, Expire(c, f)
        PROVE  state'[e] = state[e] /\ attempts'[e] = attempts[e]
    <2>1. state[f] = "pending"
      BY <1>5 DEF Expire, Oldest, Claimable
    <2> QED
      BY <1>5, <2>1 DEF Expire, TypeOK
  <1>6. ASSUME NEW c \in Consumers, NEW f \in Events, NEW R \in SUBSET Users, Claim(c, f, R)
        PROVE  state'[e] = state[e] /\ attempts'[e] = attempts[e]
    BY <1>6 DEF Claim, rows
  <1>7. ASSUME NEW c \in Consumers, NEW u \in Users,
               Mail(c, u) \/ MailRefused(c, u) \/ MailAnswerLost(c, u)
        PROVE  state'[e] = state[e] /\ attempts'[e] = attempts[e]
    BY <1>7 DEF Mail, MailRefused, MailAnswerLost, rows
  <1>8. ASSUME NEW c \in Consumers, Deliver(c) \/ NoRecipient(c)
        PROVE  state'[e] = state[e] /\ attempts'[e] = attempts[e]
    <2>1. ev[c] \in Events /\ ev[c] # e
      BY <1>8 DEF Deliver, NoRecipient, HeldAlone, TypeOK
    <2> QED
      BY <1>8, <2>1 DEF Deliver, NoRecipient, TypeOK
  <1>9. ASSUME NEW c \in Consumers, Retry(c) \/ Throw(c)
        PROVE  state'[e] = state[e] /\ attempts'[e] = attempts[e]
    <2>1. ev[c] \in Events /\ state[ev[c]] = "pending" /\ Retried(c, ev[c])
      BY <1>9 DEF Retry, Throw, HeldAlone, TypeOK
    <2> QED
      BY <2>1, RetriedType
  <1>10. CASE UNCHANGED vars
    BY <1>10 DEF vars, rows
  <1> QED
    BY <1>1, <1>2, <1>3, <1>4, <1>5, <1>6, <1>7, <1>8, <1>9, <1>10 DEF Next, Work, Trouble

\* A settled event stays settled, with the attempts it took, whatever fails afterwards.
THEOREM SettledForGood == Spec => SettledIsFinal
  <1>1. IInv /\ [Next]_vars =>
          [\A e \in Events : state[e] \in {"delivered", "failed"} =>
             state'[e] = state[e] /\ attempts'[e] = attempts[e]]_vars
    BY OnlyPendingChanges
  <1> QED
    BY <1>1, Inductive, PTL DEF Spec, SettledIsFinal

--------------------------------------------------------------------------------
(* Nobody is mailed twice but after a mishap. *)

\* Who an attempt has still to come to, and whom it has mailed, are told apart, and
\* are of those who should be told.
Working ==
    \A c \in Consumers : pc[c] = "mail" =>
        /\ todo[c] \cup wrote[c] \subseteq owedTo[ev[c]]
        /\ todo[c] \cap wrote[c] = {} /\ todo[c] \cap Told(ev[c]) = {}

\* A mail to u about e is on record, or will be when the attempt under way commits.
OnRecord(e, u) ==
    \/ <<e, u>> \in delivery
    \/ \E c \in Consumers : pc[c] = "mail" /\ ev[c] = e /\ u \in wrote[c]

\* Mails that are on no record were each lost in a mishap.
Counted == \A e \in Events, u \in Users : OnRecord(e, u) \/ mailed[<<e, u>>] <= mishaps[e]

CInv == Working /\ Counted /\ RepeatsOnlyAfterMishap

\* Nobody's work changes but that some of it is done.
LEMMA WorkGoesOn ==
  ASSUME TypeOK, Working, pc' = pc, ev' = ev, owedTo' = owedTo, delivery' = delivery,
         \A d \in Consumers : /\ todo'[d] \subseteq todo[d]
                              /\ wrote'[d] \subseteq wrote[d] \cup (todo[d] \ todo'[d])
  PROVE  Working'
  BY DEF Working, Told

\* Nobody begins to work.
LEMMA NobodyBegins ==
  ASSUME Working, owedTo' = owedTo, delivery' = delivery, UNCHANGED <<ev, todo, wrote>>,
         \A d \in Consumers : pc'[d] = "mail" => pc[d] = "mail"
  PROVE  Working'
  BY DEF Working, Told

\* An attempt that ends leaves the others their work.
LEMMA WorkEnds ==
  ASSUME TypeOK, HeldAlone, Working, NEW c \in Consumers, NEW next \in {"idle", "claim"},
         pc[c] = "mail", Release(c, next), owedTo' = owedTo,
         \A p \in delivery' : p \in delivery \/ p[1] = ev[c]
  PROVE  Working'
  <1> SUFFICES ASSUME NEW d \in Consumers, pc'[d] = "mail"
               PROVE  /\ todo'[d] \cup wrote'[d] \subseteq owedTo'[ev'[d]]
                      /\ todo'[d] \cap wrote'[d] = {}
                      /\ \A u \in todo'[d] : <<ev'[d], u>> \notin delivery'
    BY DEF Working, Told
  <1>1. d # c
    BY ReleaseEffect
  <1>2. pc[d] = "mail" /\ ev'[d] = ev[d] /\ todo'[d] = todo[d] /\ wrote'[d] = wrote[d]
    BY <1>1, ReleaseEffect
  <1>3. ev[d] # ev[c]
    BY <1>1, <1>2, WorkApart
  <1>4. todo[d] \subseteq Users
    BY DEF TypeOK
  <1> QED
    BY <1>2, <1>3, <1>4 DEF Working, Told

\* A claim sets to work on who should be told and was not.
LEMMA WorkBegins ==
  ASSUME TypeOK, HeldAlone, Working, NEW c \in Consumers, NEW e \in Events,
         NEW R \in SUBSET Users, Claim(c, e, R)
  PROVE  Working'
  <1> SUFFICES ASSUME NEW d \in Consumers, pc'[d] = "mail"
               PROVE  /\ todo'[d] \cup wrote'[d] \subseteq owedTo'[ev'[d]]
                      /\ todo'[d] \cap wrote'[d] = {} /\ todo'[d] \cap Told(ev'[d]) = {}
    BY DEF Working, Told, Claim
  <1>1. CASE d = c
    <2>1. /\ ev'[c] = e /\ wrote'[c] = {}
          /\ \/ owedTo'[e] = {} /\ todo'[c] = {}
             \/ owedTo'[e] = R /\ todo'[c] = R \ Told(e)
      BY DEF Claim, TypeOK
    <2> QED
      BY <1>1, <2>1
  <1>2. CASE d # c
    <2>1. pc[d] = "mail" /\ ev'[d] = ev[d] /\ todo'[d] = todo[d] /\ wrote'[d] = wrote[d]
      BY <1>2 DEF Claim, TypeOK
    <2>2. ev[d] # e /\ ev[d] \in Events
      BY <2>1, OutboxAssumption DEF Claim, Oldest, Claimable, HeldAlone, TypeOK
    <2>3. owedTo'[ev[d]] = owedTo[ev[d]]
      BY <2>2 DEF Claim, TypeOK
    <2> QED
      BY <2>1, <2>3 DEF Working
  <1> QED
    BY <1>1, <1>2

\* Every step leaves what the attempts have to do in order.
LEMMA StepWorking ==
  ASSUME IInv, Working, [Next]_vars
  PROVE  Working'
  <1> USE DEF IInv
  <1>1. CASE Tick \/ UNCHANGED vars
    BY <1>1, NobodyBegins DEF Tick, vars, held
  <1>2. ASSUME NEW e \in Events, Escalate(e) \/ \E to \in {"acknowledged", "resolved"} : Settle(e, to)
        PROVE  Working'
    BY <1>2, NobodyBegins DEF Escalate, Settle, held
  <1>3. ASSUME NEW c \in Consumers, StartPass(c) \/ EndPass(c) \/ \E e \in Events : Expire(c, e)
        PROVE  Working'
    <2>1. \A d \in Consumers : pc'[d] = "mail" => pc[d] = "mail"
      BY <1>3 DEF StartPass, EndPass, Expire, TypeOK
    <2> QED
      BY <1>3, <2>1, NobodyBegins DEF StartPass, EndPass, Expire
  <1>4. ASSUME NEW c \in Consumers, NEW u \in Users,
               Mail(c, u) \/ MailRefused(c, u) \/ MailAnswerLost(c, u)
        PROVE  Working'
    <2>1. \A d \in Consumers : /\ todo'[d] \subseteq todo[d]
                               /\ wrote'[d] \subseteq wrote[d] \cup (todo[d] \ todo'[d])
      BY <1>4 DEF Mail, MailRefused, MailAnswerLost, TypeOK
    <2> QED
      BY <1>4, <2>1, WorkGoesOn DEF Mail, MailRefused, MailAnswerLost
  <1>5. ASSUME NEW c \in Consumers, Deliver(c) \/ Retry(c) PROVE Working'
    <2>1. \A p \in delivery' : p \in delivery \/ p[1] = ev[c]
      BY <1>5 DEF Deliver, Retry, Recorded
    <2> QED
      BY <1>5, <2>1, WorkEnds DEF Deliver, Retry
  <1>6. ASSUME NEW c \in Consumers, NoRecipient(c) \/ Throw(c) \/ Crash(c) PROVE Working'
    BY <1>6, WorkEnds DEF NoRecipient, Throw, Crash
  <1> QED
    BY <1>1, <1>2, <1>3, <1>4, <1>5, <1>6, WorkBegins DEF Next, Work, Trouble

\* Steps that mail nobody, and take no mail off the record.
LEMMA SameCount ==
  ASSUME CInv, mailed' = mailed, mishaps' = mishaps,
         \A e \in Events, u \in Users : OnRecord(e, u) => OnRecord(e, u)'
  PROVE  Counted' /\ RepeatsOnlyAfterMishap'
  BY DEF CInv, Counted, RepeatsOnlyAfterMishap

\* An attempt that ends takes off the record at most what it wrote.
LEMMA RecordEnds ==
  ASSUME TypeOK, NEW c \in Consumers, NEW next \in {"idle", "claim"}, Release(c, next),
         delivery \subseteq delivery', NEW e \in Events, NEW u \in Users, OnRecord(e, u),
         ev[c] # e \/ u \notin wrote[c] \/ <<e, u>> \in delivery'
  PROVE  OnRecord(e, u)'
  <1>1. CASE <<e, u>> \in delivery'
    BY <1>1 DEF OnRecord
  <1>2. CASE <<e, u>> \notin delivery'
    <2>1. PICK d \in Consumers : pc[d] = "mail" /\ ev[d] = e /\ u \in wrote[d]
      BY <1>2 DEF OnRecord
    <2>2. d # c
      BY <1>2, <2>1
    <2> QED
      BY <2>1, <2>2, ReleaseEffect DEF OnRecord
  <1> QED
    BY <1>1, <1>2

\* Who is still to come was told on no record.
LEMMA ToComeNotOnRecord ==
  ASSUME TypeOK, HeldAlone, CInv, NEW c \in Consumers, pc[c] = "mail", NEW u \in todo[c]
  PROVE  ~OnRecord(ev[c], u) /\ mailed[<<ev[c], u>>] <= mishaps[ev[c]]
  <1>1. ev[c] \in Events /\ u \in Users
    BY DEF TypeOK
  <1>2. <<ev[c], u>> \notin delivery /\ u \notin wrote[c]
    BY <1>1 DEF CInv, Working, Told
  <1>3. \A d \in Consumers : pc[d] = "mail" /\ ev[d] = ev[c] => d = c
    BY WorkApart
  <1>4. ~OnRecord(ev[c], u)
    BY <1>2, <1>3 DEF OnRecord
  <1> QED
    BY <1>1, <1>4 DEF CInv, Counted

\* A mishap in the attempt of c, which keeps the mails of others on record.
LEMMA MishapCounts ==
  ASSUME TypeOK, HeldAlone, CInv, NEW c \in Consumers, pc[c] = "mail", mailed' = mailed,
         NEW next \in {"idle", "claim"}, Release(c, next), delivery' = delivery,
         mishaps' = [mishaps EXCEPT ![ev[c]] = @ + 1]
  PROVE  Counted' /\ RepeatsOnlyAfterMishap'
  <1> SUFFICES ASSUME NEW e \in Events, NEW u \in Users
               PROVE  /\ OnRecord(e, u)' \/ mailed'[<<e, u>>] <= mishaps'[e]
                      /\ mailed'[<<e, u>>] <= 1 + mishaps'[e]
    BY DEF Counted, RepeatsOnlyAfterMishap
  <1>1. mailed[<<e, u>>] \in Nat /\ mishaps[e] \in Nat /\ ev[c] \in Events
    BY DEF TypeOK, Pairs
  <1>2. /\ mailed[<<e, u>>] <= 1 + mishaps[e]
        /\ OnRecord(e, u) \/ mailed[<<e, u>>] <= mishaps[e]
    BY DEF CInv, Counted, RepeatsOnlyAfterMishap
  <1>3. CASE e = ev[c]
    <2>1. mishaps'[e] = mishaps[e] + 1
      BY <1>3 DEF TypeOK
    <2> QED
      BY <1>1, <1>2, <2>1
  <1>4. CASE e # ev[c]
    <2>1. mishaps'[e] = mishaps[e]
      BY <1>4 DEF TypeOK
    <2>2. OnRecord(e, u) => OnRecord(e, u)'
      BY <1>4, RecordEnds
    <2> QED
      BY <1>2, <2>1, <2>2
  <1> QED
    BY <1>3, <1>4

\* A mail that was accepted is on record from then on.
LEMMA MailCounts ==
  ASSUME TypeOK, HeldAlone, CInv, NEW c \in Consumers, NEW v \in Users, Mail(c, v)
  PROVE  Counted' /\ RepeatsOnlyAfterMishap'
  <1> SUFFICES ASSUME NEW e \in Events, NEW u \in Users
               PROVE  /\ OnRecord(e, u)' \/ mailed'[<<e, u>>] <= mishaps'[e]
                      /\ mailed'[<<e, u>>] <= 1 + mishaps'[e]
    BY DEF Counted, RepeatsOnlyAfterMishap
  <1>1. /\ mailed[<<e, u>>] \in Nat /\ mishaps[e] \in Nat /\ ev[c] \in Events
        /\ <<e, u>> \in Pairs /\ <<ev[c], v>> \in Pairs
    BY DEF TypeOK, Pairs
  <1>2. /\ pc[c] = "mail" /\ v \in todo[c] /\ mishaps' = mishaps
        /\ mailed' = [mailed EXCEPT ![<<ev[c], v>>] = @ + 1]
        /\ wrote' = [wrote EXCEPT ![c] = @ \cup {v}]
        /\ UNCHANGED <<delivery, pc, ev>>
    BY DEF Mail
  <1>3. CASE e = ev[c] /\ u = v
    <2>1. mailed'[<<e, u>>] = mailed[<<e, u>>] + 1
      BY <1>1, <1>2, <1>3 DEF TypeOK
    <2>2. mailed[<<e, u>>] <= mishaps[e]
      BY <1>2, <1>3, ToComeNotOnRecord
    <2>3. OnRecord(e, u)'
      BY <1>2, <1>3 DEF OnRecord, TypeOK
    <2> QED
      BY <1>1, <1>2, <2>1, <2>2, <2>3
  <1>4. CASE ~(e = ev[c] /\ u = v)
    <2>1. mailed'[<<e, u>>] = mailed[<<e, u>>]
      BY <1>1, <1>2, <1>4 DEF TypeOK
    <2>2. OnRecord(e, u) => OnRecord(e, u)'
      BY <1>2 DEF OnRecord, TypeOK
    <2> QED
      BY <1>2, <2>1, <2>2 DEF CInv, Counted, RepeatsOnlyAfterMishap
  <1> QED
    BY <1>3, <1>4

\* A mail whose answer is lost goes on no record, and is a mishap.
LEMMA LostAnswerCounts ==
  ASSUME TypeOK, HeldAlone, CInv, NEW c \in Consumers, NEW v \in Users, MailAnswerLost(c, v)
  PROVE  Counted' /\ RepeatsOnlyAfterMishap'
  <1> SUFFICES ASSUME NEW e \in Events, NEW u \in Users
               PROVE  /\ OnRecord(e, u)' \/ mailed'[<<e, u>>] <= mishaps'[e]
                      /\ mailed'[<<e, u>>] <= 1 + mishaps'[e]
    BY DEF Counted, RepeatsOnlyAfterMishap
  <1>1. /\ mailed[<<e, u>>] \in Nat /\ mishaps[e] \in Nat /\ ev[c] \in Events
        /\ <<e, u>> \in Pairs /\ <<ev[c], v>> \in Pairs
    BY DEF TypeOK, Pairs
  <1>2. /\ pc[c] = "mail" /\ v \in todo[c]
        /\ mishaps' = [mishaps EXCEPT ![ev[c]] = @ + 1]
        /\ mailed' = [mailed EXCEPT ![<<ev[c], v>>] = @ + 1]
        /\ UNCHANGED <<delivery, pc, ev, wrote>>
    BY DEF MailAnswerLost
  <1>3. /\ OnRecord(e, u) => OnRecord(e, u)'
        /\ mailed[<<e, u>>] <= 1 + mishaps[e]
        /\ OnRecord(e, u) \/ mailed[<<e, u>>] <= mishaps[e]
    BY <1>2 DEF OnRecord, CInv, Counted, RepeatsOnlyAfterMishap
  <1>4. mishaps'[e] \in {mishaps[e], mishaps[e] + 1} /\ (e = ev[c] => mishaps'[e] = mishaps[e] + 1)
    BY <1>1, <1>2 DEF TypeOK
  <1>5. CASE e = ev[c] /\ u = v
    <2>1. mailed'[<<e, u>>] = mailed[<<e, u>>] + 1
      BY <1>1, <1>2, <1>5 DEF TypeOK
    <2>2. mailed[<<e, u>>] <= mishaps[e]
      BY <1>2, <1>5, ToComeNotOnRecord
    <2> QED
      BY <1>1, <1>4, <1>5, <2>1, <2>2
  <1>6. CASE ~(e = ev[c] /\ u = v)
    <2>1. mailed'[<<e, u>>] = mailed[<<e, u>>]
      BY <1>1, <1>2, <1>6 DEF TypeOK
    <2> QED
      BY <1>1, <1>3, <1>4, <2>1
  <1> QED
    BY <1>5, <1>6

\* No step mails anybody twice without a mishap.
LEMMA StepCounted ==
  ASSUME IInv, CInv, [Next]_vars
  PROVE  Counted' /\ RepeatsOnlyAfterMishap'
  <1> DEFINE Goal == Counted' /\ RepeatsOnlyAfterMishap'
  <1> USE DEF IInv
  <1>1. CASE Tick \/ UNCHANGED vars \/ \E e \in Events : Escalate(e)
    BY <1>1, SameCount DEF Tick, Escalate, vars, held, OnRecord
  <1>2. ASSUME NEW e \in Events, NEW to \in {"acknowledged", "resolved"}, Settle(e, to) PROVE Goal
    BY <1>2, SameCount DEF Settle, held, OnRecord
  <1>3. ASSUME NEW c \in Consumers, StartPass(c) \/ EndPass(c) \/ \E e \in Events : Expire(c, e)
        PROVE  Goal
    <2>1. \A d \in Consumers : pc[d] = "mail" => pc'[d] = "mail"
      BY <1>3 DEF StartPass, EndPass, Expire, TypeOK
    <2> QED
      BY <1>3, <2>1, SameCount DEF StartPass, EndPass, Expire, OnRecord
  <1>4. ASSUME NEW c \in Consumers, NEW e \in Events, NEW R \in SUBSET Users, Claim(c, e, R)
        PROVE  Goal
    <2>1. pc[c] # "mail" /\ mailed' = mailed /\ mishaps' = mishaps /\ delivery' = delivery
      BY <1>4 DEF Claim
    <2>2. \A d \in Consumers : pc[d] = "mail" => pc'[d] = "mail" /\ ev'[d] = ev[d] /\ wrote'[d] = wrote[d]
      BY <1>4, <2>1 DEF Claim, TypeOK
    <2> QED
      BY <2>1, <2>2, SameCount DEF OnRecord
  <1>5. ASSUME NEW c \in Consumers, NEW u \in Users, MailRefused(c, u) PROVE Goal
    BY <1>5, SameCount DEF MailRefused, OnRecord
  <1>6. ASSUME NEW c \in Consumers, Deliver(c) \/ Retry(c) PROVE Goal
    <2>1. /\ Release(c, "claim") /\ mailed' = mailed /\ mishaps' = mishaps
          /\ delivery \subseteq delivery' /\ \A u \in wrote[c] : <<ev[c], u>> \in delivery'
      BY <1>6 DEF Deliver, Retry, Recorded
    <2>2. \A e \in Events, u \in Users : OnRecord(e, u) => OnRecord(e, u)'
      BY <2>1, RecordEnds
    <2> QED
      BY <2>1, <2>2, SameCount
  <1>7. ASSUME NEW c \in Consumers, NoRecipient(c) PROVE Goal
    <2>1. /\ Release(c, "claim") /\ mailed' = mailed /\ mishaps' = mishaps
          /\ delivery' = delivery /\ wrote[c] = {}
      BY <1>7 DEF NoRecipient, CInv, Working
    <2>2. \A e \in Events, u \in Users : OnRecord(e, u) => OnRecord(e, u)'
      BY <2>1, RecordEnds
    <2> QED
      BY <2>1, <2>2, SameCount
  <1>8. ASSUME NEW c \in Consumers, Throw(c) \/ Crash(c) PROVE Goal
    BY <1>8, MishapCounts DEF Throw, Crash
  <1> QED
    BY <1>1, <1>2, <1>3, <1>4, <1>5, <1>6, <1>7, <1>8, MailCounts, LostAnswerCounts
       DEF Next, Work, Trouble

\* Refusals, retries and a second consumer repeat no mail: only crashes, throws and lost
\* answers can, each one once.
THEOREM NobodyMailedTwice == Spec => []RepeatsOnlyAfterMishap
  <1>1. Init => CInv
    BY DEF Init, CInv, Working, Counted, RepeatsOnlyAfterMishap, Pairs
  <1>2. IInv /\ CInv /\ [Next]_vars => CInv'
    BY StepWorking, StepCounted DEF CInv
  <1>3. CInv => RepeatsOnlyAfterMishap
    BY DEF CInv
  <1> QED
    BY <1>1, <1>2, <1>3, Inductive, PTL DEF Spec

--------------------------------------------------------------------------------
(* The outbox implements Notifications. *)

\* Who was ever mailed about what.
WasMailed == {p \in Pairs : mailed[p] >= 1}

\* A mail more is one more pair, or none.
LEMMA MailedMore ==
  ASSUME TypeOK, NEW e \in Events, NEW u \in Users,
         mailed' = [mailed EXCEPT ![<<e, u>>] = @ + 1]
  PROVE  WasMailed' = WasMailed \cup {<<e, u>>}
  <1>1. /\ mailed \in [Pairs -> Nat]
        /\ <<e, u>> \in Pairs
    BY DEF TypeOK, Pairs
  <1>2. mailed'[<<e, u>>] >= 1 /\ \A p \in Pairs \ {<<e, u>>} : mailed'[p] = mailed[p]
    BY <1>1
  <1> QED
    BY <1>1, <1>2 DEF WasMailed

\* Every step of the outbox is a step of Notifications, or changes nothing it sees.
LEMMA StepKept ==
  ASSUME IInv, [Next]_vars
  PROVE  [Promise!Next]_(Promise!vars)
  <1> USE DEF IInv, Promise!vars, WasMailed
  <1> DEFINE Kept == [Promise!Next]_(Promise!vars)
             Quiet == state' = state /\ mailed' = mailed /\ delivery' = delivery
  <1>0. Quiet => Kept
    BY DEF Pairs
  <1> HIDE DEF Kept
  <1>1. ASSUME Tick PROVE Kept
    BY <1>0, <1>1 DEF Tick, rows
  <1>2. ASSUME NEW e \in Events, Escalate(e) PROVE Kept
    <2>1. Promise!Happen(e)
      BY <1>2 DEF Escalate, Promise!Happen, Pairs
    <2> QED
      BY <2>1 DEF Kept, Promise!Next
  <1>3. ASSUME NEW e \in Events, NEW to \in {"acknowledged", "resolved"}, Settle(e, to)
        PROVE  Kept
    BY <1>0, <1>3 DEF Settle, rows
  <1>4. ASSUME NEW c \in Consumers, StartPass(c) \/ EndPass(c) \/ Crash(c) PROVE Kept
    BY <1>0, <1>4 DEF StartPass, EndPass, Crash, rows
  <1>5. ASSUME NEW c \in Consumers, NEW e \in Events, Expire(c, e) PROVE Kept
    <2>1. Promise!Attempt(e, {}, "failed")
      BY <1>5 DEF Expire, Oldest, Claimable, Promise!Attempt, Pairs
    <2> QED
      BY <2>1 DEF Kept, Promise!Next
  <1>6. ASSUME NEW c \in Consumers, NEW e \in Events, NEW R \in SUBSET Users, Claim(c, e, R)
        PROVE  Kept
    BY <1>0, <1>6 DEF Claim, rows
  <1>7. ASSUME NEW c \in Consumers, NEW u \in Users, Mail(c, u) \/ MailAnswerLost(c, u)
        PROVE  Kept
    <2>1. PICK e \in Events : e = ev[c]
      BY DEF TypeOK
    <2>2. /\ state[e] = "pending" /\ state' = state /\ delivery' = delivery
          /\ mailed' = [mailed EXCEPT ![<<e, u>>] = @ + 1]
      BY <1>7, <2>1 DEF Mail, MailAnswerLost, HeldAlone, rows
    <2>3. WasMailed' = WasMailed \cup {<<e, u>>}
      BY <2>2, MailedMore
    <2>4. Promise!Mail(e, u)
      BY <2>2, <2>3 DEF Promise!Mail
    <2> QED
      BY <2>4 DEF Kept, Promise!Next
  <1>8. ASSUME NEW c \in Consumers, NEW u \in Users, MailRefused(c, u) PROVE Kept
    BY <1>0, <1>8 DEF MailRefused, rows
  <1>9. ASSUME NEW c \in Consumers, Deliver(c) \/ Retry(c) PROVE Kept
    <2>1. PICK e \in Events : e = ev[c]
      BY DEF TypeOK
    <2>2. PICK who \in SUBSET Users : who = wrote[c]
      BY DEF TypeOK
    <2>3. /\ state[e] = "pending" /\ mailed' = mailed
          /\ delivery' = delivery \cup ({e} \X who)
      BY <1>9, <2>1, <2>2 DEF Deliver, Retry, HeldAlone, Recorded
    <2>4. {e} \X who \subseteq WasMailed
      BY <1>9, <2>1, <2>2 DEF Deliver, Retry, HeldAlone, TypeOK, Pairs
    <2>5. PICK result \in {"pending", "delivered", "failed"} :
             state' = [state EXCEPT ![e] = result]
      BY <1>9, <2>1 DEF Deliver, Retry, Retried
    <2>6. Promise!Attempt(e, who, result)
      BY <2>3, <2>4, <2>5 DEF Promise!Attempt
    <2> QED
      BY <2>6 DEF Kept, Promise!Next
  <1>10. ASSUME NEW c \in Consumers, NoRecipient(c) \/ Throw(c) PROVE Kept
    <2>1. PICK e \in Events : e = ev[c]
      BY DEF TypeOK
    <2>2. state[e] = "pending" /\ mailed' = mailed /\ delivery' = delivery
      BY <1>10, <2>1 DEF NoRecipient, Throw, HeldAlone
    <2>3. PICK result \in {"pending", "delivered", "failed"} :
             state' = [state EXCEPT ![e] = result]
      BY <1>10, <2>1 DEF NoRecipient, Throw, Retried
    <2>4. Promise!Attempt(e, {}, result)
      BY <2>2, <2>3 DEF Promise!Attempt
    <2> QED
      BY <2>4 DEF Kept, Promise!Next
  <1>11. ASSUME UNCHANGED vars PROVE Kept
    BY <1>0, <1>11 DEF vars, rows
  <1>12. Next => Kept
    <2>1. ASSUME NEW c \in Consumers, Work(c) PROVE Kept
      BY <2>1, <1>4, <1>5, <1>6, <1>7, <1>9, <1>10 DEF Work
    <2>2. ASSUME NEW c \in Consumers, Trouble(c) PROVE Kept
      BY <2>2, <1>4, <1>7, <1>8, <1>10 DEF Trouble
    <2> QED
      BY <2>1, <2>2, <1>1, <1>2, <1>3, <1>4 DEF Next
  <1> QED
    BY <1>11, <1>12 DEF Kept

\* Whatever crashes, throws and refusals come, the outbox behaves as Notifications allows.
THEOREM Implements == Spec => PromiseKept
  <1>1. Init => Promise!Init
    BY DEF Init, Promise!Init, Pairs
  <1>2. IInv /\ [Next]_vars => [Promise!Next]_(Promise!vars)
    BY StepKept
  <1> QED
    BY <1>1, <1>2, Inductive, PTL DEF Spec, PromiseKept, Promise!Spec
================================================================================
