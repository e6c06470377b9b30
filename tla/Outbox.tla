--------------------------------- MODULE Outbox ---------------------------------
(***************************************************************************)
(* OutboxConsumer and IncidentNotifyHandler (src/events, src/incident):    *)
(* the escalations waiting in domain_event are claimed one at a time,      *)
(* mailed to the people who should know, and settled or retried later.     *)
(*                                                                         *)
(* One event is one transaction, from the claim to the commit, with the    *)
(* handler's own writes inside a savepoint.  A consumer's claim, its mails *)
(* and its commit are steps of their own; a mail cannot be taken back, the *)
(* rest of the transaction can.  nextAt = 0 is a null next_attempt_at.     *)
(***************************************************************************)
EXTENDS Integers, FiniteSets

CONSTANTS
    Events,      \* the incident.escalated.v1 events that may come
    LevelTwo,    \* those of level 2: sent even when the incident is acknowledged
    Users,
    Consumers,   \* processes with a notify timer
    Nobody,
    MaxAttempts, \* MAX_ATTEMPTS
    Backoff,     \* Backoff[n]: BACKOFF_MINUTES after the n-th failure
    MaxAge,      \* MAX_EVENT_AGE_MS
    Limit,       \* limit of pass()
    Horizon,     \* bound: the last minute
    Budget       \* bound: how often each fault may still happen

Faults == {"crash", "throw", "refusal", "lostAnswer"}

ASSUME OutboxAssumption ==
    /\ Events # {} /\ LevelTwo \subseteq Events
    /\ Nobody \notin Consumers
    /\ MaxAttempts \in Nat \ {0}
    /\ Backoff \in [1..MaxAttempts -> Nat]
    /\ MaxAge \in Nat /\ Limit \in Nat \ {0} /\ Horizon \in Nat
    /\ Budget \in [Faults -> Nat]

VARIABLES
    now,
    state,     \* delivery_state, "none" before the event is written
    occurred,  \* occurred_at
    attempts,
    nextAt,    \* next_attempt_at
    lock,      \* who holds the event's row
    stage,     \* the incident of the event: "open", "acknowledged", "resolved"
    delivery,  \* notification_delivery, committed
    mailed,    \* ghost: how often each person was mailed about each event
    owedTo,    \* ghost: whom the last attempt found should be told
    mishaps,   \* ghost: crashes, throws and lost answers during each event's attempts
    pc, passNow, taken,  \* each consumer's pass
    ev,        \* the event it holds
    todo,      \* recipients it has not come to
    wrote,     \* deliveries written inside the savepoint
    refused,   \* whether a mail was not accepted
    left

rows == <<state, occurred, attempts, nextAt>>
held == <<passNow, taken, ev, todo, wrote, refused>>
vars == <<now, rows, lock, stage, delivery, mailed, owedTo, mishaps, pc, held, left>>

Event == CHOOSE e \in Events : TRUE
Pairs == Events \X Users

TypeOK ==
    /\ now \in 0..Horizon
    /\ state \in [Events -> {"none", "pending", "delivered", "failed"}]
    /\ occurred \in [Events -> 0..Horizon]
    /\ attempts \in [Events -> 0..MaxAttempts]
    /\ nextAt \in [Events -> Nat]
    /\ lock \in [Events -> Consumers \cup {Nobody}]
    /\ stage \in [Events -> {"open", "acknowledged", "resolved"}]
    /\ delivery \in SUBSET Pairs
    /\ mailed \in [Pairs -> Nat]
    /\ owedTo \in [Events -> SUBSET Users]
    /\ mishaps \in [Events -> Nat]
    /\ pc \in [Consumers -> {"idle", "claim", "mail"}]
    /\ passNow \in [Consumers -> 0..Horizon]
    /\ taken \in [Consumers -> 0..Limit]
    /\ ev \in [Consumers -> Events]
    /\ todo \in [Consumers -> SUBSET Users]
    /\ wrote \in [Consumers -> SUBSET Users]
    /\ refused \in [Consumers -> BOOLEAN]
    /\ left \in [Faults -> Nat]

Init ==
    /\ now = 0
    /\ state = [e \in Events |-> "none"]
    /\ occurred = [e \in Events |-> 0]
    /\ attempts = [e \in Events |-> 0]
    /\ nextAt = [e \in Events |-> 0]
    /\ lock = [e \in Events |-> Nobody]
    /\ stage = [e \in Events |-> "open"]
    /\ delivery = {}
    /\ mailed = [p \in Pairs |-> 0]
    /\ owedTo = [e \in Events |-> {}]
    /\ mishaps = [e \in Events |-> 0]
    /\ pc = [c \in Consumers |-> "idle"]
    /\ passNow = [c \in Consumers |-> 0]
    /\ taken = [c \in Consumers |-> 0]
    /\ ev = [c \in Consumers |-> Event]
    /\ todo = [c \in Consumers |-> {}]
    /\ wrote = [c \in Consumers |-> {}]
    /\ refused = [c \in Consumers |-> FALSE]
    /\ left = Budget

Spend(f) == left[f] > 0 /\ left' = [left EXCEPT ![f] = @ - 1]

--------------------------------------------------------------------------------
(* The world around the consumer. *)

Tick ==
    /\ now < Horizon
    /\ now' = now + 1
    /\ UNCHANGED <<rows, lock, stage, delivery, mailed, owedTo, mishaps, pc, held, left>>

\* The escalation sweep writes the event (IncidentDesk!EscalateOverdue).
Escalate(e) ==
    /\ state[e] = "none"
    /\ state' = [state EXCEPT ![e] = "pending"]
    /\ occurred' = [occurred EXCEPT ![e] = now]
    /\ UNCHANGED <<now, attempts, nextAt, lock, stage, delivery, mailed, owedTo, mishaps,
                   pc, held, left>>

\* Somebody acknowledges or resolves the incident, at any moment.
Settle(e, to) ==
    /\ state[e] # "none"
    /\ \/ stage[e] = "open" /\ to = "acknowledged"
       \/ stage[e] # "resolved" /\ to = "resolved"
    /\ stage' = [stage EXCEPT ![e] = to]
    /\ UNCHANGED <<now, rows, lock, delivery, mailed, owedTo, mishaps, pc, held, left>>

--------------------------------------------------------------------------------
(* OutboxConsumer.pass and one. *)

\* tick() drops a tick while this process is in a pass; a pass reads its clock once.
StartPass(c) ==
    /\ pc[c] = "idle"
    /\ pc' = [pc EXCEPT ![c] = "claim"]
    /\ passNow' = [passNow EXCEPT ![c] = now]
    /\ taken' = [taken EXCEPT ![c] = 0]
    /\ UNCHANGED <<now, rows, lock, stage, delivery, mailed, owedTo, mishaps,
                   ev, todo, wrote, refused, left>>

\* Mutated forms: rows others have locked; settled rows; a wait that ends too late.
ClaimableLocked(c) == {e \in Events : state[e] = "pending" /\ nextAt[e] <= passNow[c]}
ClaimableSettled(c) ==
    {e \in Events : state[e] # "none" /\ lock[e] = Nobody /\ nextAt[e] <= passNow[c]}
ClaimableLater(c) ==
    {e \in Events : state[e] = "pending" /\ lock[e] = Nobody /\ nextAt[e] < passNow[c]}

\* The oldest pending event that is due and that nobody has locked.
Claimable(c) ==
    {e \in Events : state[e] = "pending" /\ lock[e] = Nobody /\ nextAt[e] <= passNow[c]}
Oldest(c) == {e \in Claimable(c) : \A f \in Claimable(c) : occurred[e] <= occurred[f]}

EndPass(c) ==
    /\ pc[c] = "claim"
    /\ Claimable(c) = {} \/ taken[c] = Limit
    /\ pc' = [pc EXCEPT ![c] = "idle"]
    /\ passNow' = [passNow EXCEPT ![c] = 0]
    /\ taken' = [taken EXCEPT ![c] = 0]
    /\ UNCHANGED <<now, rows, lock, stage, delivery, mailed, owedTo, mishaps,
                   ev, todo, wrote, refused, left>>

TooOld(c, e) == passNow[c] - occurred[e] > MaxAge

Expire(c, e) ==
    /\ pc[c] = "claim"
    /\ taken[c] < Limit
    /\ e \in Oldest(c)
    /\ TooOld(c, e)
    /\ state' = [state EXCEPT ![e] = "failed"]
    /\ nextAt' = [nextAt EXCEPT ![e] = 0]
    /\ taken' = [taken EXCEPT ![c] = @ + 1]
    /\ UNCHANGED <<now, occurred, attempts, lock, stage, delivery, mailed, owedTo, mishaps,
                   pc, passNow, ev, todo, wrote, refused, left>>

\* The claim, and the handler's reads: the incident, who should know, who was told.
Skips(e) == stage[e] = "resolved" \/ (e \notin LevelTwo /\ stage[e] = "acknowledged")
\* Mutated form: a retry does not look at who was told.
ToldNobody(e) == {u \in {} : <<e, u>> \in delivery}

Told(e) == {u \in Users : <<e, u>> \in delivery}

Claim(c, e, recipients) ==
    /\ pc[c] = "claim"
    /\ taken[c] < Limit
    /\ e \in Oldest(c)
    /\ ~TooOld(c, e)
    /\ lock' = [lock EXCEPT ![e] = c]
    /\ pc' = [pc EXCEPT ![c] = "mail"]
    /\ taken' = [taken EXCEPT ![c] = @ + 1]
    /\ ev' = [ev EXCEPT ![c] = e]
    /\ owedTo' = [owedTo EXCEPT ![e] = IF Skips(e) THEN {} ELSE recipients]
    /\ todo' = [todo EXCEPT ![c] = IF Skips(e) THEN {} ELSE recipients \ Told(e)]
    /\ wrote' = [wrote EXCEPT ![c] = {}]
    /\ refused' = [refused EXCEPT ![c] = ~Skips(e) /\ recipients = {}]
    /\ UNCHANGED <<now, rows, stage, delivery, mailed, mishaps, passNow, left>>

\* The provider accepts a mail, and the delivery is written.
Mail(c, u) ==
    /\ pc[c] = "mail"
    /\ u \in todo[c]
    /\ todo' = [todo EXCEPT ![c] = @ \ {u}]
    /\ wrote' = [wrote EXCEPT ![c] = @ \cup {u}]
    /\ mailed' = [mailed EXCEPT ![<<ev[c], u>>] = @ + 1]
    /\ UNCHANGED <<now, rows, lock, stage, delivery, owedTo, mishaps, pc, passNow, taken, ev,
                   refused, left>>

\* The provider refuses it, or accepts it and the answer is lost: false either way.
MailRefused(c, u) ==
    /\ pc[c] = "mail"
    /\ u \in todo[c]
    /\ Spend("refusal")
    /\ todo' = [todo EXCEPT ![c] = @ \ {u}]
    /\ refused' = [refused EXCEPT ![c] = TRUE]
    /\ UNCHANGED <<now, rows, lock, stage, delivery, mailed, owedTo, mishaps, pc, passNow,
                   taken, ev, wrote>>

MailAnswerLost(c, u) ==
    /\ pc[c] = "mail"
    /\ u \in todo[c]
    /\ Spend("lostAnswer")
    /\ todo' = [todo EXCEPT ![c] = @ \ {u}]
    /\ refused' = [refused EXCEPT ![c] = TRUE]
    /\ mailed' = [mailed EXCEPT ![<<ev[c], u>>] = @ + 1]
    /\ mishaps' = [mishaps EXCEPT ![ev[c]] = @ + 1]
    /\ UNCHANGED <<now, rows, lock, stage, delivery, owedTo, pc, passNow, taken, ev, wrote>>

\* Mutated form: one attempt too many.
GivesUpLate(n) == n > MaxAttempts

\* The rows after a failed attempt: final at the last one, else due again after a wait.
GivesUp(n) == n >= MaxAttempts

Retried(c, e) ==
    LET n == attempts[e] + 1 IN
    /\ attempts' = [attempts EXCEPT ![e] = n]
    /\ state' = [state EXCEPT ![e] = IF GivesUp(n) THEN "failed" ELSE "pending"]
    /\ nextAt' = [nextAt EXCEPT ![e] = IF GivesUp(n) THEN 0 ELSE passNow[c] + Backoff[n]]
    /\ UNCHANGED occurred

\* The row lock goes with the transaction, and with it all the handler had in hand.
Release(c, next) ==
    /\ lock' = [lock EXCEPT ![ev[c]] = Nobody]
    /\ pc' = [pc EXCEPT ![c] = next]
    /\ ev' = [ev EXCEPT ![c] = Event]
    /\ todo' = [todo EXCEPT ![c] = {}]
    /\ wrote' = [wrote EXCEPT ![c] = {}]
    /\ refused' = [refused EXCEPT ![c] = FALSE]

\* Mutated forms: the delivery is not recorded; or recorded whatever was sent.
NotRecorded(e, who) == delivery
AllRecorded(e, who) == delivery \cup ({e} \X Users)

Recorded(e, who) == delivery \cup ({e} \X who)

\* Everybody was mailed, or the incident needs nobody any more.
Deliver(c) ==
    /\ pc[c] = "mail"
    /\ todo[c] = {}
    /\ ~refused[c]
    /\ delivery' = Recorded(ev[c], wrote[c])
    /\ state' = [state EXCEPT ![ev[c]] = "delivered"]
    /\ nextAt' = [nextAt EXCEPT ![ev[c]] = 0]
    /\ Release(c, "claim")
    /\ UNCHANGED <<now, occurred, attempts, stage, mailed, owedTo, mishaps, passNow, taken, left>>

\* Nobody can receive it: final at once.
NoRecipient(c) ==
    /\ pc[c] = "mail"
    /\ refused[c]
    /\ owedTo[ev[c]] = {}
    /\ state' = [state EXCEPT ![ev[c]] = "failed"]
    /\ attempts' = [attempts EXCEPT ![ev[c]] = @ + 1]
    /\ nextAt' = [nextAt EXCEPT ![ev[c]] = 0]
    /\ Release(c, "claim")
    /\ UNCHANGED <<now, occurred, stage, delivery, mailed, owedTo, mishaps, passNow, taken, left>>

\* Some mail was not accepted; what was sent is kept on record.
Retry(c) ==
    /\ pc[c] = "mail"
    /\ todo[c] = {}
    /\ refused[c]
    /\ owedTo[ev[c]] # {}
    /\ delivery' = Recorded(ev[c], wrote[c])
    /\ Retried(c, ev[c])
    /\ Release(c, "claim")
    /\ UNCHANGED <<now, stage, mailed, owedTo, mishaps, passNow, taken, left>>

\* The handler throws: its writes are rolled back to the savepoint, the retry is recorded.
Throw(c) ==
    /\ pc[c] = "mail"
    /\ Spend("throw")
    /\ Retried(c, ev[c])
    /\ mishaps' = [mishaps EXCEPT ![ev[c]] = @ + 1]
    /\ Release(c, "claim")
    /\ UNCHANGED <<now, stage, delivery, mailed, owedTo, passNow, taken>>

\* The process dies: the transaction with everything it wrote is gone, the mails are not.
Crash(c) ==
    /\ pc[c] = "mail"
    /\ Spend("crash")
    /\ mishaps' = [mishaps EXCEPT ![ev[c]] = @ + 1]
    /\ Release(c, "idle")
    /\ passNow' = [passNow EXCEPT ![c] = 0]
    /\ taken' = [taken EXCEPT ![c] = 0]
    /\ UNCHANGED <<now, rows, stage, delivery, mailed, owedTo>>

--------------------------------------------------------------------------------
Work(c) ==
    \/ EndPass(c) \/ Deliver(c) \/ NoRecipient(c) \/ Retry(c)
    \/ \E e \in Events : Expire(c, e) \/ \E R \in SUBSET Users : Claim(c, e, R)
    \/ \E u \in Users : Mail(c, u)

Trouble(c) ==
    \/ Throw(c) \/ Crash(c)
    \/ \E u \in Users : MailRefused(c, u) \/ MailAnswerLost(c, u)

Next ==
    \/ Tick
    \/ \E e \in Events : Escalate(e) \/ \E to \in {"acknowledged", "resolved"} : Settle(e, to)
    \/ \E c \in Consumers : StartPass(c) \/ Work(c) \/ Trouble(c)

Spec == Init /\ [][Next]_vars

\* The timer of each process keeps firing, a pass that began goes on, time passes.
FairSpec ==
    /\ Spec
    /\ WF_vars(Tick)
    /\ \A c \in Consumers : WF_vars(StartPass(c)) /\ WF_vars(Work(c))

--------------------------------------------------------------------------------
(* Properties. *)

\* Safety: while a consumer works on an event it alone holds it, the event is pending, and
\* what it wrote it has mailed.  The core of the inductive invariant.
HeldAlone ==
    \A c \in Consumers : pc[c] = "mail" =>
        /\ lock[ev[c]] = c
        /\ state[ev[c]] = "pending"
        /\ \A u \in wrote[c] : mailed[<<ev[c], u>>] >= 1

\* Safety: an event is marked delivered only when everybody the last attempt found should
\* be told has a delivery on record, and a delivery is on record only of an accepted mail.
DeliveredMeansTold ==
    /\ \A e \in Events : state[e] = "delivered" => owedTo[e] \subseteq Told(e)
    /\ \A p \in delivery : mailed[p] >= 1

\* Safety: nobody is mailed twice about one event, unless a crash, a throw or a lost answer
\* came between: refusals, retries and a second consumer repeat nothing.  (The handler's
\* "each recipient gets one email" does not hold of a throw, which takes the record of the
\* mails already accepted back to the savepoint.)
RepeatsOnlyAfterMishap ==
    \A e \in Events, u \in Users : mailed[<<e, u>>] <= 1 + mishaps[e]

\* Action property: a settled event is final, and stays with the attempts it took.
SettledIsFinal ==
    [][\A e \in Events : state[e] \in {"delivered", "failed"} =>
          state'[e] = state[e] /\ attempts'[e] = attempts[e]]_vars

\* Liveness: every event is settled in the end, however many attempts fail (one whose next
\* attempt is due only after the last minute is out of the model's time).
EveryEventSettles ==
    \A e \in Events :
        state[e] = "pending" ~> state[e] \in {"delivered", "failed"} \/ nextAt[e] > Horizon

\* The outbox keeps the promise of Notifications: consumers, retries and crashes included.
Promise == INSTANCE Notifications WITH
    outcome <- state, mailed <- {p \in Pairs : mailed[p] >= 1}, recorded <- delivery
PromiseKept == Promise!Spec
================================================================================
