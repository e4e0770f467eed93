--------------------------- MODULE Delivery_proofs ---------------------------
(* What the outbox keeps, for any reviewers and any bounds: the recovery    *)
(* takes out only what it has sent or what is stale, and nothing that is    *)
(* owed leaves the outbox.                                                  *)
EXTENDS Delivery, TLAPS

Report(e) == <<"report", e>>
Note(r, e) == <<r, e>>

(* Every note that was saved and neither posted nor dropped by a forced     *)
(* transition is in the outbox, and so is the report of the present         *)
(* BLOCKED: whoever dies or fails between the send and the clearing, the    *)
(* next recovery finds them (_pending_notifications).                       *)
OwedIsStored ==
  /\ \A r \in Reviewers, e \in Nat : Note(r, e) \in owed => Note(r, e) \in pend.notes
  /\ Report(epoch) \in owed =>
       state = "BLOCKED" /\ pend.report = [st |-> "BLOCKED", at |-> epoch]

(* ------------------------ the inductive invariant ------------------------ *)

Outbox == {"impl", "review", "report", "notes"}

Shapes ==
  /\ epoch \in Nat
  /\ DOMAIN pend = Outbox
  /\ DOMAIN dog = {"pc", "mode", "st", "at", "held", "todo"}
  /\ dog.pc \in {"idle", "prune", "head", "send", "clear", "nudge"}
  /\ dog.pc \in {"prune", "send", "clear"} => DOMAIN dog.held = Outbox
  /\ dog.mode = "recover" => dog.pc \in {"prune", "send", "clear"}
  /\ DOMAIN cli = {"pc", "key", "at"}
  /\ cli.pc # "idle" => cli.key \in {"impl", "review"}
  /\ reviewed \in [Reviewers -> Nat]

(* Nobody has reviewed, and no report was asked for, in a state to come.    *)
Past ==
  /\ \A r \in Reviewers : reviewed[r] <= epoch
  /\ \A e \in Nat : Report(e) \in owed => e <= epoch
  /\ \A r \in Reviewers, e \in Nat :
       Note(r, e) \in pend.notes \/ Note(r, e) \in owed => e <= reviewed[r]

(* What the watchdog is about to send or to clear.                          *)
Held ==
  dog.pc \in {"prune", "send", "clear"} =>
    /\ \A r \in Reviewers, e \in Nat : Note(r, e) \in dog.held.notes => e <= reviewed[r]
    /\ Report(epoch) \in owed => dog.held.report = [st |-> "BLOCKED", at |-> epoch]

(* What it is about to clear is owed no more.                               *)
Sending ==
  dog.pc = "clear" =>
    /\ Head(dog.todo) = "notes" =>
         \A r \in Reviewers, e \in Nat : Note(r, e) \in dog.held.notes => Note(r, e) \notin owed
    /\ Head(dog.todo) = "report" => Report(epoch) \notin owed

OutboxInv == Shapes /\ Past /\ Held /\ Sending /\ OwedIsStored
(* -------------------------------- the steps ------------------------------ *)

LEMMA Names ==
  /\ Implementer \notin Reviewers /\ "report" \notin Reviewers
  /\ \A e, f \in Nat, r, q \in Reviewers :
       /\ Note(r, e) # Report(f)
       /\ Note(r, e) = Note(q, f) => r = q /\ e = f
  /\ \A e, f \in Nat : Report(e) = Report(f) => e = f
<1>1. Implementer \notin Reviewers /\ "report" \notin Reviewers
  BY AgentsAssumption
<1>. QED
  BY <1>1 DEF Note, Report

LEMMA Known ==
  ASSUME OutboxInv
  PROVE  Shapes /\ Past /\ Held /\ Sending /\ OwedIsStored
BY DEF OutboxInv

LEMMA Beginning ==
  Init => OutboxInv
<1>. SUFFICES ASSUME Init PROVE OutboxInv
  OBVIOUS
<1>1. Shapes
  BY DEF Init, Shapes, Outbox, Empty, Resting, NoCommand
<1>2. Past
  BY DEF Init, Past, Empty, None
<1>3. Held
  BY DEF Init, Held, Empty, Resting
<1>4. Sending
  BY DEF Init, Sending, Empty, Resting
<1>5. OwedIsStored
  BY DEF Init, OwedIsStored
<1>. QED
  BY <1>1, <1>2, <1>3, <1>4, <1>5 DEF OutboxInv

LEMMA WithoutTakes ==
  ASSUME NEW p, DOMAIN p = Outbox, NEW s
  PROVE  /\ DOMAIN Without(p, Stale(s, p)) = Outbox
         /\ Without(p, Stale(s, p)).notes = p.notes
         /\ s = "BLOCKED" => Without(p, Stale(s, p)).report = p.report
         /\ \A k \in Outbox :
              Without(p, Stale(s, p))[k] = IF k \in Stale(s, p) THEN None ELSE p[k]
BY DEF Without, Stale, Keys, Outbox

LEMMA LookKeeps ==
  ASSUME OutboxInv, Look
  PROVE  OutboxInv'
<1>1. Shapes'
  BY Known, Names DEF Look, Resting, agents, Shapes, Outbox
<1>2. Past'
  BY Known, Names DEF Look, Resting, agents, Shapes, Outbox, Past
<1>3. Held'
  <2>1. dog'.held = pend /\ owed' = owed /\ epoch' = epoch /\ reviewed' = reviewed
    BY DEF Look, Resting, agents
  <2>. QED
    BY <2>1, Known DEF Held, Past, OwedIsStored
<1>4. Sending'
  BY Known, Names DEF Look, Resting, agents, Shapes, Outbox, Sending
<1>5. OwedIsStored'
  BY Known, Names DEF Look, Resting, agents, Shapes, Outbox, OwedIsStored
<1>. QED
  BY <1>1, <1>2, <1>3, <1>4, <1>5 DEF OutboxInv

LEMMA PruneKeeps ==
  ASSUME OutboxInv, Prune
  PROVE  OutboxInv'
<1>1. /\ UNCHANGED <<state, epoch, cli, reviewed, owed>>
      /\ dog.pc = "prune" /\ DOMAIN dog.held = Outbox
  BY Known DEF Prune, Shapes, agents
<1>2. /\ DOMAIN pend' = Outbox /\ pend'.notes = pend.notes
      /\ state = "BLOCKED" => pend'.report = pend.report
  <2>1. pend' = pend \/ pend' = Without(pend, Stale(state, pend))
    BY DEF Prune
  <2>. QED
    BY <2>1, Known, WithoutTakes DEF Shapes
<1>3. \/ dog' = Resting
      \/ /\ state = dog.st
         /\ \E todo : dog' = [dog EXCEPT !.pc = "send", !.todo = todo,
                               !.held = Without(@, Stale(state, @))]
  BY DEF Prune
<1>4. \/ dog' = Resting
      \/ /\ dog'.pc = "send" /\ DOMAIN dog' = DOMAIN dog /\ dog'.mode = dog.mode
         /\ dog'.held = Without(dog.held, Stale(state, dog.held))
  BY <1>3, Known DEF Shapes
<1>5. \/ dog' = Resting
      \/ /\ dog'.pc = "send" /\ DOMAIN dog' = DOMAIN dog /\ dog'.mode = dog.mode
         /\ DOMAIN dog'.held = Outbox /\ dog'.held.notes = dog.held.notes
         /\ state = "BLOCKED" => dog'.held.report = dog.held.report
  BY <1>1, <1>4, WithoutTakes
<1>6. Shapes'
  BY <1>1, <1>2, <1>5, Known DEF Shapes, Resting
<1>7. Past'
  BY <1>1, <1>2, Known DEF Past
<1>8. Held'
  BY <1>1, <1>2, <1>5, Known DEF Held, Resting, OwedIsStored
<1>9. Sending'
  BY <1>5 DEF Sending, Resting
<1>10. OwedIsStored'
  BY <1>1, <1>2, Known DEF OwedIsStored
<1>. QED
  BY <1>6, <1>7, <1>8, <1>9, <1>10 DEF OutboxInv

LEMMA NextKeyKeeps ==
  ASSUME Shapes
  PROVE  \/ NextKey(dog) = Resting
         \/ /\ NextKey(dog).pc = "send" /\ DOMAIN NextKey(dog) = DOMAIN dog
            /\ NextKey(dog).mode = dog.mode /\ NextKey(dog).held = dog.held
BY DEF NextKey, Shapes

LEMMA ClearNextKeeps ==
  ASSUME OutboxInv, ClearNext
  PROVE  OutboxInv'
<1>1. /\ UNCHANGED <<state, epoch, cli, reviewed, owed>>
      /\ dog.pc = "clear" /\ dog' = NextKey(dog)
  BY DEF ClearNext, agents
<1>2. \/ Head(dog.todo) = "notes" /\ pend' = [pend EXCEPT !.notes = @ \ dog.held.notes]
      \/ Head(dog.todo) # "notes" /\ pend' = [pend EXCEPT ![Head(dog.todo)] = None]
      \/ pend' = pend
  BY DEF ClearNext
<1>3. /\ DOMAIN pend' = Outbox
      /\ \/ pend'.notes = pend.notes
         \/ Head(dog.todo) = "notes" /\ pend'.notes = pend.notes \ dog.held.notes
      /\ pend'.report = pend.report \/ Head(dog.todo) = "report"
  <2>. DOMAIN pend = Outbox
    BY Known DEF Shapes
  <2>. DEFINE k == Head(dog.todo)
  <2>1. CASE k = "notes" /\ pend' = [pend EXCEPT !.notes = @ \ dog.held.notes]
    BY <2>1 DEF Outbox
  <2>2. CASE k # "notes" /\ pend' = [pend EXCEPT ![k] = None]
    <3>. HIDE DEF k
    <3>. QED
      BY <2>2 DEF Outbox, k
  <2>. QED
    BY <1>2, <2>1, <2>2
<1>4. Shapes'
  BY <1>1, <1>3, Known, NextKeyKeeps DEF Shapes, Resting
<1>5. Past'
  BY <1>1, <1>3, Known DEF Past
<1>6. Held'
  BY <1>1, Known, NextKeyKeeps DEF Held, Resting
<1>7. Sending'
  BY <1>1, Known, NextKeyKeeps DEF Sending, Resting
<1>8. OwedIsStored'
  BY <1>1, <1>3, Known DEF OwedIsStored, Sending
<1>. QED
  BY <1>4, <1>5, <1>6, <1>7, <1>8 DEF OutboxInv

LEMMA HoldKeeps ==
  ASSUME OutboxInv, Hold
  PROVE  OutboxInv'
<1>1. Shapes'
  BY Known, Names DEF Hold, Resting, agents, Shapes, Outbox
<1>2. Past'
  BY Known, Names DEF Hold, Resting, agents, Shapes, Outbox, Past
<1>3. Held'
  BY Known, Names DEF Hold, Resting, agents, Shapes, Outbox, Held, OwedIsStored
<1>4. Sending'
  BY Known, Names DEF Hold, Resting, agents, Shapes, Outbox, Sending
<1>5. OwedIsStored'
  BY Known, Names DEF Hold, Resting, agents, Shapes, Outbox, OwedIsStored
<1>. QED
  BY <1>1, <1>2, <1>3, <1>4, <1>5 DEF OutboxInv

LEMMA NudgeKeeps ==
  ASSUME OutboxInv, Nudge
  PROVE  OutboxInv'
<1>1. Shapes'
  BY Known, Names DEF Nudge, Resting, agents, Shapes, Outbox
<1>2. Past'
  BY Known, Names DEF Nudge, Resting, agents, Shapes, Outbox, Past
<1>3. Held'
  BY Known, Names DEF Nudge, Resting, agents, Shapes, Outbox, Held, OwedIsStored
<1>4. Sending'
  BY Known, Names DEF Nudge, Resting, agents, Shapes, Outbox, Sending
<1>5. OwedIsStored'
  BY Known, Names DEF Nudge, Resting, agents, Shapes, Outbox, OwedIsStored
<1>. QED
  BY <1>1, <1>2, <1>3, <1>4, <1>5 DEF OutboxInv

LEMMA DogDiesKeeps ==
  ASSUME OutboxInv, DogDies
  PROVE  OutboxInv'
<1>1. Shapes'
  BY Known, Names DEF DogDies, Resting, agents, Shapes, Outbox
<1>2. Past'
  BY Known, Names DEF DogDies, Resting, agents, Shapes, Outbox, Past
<1>3. Held'
  BY Known, Names DEF DogDies, Resting, agents, Shapes, Outbox, Held, OwedIsStored
<1>4. Sending'
  BY Known, Names DEF DogDies, Resting, agents, Shapes, Outbox, Sending
<1>5. OwedIsStored'
  BY Known, Names DEF DogDies, Resting, agents, Shapes, Outbox, OwedIsStored
<1>. QED
  BY <1>1, <1>2, <1>3, <1>4, <1>5 DEF OutboxInv

LEMMA CommandClearsKeeps ==
  ASSUME OutboxInv, CommandClears
  PROVE  OutboxInv'
<1>1. Shapes'
  BY Known, Names DEF CommandClears, NoCommand, None, agents, Shapes, Outbox
<1>2. Past'
  BY Known, Names DEF CommandClears, NoCommand, None, agents, Shapes, Outbox, Past
<1>3. Held'
  BY Known, Names DEF CommandClears, NoCommand, None, agents, Shapes, Outbox, Held, OwedIsStored
<1>4. Sending'
  BY Known, Names DEF CommandClears, NoCommand, None, agents, Shapes, Outbox, Sending
<1>5. OwedIsStored'
  BY Known, Names DEF CommandClears, NoCommand, None, agents, Shapes, Outbox, OwedIsStored
<1>. QED
  BY <1>1, <1>2, <1>3, <1>4, <1>5 DEF OutboxInv

LEMMA CommandDiesKeeps ==
  ASSUME OutboxInv, CommandDies
  PROVE  OutboxInv'
<1>1. Shapes'
  BY Known, Names DEF CommandDies, NoCommand, agents, Shapes, Outbox
<1>2. Past'
  BY Known, Names DEF CommandDies, NoCommand, agents, Shapes, Outbox, Past
<1>3. Held'
  BY Known, Names DEF CommandDies, NoCommand, agents, Shapes, Outbox, Held, OwedIsStored
<1>4. Sending'
  BY Known, Names DEF CommandDies, NoCommand, agents, Shapes, Outbox, Sending
<1>5. OwedIsStored'
  BY Known, Names DEF CommandDies, NoCommand, agents, Shapes, Outbox, OwedIsStored
<1>. QED
  BY <1>1, <1>2, <1>3, <1>4, <1>5 DEF OutboxInv

LEMMA EnableKeeps ==
  ASSUME OutboxInv, Enable
  PROVE  OutboxInv'
<1>1. Shapes'
  BY Known, Names DEF Enable, agents, Shapes, Outbox
<1>2. Past'
  BY Known, Names DEF Enable, agents, Shapes, Outbox, Past
<1>3. Held'
  BY Known, Names DEF Enable, agents, Shapes, Outbox, Held, OwedIsStored
<1>4. Sending'
  BY Known, Names DEF Enable, agents, Shapes, Outbox, Sending
<1>5. OwedIsStored'
  BY Known, Names DEF Enable, agents, Shapes, Outbox, OwedIsStored
<1>. QED
  BY <1>1, <1>2, <1>3, <1>4, <1>5 DEF OutboxInv

LEMMA PassKeeps ==
  ASSUME OutboxInv, Pass
  PROVE  OutboxInv'
<1>1. Shapes'
  BY Known, Names DEF Pass, agents, Shapes, Outbox
<1>2. Past'
  BY Known, Names DEF Pass, agents, Shapes, Outbox, Past
<1>3. Held'
  BY Known, Names DEF Pass, agents, Shapes, Outbox, Held, OwedIsStored
<1>4. Sending'
  BY Known, Names DEF Pass, agents, Shapes, Outbox, Sending
<1>5. OwedIsStored'
  BY Known, Names DEF Pass, agents, Shapes, Outbox, OwedIsStored
<1>. QED
  BY <1>1, <1>2, <1>3, <1>4, <1>5 DEF OutboxInv

LEMMA WorkKeeps ==
  ASSUME OutboxInv, Work
  PROVE  OutboxInv'
<1>1. Shapes'
  BY Known, Names DEF Work, agents, Shapes, Outbox
<1>2. Past'
  BY Known, Names DEF Work, agents, Shapes, Outbox, Past
<1>3. Held'
  BY Known, Names DEF Work, agents, Shapes, Outbox, Held, OwedIsStored
<1>4. Sending'
  BY Known, Names DEF Work, agents, Shapes, Outbox, Sending
<1>5. OwedIsStored'
  BY Known, Names DEF Work, agents, Shapes, Outbox, OwedIsStored
<1>. QED
  BY <1>1, <1>2, <1>3, <1>4, <1>5 DEF OutboxInv

(* ------------------------- the steps into a state ------------------------ *)

LEMMA Asked ==
  ASSUME NEW s, NEW b
  PROVE  /\ Requests(s, b) \subseteq Keys
         /\ Requests(s, FALSE) \subseteq {"impl", "review"}
         /\ s = "BLOCKED" => Requests(s, TRUE) = {"impl", "report"}
BY DEF Requests, Keys, Working, Asking

LEMMA MergedKeeps ==
  ASSUME NEW p, DOMAIN p = Outbox, NEW s, NEW ks \in SUBSET Keys
  PROVE  /\ DOMAIN Merged(p, s, ks) = Outbox
         /\ Merged(p, s, ks).notes = p.notes
         /\ "report" \in ks => Merged(p, s, ks).report = [st |-> s, at |-> epoch + 1]
BY DEF Merged, Outbox, Keys

LEMMA ForcedDrops ==
  ASSUME OutboxInv, NEW s, Forced(s)
  PROVE  /\ epoch' = epoch + 1 /\ DOMAIN pend' = Outbox /\ pend'.notes = {}
         /\ owed' = owed \ pend.notes
<1>1. DOMAIN Empty = Outbox /\ Empty.notes = {}
  BY DEF Empty, Outbox
<1>2. pend' = Merged(Empty, s, Requests(s, FALSE)) /\ epoch' = epoch + 1
  BY DEF Forced, Enter
<1>. QED
  BY <1>1, <1>2, Asked, MergedKeeps DEF Forced

(* A state is entered: what is owed and stored before is so after it.       *)
LEMMA Entered ==
  ASSUME OutboxInv, epoch' = epoch + 1, UNCHANGED reviewed,
         \/ pend'.notes = pend.notes /\ owed' = owed
         \/ pend'.notes = {} /\ owed' = owed \ pend.notes
  PROVE  Past' /\ OwedIsStored' /\ Report(epoch') \notin owed'
<1>1. epoch \in Nat /\ reviewed \in [Reviewers -> Nat]
  BY Known DEF Shapes
<1>2. Report(epoch') \notin owed'
  BY <1>1, Known DEF Past
<1>3. Past'
  <2>1. \A r \in Reviewers : reviewed'[r] <= epoch'
    BY <1>1, Known DEF Past
  <2>2. \A e \in Nat : Report(e) \in owed' => e <= epoch'
    BY <1>1, Known DEF Past
  <2>3. \A r \in Reviewers, e \in Nat :
          Note(r, e) \in pend'.notes \/ Note(r, e) \in owed' => e <= reviewed'[r]
    BY Known DEF Past
  <2>. QED
    BY <2>1, <2>2, <2>3 DEF Past
<1>4. OwedIsStored'
  BY <1>2, Known DEF OwedIsStored
<1>. QED
  BY <1>2, <1>3, <1>4

(* Owed things are delivered, and nothing else changes.                     *)
LEMMA Delivers ==
  ASSUME OutboxInv, UNCHANGED <<state, epoch, pend, reviewed>>, owed' \subseteq owed
  PROVE  Past' /\ OwedIsStored'
<1>1. Past'
  BY Known DEF Past
<1>2. OwedIsStored'
  BY Known DEF OwedIsStored
<1>. QED
  BY <1>1, <1>2

(* notify_reviewers, by whoever sends.                                      *)
LEMMA AskReviewersKeeps ==
  ASSUME OutboxInv, NEW at, AskReviewers(at), UNCHANGED reviewed
  PROVE  /\ epoch' \in Nat /\ DOMAIN pend' = Outbox /\ Past' /\ OwedIsStored'
         /\ owed' \subseteq owed
         /\ \/ UNCHANGED <<epoch, pend, owed>>
            \/ epoch' = epoch + 1 /\ Report(epoch') \notin owed'
<1>1. \/ \E s : Forced(s)
      \/ UNCHANGED <<state, epoch, pend, owed>>
  BY DEF AskReviewers
<1>2. ASSUME NEW s, Forced(s)
      PROVE  /\ epoch' \in Nat /\ DOMAIN pend' = Outbox /\ Past' /\ OwedIsStored'
             /\ owed' \subseteq owed
             /\ epoch' = epoch + 1 /\ Report(epoch') \notin owed'
  BY <1>2, ForcedDrops, Entered, Known DEF Shapes
<1>3. CASE UNCHANGED <<state, epoch, pend, owed>>
  <2>1. Past' /\ OwedIsStored'
    BY <1>3, Delivers
  <2>2. epoch \in Nat /\ DOMAIN pend = Outbox
    BY Known DEF Shapes
  <2>3. epoch' = epoch /\ pend' = pend /\ owed' = owed
    BY <1>3
  <2>. QED
    BY <2>1, <2>2, <2>3
<1>. QED
  BY <1>1, <1>2, <1>3

LEMMA SendNextKeeps ==
  ASSUME OutboxInv, SendNext
  PROVE  OutboxInv'
<1>. DEFINE k == Head(dog.todo)
<1>1. dog.pc = "send" /\ UNCHANGED <<cli, reviewed>>
  BY DEF SendNext, agents
<1>2. /\ epoch' \in Nat /\ DOMAIN pend' = Outbox /\ Past' /\ OwedIsStored'
      /\ owed' \subseteq owed
      /\ \/ UNCHANGED <<epoch, pend>>
         \/ epoch' = epoch + 1 /\ Report(epoch') \notin owed'
  <2>1. CASE AskReviewers(dog.held.review.at)
    BY <2>1, <1>1, AskReviewersKeeps
  <2>2. CASE UNCHANGED <<state, epoch, late, pend>> /\ owed' \subseteq owed
    <3>1. epoch \in Nat /\ DOMAIN pend = Outbox
      BY Known DEF Shapes
    <3>2. state' = state /\ epoch' = epoch /\ pend' = pend
      BY <2>2
    <3>3. Past' /\ OwedIsStored'
      BY <1>1, <2>2, <3>2, Delivers
    <3>. QED
      BY <2>2, <3>1, <3>2, <3>3
  <2>. QED
    BY <2>1, <2>2 DEF SendNext
<1>3. \/ dog' = Resting
      \/ /\ dog'.pc = "send" /\ DOMAIN dog' = DOMAIN dog
         /\ dog'.mode = dog.mode /\ dog'.held = dog.held
      \/ /\ dog' = [dog EXCEPT !.pc = "clear"]
         /\ k = "report" => owed' = owed \ {Report(dog.held.report.at)}
         /\ k # "notes"
      \/ /\ k = "notes" /\ epoch' = epoch
         /\ \E lost \in SUBSET dog.held.notes :
              /\ dog' = [dog EXCEPT !.pc = "clear", !.held.notes = @ \ lost]
              /\ owed' = owed \ (dog.held.notes \ lost)
  BY NextKeyKeeps, Known DEF SendNext, Report
<1>. HIDE DEF k
<1>4. \/ dog' = Resting
      \/ /\ dog'.pc = "send" /\ DOMAIN dog' = DOMAIN dog
         /\ dog'.mode = dog.mode /\ dog'.held = dog.held
      \/ /\ dog'.pc = "clear" /\ DOMAIN dog' = DOMAIN dog
         /\ dog'.mode = dog.mode /\ dog'.todo = dog.todo
         /\ dog'.held = dog.held
         /\ k = "report" => owed' = owed \ {Report(dog.held.report.at)}
         /\ k # "notes"
      \/ /\ dog'.pc = "clear" /\ DOMAIN dog' = DOMAIN dog
         /\ dog'.mode = dog.mode /\ dog'.todo = dog.todo
         /\ DOMAIN dog'.held = Outbox /\ dog'.held.report = dog.held.report
         /\ k = "notes" /\ epoch' = epoch
         /\ dog'.held.notes \subseteq dog.held.notes
         /\ owed' \cap dog'.held.notes = {}
  <2>. DOMAIN dog.held = Outbox /\ "pc" \in DOMAIN dog /\ "held" \in DOMAIN dog
    BY <1>1, Known DEF Shapes
  <2>1. ASSUME NEW lost \in SUBSET dog.held.notes,
               dog' = [dog EXCEPT !.pc = "clear", !.held.notes = @ \ lost]
        PROVE  /\ dog'.pc = "clear" /\ DOMAIN dog' = DOMAIN dog
               /\ dog'.mode = dog.mode /\ dog'.todo = dog.todo
               /\ dog'.held = [dog.held EXCEPT !.notes = @ \ lost]
    BY <2>1, Known DEF Shapes
  <2>2. ASSUME NEW lost \in SUBSET dog.held.notes,
               dog'.held = [dog.held EXCEPT !.notes = @ \ lost]
        PROVE  /\ DOMAIN dog'.held = Outbox /\ dog'.held.report = dog.held.report
               /\ dog'.held.notes = dog.held.notes \ lost
    BY <2>2 DEF Outbox
  <2>3. ASSUME dog' = [dog EXCEPT !.pc = "clear"]
        PROVE  /\ dog'.pc = "clear" /\ DOMAIN dog' = DOMAIN dog
               /\ dog'.mode = dog.mode /\ dog'.todo = dog.todo
               /\ dog'.held = dog.held
    BY <2>3, Known DEF Shapes
  <2>. QED
    BY <1>3, <2>1, <2>2, <2>3
<1>5. Shapes'
  BY <1>1, <1>2, <1>4, Known DEF Shapes, Resting
<1>6. Held'
  BY <1>1, <1>2, <1>4, Known DEF Held, Resting
<1>7. Sending'
  BY <1>1, <1>2, <1>4, Known DEF Sending, Held, Resting, k
<1>. QED
  BY <1>2, <1>5, <1>6, <1>7 DEF OutboxInv

LEMMA AdvanceKeeps ==
  ASSUME OutboxInv, Advance
  PROVE  OutboxInv'
<1>1. /\ UNCHANGED <<cli, reviewed>>
      /\ dog.pc = "head"
  BY DEF Advance, agents
<1>2. PICK s \in Following \cup Early \cup {"REVISE"}, ks \in SUBSET Keys :
        LET todo == SelectSeq(<<"report", "impl", "review">>, LAMBDA k : k \in ks) IN
        /\ ks = Requests(s, TRUE) \/ s = "REVISE"
        /\ Enter(s, pend, ks)
        /\ owed' = IF s = "BLOCKED" THEN owed \cup {Report(epoch + 1)} ELSE owed
        /\ dog' = IF todo = <<>> THEN Resting
                  ELSE [pc |-> "send", mode |-> "fresh", st |-> s, at |-> epoch + 1,
                        held |-> pend', todo |-> todo]
  BY DEF Advance, Report
<1>3. /\ epoch \in Nat /\ epoch' = epoch + 1 /\ state' = s
      /\ DOMAIN pend' = Outbox /\ pend'.notes = pend.notes
      /\ s = "BLOCKED" => pend'.report = [st |-> "BLOCKED", at |-> epoch']
  <2>1. epoch \in Nat /\ DOMAIN pend = Outbox
    BY Known DEF Shapes
  <2>2. epoch' = epoch + 1 /\ state' = s /\ pend' = Merged(pend, s, ks)
    BY <1>2 DEF Enter
  <2>3. s = "BLOCKED" => "report" \in ks
    BY <1>2, Asked
  <2>4. /\ DOMAIN Merged(pend, s, ks) = Outbox
        /\ Merged(pend, s, ks).notes = pend.notes
        /\ s = "BLOCKED" => Merged(pend, s, ks).report = [st |-> s, at |-> epoch + 1]
    BY <2>1, <2>3, MergedKeeps, Zenon
  <2>. QED
    BY <2>1, <2>2, <2>4
<1>4. \/ dog' = Resting
      \/ /\ dog'.pc = "send" /\ dog'.mode = "fresh" /\ dog'.held = pend'
         /\ DOMAIN dog' = {"pc", "mode", "st", "at", "held", "todo"}
  <2>. DEFINE todo == SelectSeq(<<"report", "impl", "review">>, LAMBDA k : k \in ks)
  <2>1. \/ dog' = Resting
        \/ dog' = [pc |-> "send", mode |-> "fresh", st |-> s, at |-> epoch + 1,
                   held |-> pend', todo |-> todo]
    BY <1>2
  <2>. HIDE DEF todo
  <2>. QED
    BY <2>1
<1>5. Shapes'
  BY <1>1, <1>3, <1>4, Known DEF Shapes, Resting
<1>6. Past'
  <2>1. \A r \in Reviewers : reviewed'[r] <= epoch'
    BY <1>1, <1>3, Known DEF Past, Shapes
  <2>2. \A e \in Nat : Report(e) \in owed' => e <= epoch'
    BY <1>2, <1>3, Known, Names DEF Past
  <2>3. \A r \in Reviewers, e \in Nat :
          Note(r, e) \in pend'.notes \/ Note(r, e) \in owed' => e <= reviewed'[r]
    BY <1>1, <1>2, <1>3, Known, Names DEF Past
  <2>. QED
    BY <2>1, <2>2, <2>3 DEF Past
<1>7. OwedIsStored'
  <2>1. \A r \in Reviewers, e \in Nat : Note(r, e) \in owed' => Note(r, e) \in owed
    BY <1>2, <1>3, Names
  <2>2. Report(epoch + 1) \notin owed
    BY <1>3, Known DEF Past
  <2>. QED
    BY <1>2, <1>3, <2>1, <2>2, Known DEF OwedIsStored
<1>8. Held'
  BY <1>4, <1>6, <1>7 DEF Held, Resting, Past, OwedIsStored
<1>9. Sending'
  BY <1>4 DEF Sending, Resting
<1>. QED
  BY <1>5, <1>6, <1>7, <1>8, <1>9 DEF OutboxInv

LEMMA CommandKeeps ==
  ASSUME OutboxInv, NEW s, NEW how, Command(s, how)
  PROVE  OutboxInv'
<1>1. UNCHANGED <<dog, reviewed>>
  BY DEF Command, agents
<1>2. /\ epoch' = epoch + 1 /\ DOMAIN pend' = Outbox
      /\ \/ pend'.notes = pend.notes /\ owed' = owed
         \/ pend'.notes = {} /\ owed' = owed \ pend.notes
  <2>1. CASE Forced(s)
    BY <2>1, ForcedDrops
  <2>2. CASE /\ Enter(s, Without(pend, Stale(s, pend)), Requests(s, FALSE))
             /\ owed' = owed
    <3>1. DOMAIN pend = Outbox
      BY Known DEF Shapes
    <3>2. /\ DOMAIN Without(pend, Stale(s, pend)) = Outbox
          /\ Without(pend, Stale(s, pend)).notes = pend.notes
      BY <3>1, WithoutTakes, Zenon
    <3>3. Requests(s, FALSE) \in SUBSET Keys
      BY Asked
    <3>4. /\ DOMAIN Merged(Without(pend, Stale(s, pend)), s, Requests(s, FALSE)) = Outbox
          /\ Merged(Without(pend, Stale(s, pend)), s, Requests(s, FALSE)).notes = pend.notes
      BY <3>2, <3>3, MergedKeeps, Zenon
    <3>5. /\ epoch' = epoch + 1
          /\ pend' = Merged(Without(pend, Stale(s, pend)), s, Requests(s, FALSE))
      BY <2>2 DEF Enter
    <3>. QED
      BY <2>2, <3>4, <3>5
  <2>. QED
    BY <2>1, <2>2 DEF Command
<1>3. Past' /\ OwedIsStored' /\ Report(epoch') \notin owed'
  BY <1>1, <1>2, Entered
<1>4. DOMAIN cli' = {"pc", "key", "at"} /\ (cli'.pc # "idle" => cli'.key \in {"impl", "review"})
  <2>1. CASE cli' = NoCommand
    BY <2>1 DEF NoCommand
  <2>2. ASSUME Requests(s, FALSE) # {},
               cli' = [pc |-> "send", key |-> CHOOSE k \in Requests(s, FALSE) : TRUE,
                       at |-> epoch + 1]
        PROVE  DOMAIN cli' = {"pc", "key", "at"} /\ cli'.key \in {"impl", "review"}
    <3>1. (CHOOSE k \in Requests(s, FALSE) : TRUE) \in Requests(s, FALSE)
      BY <2>2
    <3>. QED
      BY <2>2, <3>1, Asked
  <2>. QED
    BY <2>1, <2>2 DEF Command
<1>5. Shapes'
  BY <1>1, <1>2, <1>4, Known DEF Shapes
<1>6. Held'
  BY <1>1, <1>3, Known DEF Held
<1>7. Sending'
  <2>1. owed' \subseteq owed
    BY <1>2
  <2>. QED
    BY <1>1, <1>3, <2>1, Known DEF Sending
<1>. QED
  BY <1>3, <1>5, <1>6, <1>7 DEF OutboxInv

LEMMA CommandSendsKeeps ==
  ASSUME OutboxInv, CommandSends
  PROVE  OutboxInv'
<1>1. UNCHANGED <<dog, reviewed>>
  BY DEF CommandSends, agents
<1>2. /\ epoch' \in Nat /\ DOMAIN pend' = Outbox /\ Past' /\ OwedIsStored'
      /\ owed' \subseteq owed
      /\ \/ UNCHANGED <<epoch, pend, owed>>
         \/ epoch' = epoch + 1 /\ Report(epoch') \notin owed'
  <2>1. CASE AskReviewers(cli.at)
    BY <2>1, <1>1, AskReviewersKeeps
  <2>2. CASE UNCHANGED <<state, epoch, late, pend>> /\ owed' = owed
    <3>1. epoch \in Nat /\ DOMAIN pend = Outbox
      BY Known DEF Shapes
    <3>2. state' = state /\ epoch' = epoch /\ pend' = pend
      BY <2>2
    <3>3. Past' /\ OwedIsStored'
      BY <1>1, <2>2, <3>2, Delivers
    <3>. QED
      BY <2>2, <3>1, <3>2, <3>3
  <2>. QED
    BY <2>1, <2>2 DEF CommandSends
<1>3. \/ cli' = NoCommand
      \/ cli.pc = "send" /\ cli' = [cli EXCEPT !.pc = "clear"]
  BY DEF CommandSends
<1>4. Shapes'
  BY <1>1, <1>2, <1>3, Known DEF Shapes, NoCommand
<1>5. Held'
  BY <1>1, <1>2, Known DEF Held
<1>6. Sending'
  BY <1>1, <1>2, Known DEF Sending
<1>. QED
  BY <1>2, <1>4, <1>5, <1>6 DEF OutboxInv

LEMMA ReviewKeeps ==
  ASSUME OutboxInv, NEW r \in Reviewers, Review(r)
  PROVE  OutboxInv'
<1>1. UNCHANGED <<state, epoch, dog, cli>>
  BY DEF Review
<1>2. /\ epoch \in Nat /\ reviewed \in [Reviewers -> Nat] /\ DOMAIN pend = Outbox
  BY Known DEF Shapes
<1>3. reviewed[r] < epoch /\ reviewed' = [reviewed EXCEPT ![r] = epoch]
  BY <1>2, Known DEF Review, Past
<1>4. /\ DOMAIN pend' = Outbox /\ pend'.notes = pend.notes \cup {Note(r, epoch)}
      /\ pend'.report = pend.report
      /\ owed' = owed \cup {Note(r, epoch)}
  BY <1>2 DEF Review, Note, Outbox
<1>5. Shapes'
  BY <1>1, <1>2, <1>3, <1>4, Known DEF Shapes
<1>6. Past'
  <2>1. \A q \in Reviewers : reviewed'[q] <= epoch'
    BY <1>1, <1>2, <1>3, Known DEF Past
  <2>2. \A e \in Nat : Report(e) \in owed' => e <= epoch'
    BY <1>1, <1>2, <1>4, Known, Names DEF Past
  <2>3. \A q \in Reviewers, e \in Nat :
          Note(q, e) \in pend'.notes \/ Note(q, e) \in owed' => e <= reviewed'[q]
    BY <1>2, <1>3, <1>4, Known, Names DEF Past
  <2>. QED
    BY <2>1, <2>2, <2>3 DEF Past
<1>7. OwedIsStored'
  BY <1>1, <1>2, <1>4, Known, Names DEF OwedIsStored
<1>8. Held'
  BY <1>1, <1>2, <1>3, <1>4, Known, Names DEF Held
<1>9. Sending'
  <2>1. dog.pc = "clear" => Note(r, epoch) \notin dog.held.notes
    BY <1>2, <1>3, Known DEF Held
  <2>. QED
    BY <1>1, <1>2, <1>4, <2>1, Known, Names DEF Sending
<1>. QED
  BY <1>5, <1>6, <1>7, <1>8, <1>9 DEF OutboxInv

LEMMA PostKeeps ==
  ASSUME OutboxInv, NEW r \in Reviewers, Post(r)
  PROVE  OutboxInv'
<1>1. UNCHANGED <<state, epoch, dog, cli, reviewed>>
  BY DEF Post, agents
<1>2. DOMAIN pend = Outbox
  BY Known DEF Shapes
<1>3. /\ owed' \subseteq owed
      /\ DOMAIN pend' = Outbox /\ pend'.report = pend.report
      /\ \/ pend'.notes = pend.notes
         \/ \E note : pend'.notes = pend.notes \ {note} /\ owed' = owed \ {note}
  BY <1>2 DEF Post, Outbox
<1>4. Shapes'
  BY <1>1, <1>3, Known DEF Shapes
<1>5. Past'
  BY <1>1, <1>3, Known DEF Past
<1>6. OwedIsStored'
  BY <1>1, <1>3, Known DEF OwedIsStored
<1>7. Held'
  BY <1>1, <1>3, Known DEF Held
<1>8. Sending'
  BY <1>1, <1>3, Known DEF Sending
<1>. QED
  BY <1>4, <1>5, <1>6, <1>7, <1>8 DEF OutboxInv

LEMMA Stuttering ==
  ASSUME OutboxInv, UNCHANGED vars
  PROVE  OutboxInv'
<1>1. UNCHANGED <<state, epoch, pend, dog, cli, reviewed, owed>>
  BY DEF vars
<1>. QED
  BY <1>1 DEF OutboxInv, Shapes, Past, Held, Sending, OwedIsStored

LEMMA StepKeeps ==
  ASSUME OutboxInv, [Next]_vars
  PROVE  OutboxInv'
BY LookKeeps, PruneKeeps, SendNextKeeps, ClearNextKeeps, AdvanceKeeps, HoldKeeps,
   NudgeKeeps, DogDiesKeeps, CommandKeeps, CommandSendsKeeps, CommandClearsKeeps,
   CommandDiesKeeps, EnableKeeps, PassKeeps, WorkKeeps, ReviewKeeps, PostKeeps,
   Stuttering
DEF Next, Tick

LEMMA Always ==
  Spec => []OutboxInv
BY Beginning, StepKeeps, PTL DEF Spec

(* -------------------------------- theorems ------------------------------- *)

(* Nothing that is owed leaves the outbox, whatever fails or dies and       *)
(* whoever else sends, clears and recovers (pipeline_io,                    *)
(* _recover_pending_notifications): a saved note stays there until it is    *)
(* posted or a forced transition drops it, the report of a BLOCKED until it *)
(* is requested or the state is left.                                       *)
THEOREM OwedStaysStored ==
  Spec => []OwedIsStored
<1>1. OutboxInv => OwedIsStored
  BY DEF OutboxInv
<1>. QED
  BY <1>1, Always, PTL

(* The recovery takes out of the outbox only what it has sent (or an entry  *)
(* that reads the same) and what contradicts the state; what was stored     *)
(* meanwhile is kept (_conditional_clear_pending).                          *)
THEOREM RecoveryIsCareful ==
  Spec => RecoveryKeepsNewer
<1>. DEFINE A == dog # dog' /\ dog.mode = "recover" /\ epoch = epoch' =>
                   \A k \in Keys : pend[k] # None /\ pend'[k] = None =>
                     \/ dog.pc = "clear" /\ k = Head(dog.todo) /\ pend[k].st = dog.held[k].st
                     \/ k \in Stale(state, pend)
<1>1. ASSUME OutboxInv, [Next]_vars PROVE A
  <2>. SUFFICES ASSUME dog # dog', dog.mode = "recover", epoch = epoch',
                       NEW k \in Keys, pend[k] # None, pend'[k] = None
                PROVE  \/ dog.pc = "clear" /\ k = Head(dog.todo) /\ pend[k].st = dog.held[k].st
                       \/ k \in Stale(state, pend)
    OBVIOUS
  <2>0. epoch \in Nat /\ DOMAIN pend = Outbox /\ dog.pc \in {"prune", "send", "clear"}
    BY <1>1, Known DEF Shapes
  <2>1. k \in Outbox /\ k # "notes"
    BY DEF Keys, Outbox
  <2>2. Prune \/ SendNext \/ ClearNext \/ DogDies
    BY <1>1, <2>0 DEF Next, Tick, vars, Look, Advance, Hold, Nudge, Command, CommandSends,
       CommandClears, CommandDies, Enable, Pass, Work, Review, Post
  <2>3. CASE Prune
    <3>1. pend' = pend \/ pend' = Without(pend, Stale(state, pend))
      BY <2>3 DEF Prune
    <3>. QED
      BY <2>0, <2>1, <3>1, WithoutTakes
  <2>4. ~ SendNext
    <3>. SUFFICES ASSUME SendNext PROVE FALSE
      OBVIOUS
    <3>1. AskReviewers(dog.held.review.at) \/ UNCHANGED pend
      BY DEF SendNext
    <3>2. (\E s : Forced(s)) \/ UNCHANGED pend
      BY <3>1 DEF AskReviewers
    <3>3. ASSUME NEW s, Forced(s) PROVE FALSE
      <4>1. epoch' = epoch + 1
        BY <1>1, <3>3, ForcedDrops
      <4>. QED
        BY <2>0, <4>1
    <3>4. pend' # pend
      OBVIOUS
    <3>. QED
      BY <3>2, <3>3, <3>4, Zenon
  <2>5. CASE ClearNext
    <3>1. Head(dog.todo) # "notes"
      BY <2>0, <2>1, <2>5 DEF ClearNext
    <3>2. PICK same \in SameText(pend, Head(dog.todo)) :
            pend' = IF same THEN [pend EXCEPT ![Head(dog.todo)] = None] ELSE pend
      BY <2>5, <3>1 DEF ClearNext
    <3>3. same /\ k = Head(dog.todo)
      BY <2>0, <2>1, <3>2
    <3>4. pend[k] = dog.held[k] \/ pend[k].st = dog.held[k].st
      BY <3>2, <3>3 DEF SameText
    <3>. QED
      BY <2>5, <3>3, <3>4 DEF ClearNext
  <2>6. ~ DogDies
    BY DEF DogDies
  <2>. QED
    BY <2>2, <2>3, <2>4, <2>5, <2>6
<1>. QED
  BY <1>1, Always, PTL DEF Spec, RecoveryKeepsNewer
==============================================================================
