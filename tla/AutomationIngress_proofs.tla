----------------------- MODULE AutomationIngress_proofs -----------------------
(***************************************************************************)
(* Proofs about AutomationIngress, for every set of messages, sources and  *)
(* owners and any number of deliveries, faults and edits: what a sender is *)
(* told is so, and all deliveries under one key are one job.               *)
(*                                                                         *)
(* Consistent is inductive.  The table of events admits no two events that *)
(* clash, and what a handler knows of the event it has found, or has told  *)
(* its sender of it, is kept by every step, because rows are only added.   *)
(***************************************************************************)
EXTENDS AutomationIngress, TLAPS

USE IngressAssumption, RowAssumption

\* No two events of one source may have one key or one sender's id.
Clash(m, n) ==
    /\ Content[m].source = Content[n].source
    /\ \/ Content[m].key = Content[n].key
       \/ Content[m].eventId # None /\ Content[n].eventId = Content[m].eventId

SourceOf(d) == Content[d[1]].source

\* An owner in a row is the owner of the source.
Owns(d, owner) == sources[SourceOf(d)] # None /\ sources[SourceOf(d)].owner = owner

EventsStand ==
    \A e \in Deliveries :
        events[e] # None =>
            /\ events[e].message = e[1]
            /\ events[e].source = SourceOf(e)
            /\ Owns(e, events[e].owner)

EventsAreUnique ==
    \A e, f \in Deliveries :
        events[e] # None /\ events[f] # None /\ Clash(e[1], f[1]) => e = f

RunsAreAccepted == \A e \in runs : events[e] # None /\ events[e].status = "accepted"

\* The delivery d is of the event e.
Same(d, e) ==
    /\ e \in Deliveries /\ events[e] # None
    /\ Fingerprint(e[1]) = Fingerprint(d[1])

HandlerKnows(d) ==
    /\ handler[d].at \in {"existing", "insert", "duplicate"} =>
          Owns(d, handler[d].owner) /\ handler[d].status \in {"accepted", "rejected"}
    /\ handler[d].at \in {"run", "create", "created"} =>
          Same(d, handler[d].event) /\ events[handler[d].event].status = "accepted"

AnswerHolds(d) ==
    LET e == handler[d].event IN
    /\ handler[d].at # "done" => handler[d].reply = "none"
    /\ handler[d].reply = "queued" => Same(d, e) /\ e \in runs
    /\ handler[d].reply = "ignored" => Same(d, e) /\ events[e].status = "rejected"
    /\ handler[d].reply = "conflict" =>
          /\ e \in Deliveries /\ events[e] # None
          /\ Clash(e[1], d[1]) /\ Fingerprint(e[1]) # Fingerprint(d[1])

StoreStands == EventsStand /\ EventsAreUnique /\ RunsAreAccepted

Consistent ==
    /\ TypeOK
    /\ StoreStands
    /\ \A d \in Deliveries : HandlerKnows(d) /\ AnswerHolds(d)

-----------------------------------------------------------------------------
(* Types.                                                                   *)

LEMMA DeliveryParts ==
    ASSUME NEW d \in Deliveries
    PROVE  /\ d[1] \in Messages /\ SourceOf(d) \in Sources
           /\ Content[d[1]].source \in Sources
BY DEF Deliveries, SourceOf

LEMMA GoTypes ==
    ASSUME TypeOK, NEW d \in Deliveries, NEW at \in Awaiting, Go(d, at)
    PROVE  handler' \in [Deliveries -> Handler]
BY DEF TypeOK, Handler, Go

LEMMA AnswerTypes ==
    ASSUME TypeOK, NEW d \in Deliveries, NEW reply \in Reply,
           NEW event \in Deliveries \cup {None}, Answer(d, reply, event)
    PROVE  handler' \in [Deliveries -> Handler]
<1>1. handler \in [Deliveries -> Handler] /\ handler[d] \in Handler
  BY DEF TypeOK
<1>2. [handler[d] EXCEPT !.at = "done", !.reply = reply, !.event = event] \in Handler
  BY <1>1 DEF Handler
<1> QED BY <1>1, <1>2 DEF Answer

LEMMA AdmittedTypes ==
    ASSUME TypeOK, NEW d \in Deliveries, NEW row \in Source,
           NEW status \in {"accepted", "rejected"}, Admitted(d, row, status)
    PROVE  handler' \in [Deliveries -> Handler]
<1>1. handler \in [Deliveries -> Handler] /\ handler[d] \in Handler
  BY DEF TypeOK
<1>2. row.owner \in Owners /\ "existing" \in Awaiting
  BY DEF Source, Awaiting
<1>3. [handler[d] EXCEPT !.at = "existing", !.owner = row.owner, !.status = status] \in Handler
  BY <1>1, <1>2 DEF Handler
<1> QED BY <1>1, <1>3 DEF Admitted

LEMMA MatchingEvents ==
    ASSUME TypeOK, NEW d \in Deliveries, NEW e \in Matching(d)
    PROVE  e \in Deliveries /\ events[e] # None /\ events[e] \in Event
BY DEF Matching, TypeOK

LEMMA EventRowTypes ==
    ASSUME TypeOK, NEW d \in Deliveries, handler[d].owner # None, handler[d].status # "none"
    PROVE  EventRow(d) \in Event /\ EventRow(d) # None
<1>1. handler[d] \in Handler
  BY DEF TypeOK
<1>2. handler[d].owner \in Owners /\ handler[d].status \in {"accepted", "rejected"}
  BY <1>1 DEF Handler
<1>3. EventRow(d) \in Event
  BY <1>2, DeliveryParts DEF EventRow, Event
<1> QED BY <1>3

LEMMA RecordedTypes ==
    ASSUME TypeOK, NEW d \in Deliveries, NEW e \in Deliveries, NEW status, Recorded(d, e, status)
    PROVE  handler' \in [Deliveries -> Handler]
<1>1. CASE Answer(d, "ignored", e)
  BY <1>1, AnswerTypes DEF Reply
<1>2. CASE handler' = [handler EXCEPT ![d].at = "run", ![d].event = e]
  <2>1. handler \in [Deliveries -> Handler] /\ handler[d] \in Handler /\ "run" \in Awaiting
    BY DEF TypeOK, Awaiting
  <2>2. [handler[d] EXCEPT !.at = "run", !.event = e] \in Handler
    BY <2>1 DEF Handler
  <2> QED BY <1>2, <2>1, <2>2
<1> QED BY <1>1, <1>2 DEF Recorded

LEMMA ExistingTypes ==
    ASSUME TypeOK, NEW d \in Deliveries, NEW e \in Deliveries, Existing(d, e)
    PROVE  handler' \in [Deliveries -> Handler]
<1>1. CASE Answer(d, "conflict", e)
  BY <1>1, AnswerTypes DEF Reply
<1> QED BY <1>1, RecordedTypes DEF Existing

LEMMA HandleTypes ==
    ASSUME TypeOK, NEW d \in Deliveries, Handle(d),
           HandlerKnows(d)
    PROVE  TypeOK'
<1>1. /\ {"queued", "ignored", "conflict", "refused", "failed"} \subseteq Reply
      /\ {"insert", "duplicate", "create", "created"} \subseteq Awaiting
  BY DEF Reply, Awaiting
<1>2. UNCHANGED <<sources, sent, faults, edits>>
  BY DEF Handle, CheckTriggerSource, CheckWebhookSource, FindExistingEvent, InsertEvent,
         FindDuplicateEvent, FindRun, CreateRun, FindCreatedRun
<1>3. handler' \in [Deliveries -> Handler] /\ UNCHANGED <<events, runs>>
      => TypeOK'
  BY <1>2 DEF TypeOK
<1>4. sources[SourceOf(d)] # None => sources[SourceOf(d)] \in Source
  BY DeliveryParts DEF TypeOK
<1>5. CASE CheckTriggerSource(d)
  <2>1. CASE Answer(d, "refused", None)
    BY <1>1, <1>3, <1>5, <2>1, AnswerTypes DEF CheckTriggerSource
  <2>2. CASE TriggerSourceForToken(sources[SourceOf(d)], Content[d[1]])
             /\ Admitted(d, sources[SourceOf(d)], "accepted")
    BY <1>3, <1>4, <1>5, <2>2, AdmittedTypes DEF CheckTriggerSource, TriggerSourceForToken
  <2> QED BY <1>5, <2>1, <2>2 DEF CheckTriggerSource, SourceOf
<1>6. CASE CheckWebhookSource(d)
  <2>1. CASE Answer(d, "refused", None) \/ Answer(d, "failed", None)
    BY <1>1, <1>3, <1>6, <2>1, AnswerTypes DEF CheckWebhookSource
  <2>2. ASSUME NEW status \in {"accepted", "rejected"}, GithubWebhookSource(sources[SourceOf(d)]),
               Admitted(d, sources[SourceOf(d)], status)
        PROVE  TypeOK'
    BY <1>3, <1>4, <1>6, <2>2, AdmittedTypes DEF CheckWebhookSource, GithubWebhookSource
  <2> QED BY <1>6, <2>1, <2>2 DEF CheckWebhookSource, SourceOf
<1>7. CASE FindExistingEvent(d)
  BY <1>1, <1>3, <1>7, GoTypes, ExistingTypes, MatchingEvents DEF FindExistingEvent
<1>8. CASE InsertEvent(d)
  <2>1. CASE Go(d, "duplicate") /\ UNCHANGED events
    BY <1>1, <1>3, <1>8, <2>1, GoTypes DEF InsertEvent
  <2>2. CASE events' = [events EXCEPT ![d] = EventRow(d)] /\ Recorded(d, d, handler[d].status)
    <3>1. EventRow(d) \in Event
      BY <1>8, EventRowTypes, DeliveryParts DEF InsertEvent, HandlerKnows, Owns, TypeOK, Source
    <3>2. handler' \in [Deliveries -> Handler]
      BY <2>2, RecordedTypes
    <3> QED BY <1>2, <1>8, <2>2, <3>1, <3>2 DEF InsertEvent, TypeOK
  <2> QED BY <1>8, <2>1, <2>2 DEF InsertEvent
<1>9. CASE FindDuplicateEvent(d)
  BY <1>1, <1>3, <1>9, AnswerTypes, ExistingTypes, MatchingEvents DEF FindDuplicateEvent
<1>10. ASSUME handler[d].at \in {"run", "create", "created"}
       PROVE  handler[d].event \in Deliveries
  BY <1>10 DEF HandlerKnows, Same
<1>11. CASE FindRun(d)
  BY <1>1, <1>3, <1>10, <1>11, GoTypes, AnswerTypes DEF FindRun
<1>12. CASE CreateRun(d)
  <2>1. handler' \in [Deliveries -> Handler]
    BY <1>1, <1>10, <1>12, GoTypes, AnswerTypes DEF CreateRun
  <2> QED BY <1>2, <1>10, <1>12, <2>1 DEF CreateRun, TypeOK
<1>13. CASE FindCreatedRun(d)
  BY <1>1, <1>3, <1>10, <1>13, AnswerTypes DEF FindCreatedRun
<1> QED
  BY <1>5, <1>6, <1>7, <1>8, <1>9, <1>11, <1>12, <1>13 DEF Handle

LEMMA FailureTypes ==
    ASSUME TypeOK, NEW d \in Deliveries, StatementFails(d), HandlerKnows(d)
    PROVE  TypeOK'
<1>1. handler[d] \in Handler /\ handler[d].event \in Deliveries \cup {None} /\ "failed" \in Reply
  BY DEF TypeOK, Handler, Reply
<1>2. handler' \in [Deliveries -> Handler]
  BY <1>1, AnswerTypes DEF StatementFails
<1>3. events' \in [Deliveries -> Event \cup {None}]
  <2>1. CASE UNCHANGED events
    BY <2>1 DEF TypeOK
  <2>2. CASE handler[d].at = "insert" /\ events' = [events EXCEPT ![d] = EventRow(d)]
    <3>1. EventRow(d) \in Event
      BY <2>2, EventRowTypes, DeliveryParts DEF HandlerKnows, Owns, TypeOK, Source
    <3> QED BY <2>2, <3>1 DEF TypeOK
  <2> QED BY <2>1, <2>2 DEF StatementFails
<1>4. runs' \subseteq Deliveries
  BY <1>1 DEF StatementFails, HandlerKnows, Same, TypeOK
<1> QED BY <1>2, <1>3, <1>4 DEF StatementFails, TypeOK

LEMMA SourceEditTypes ==
    ASSUME TypeOK, NEW s \in Sources,
           \/ \E row \in NewRows : CreateSource(s, row)
           \/ \E o \in Owners, t \in Tokens : RotateSourceToken(s, o, t)
           \/ DisableSource(s)
           \/ \E p \in Policies \cup {None} : ChangePolicy(s, p)
    PROVE  TypeOK'
<1>1. sources \in [Sources -> Source \cup {None}] /\ edits \in 0 .. MaxEdits
  BY DEF TypeOK
<1>2. edits' \in 0 .. MaxEdits /\ UNCHANGED <<events, runs, handler, sent, faults>>
  BY <1>1 DEF CreateSource, RotateSourceToken, DisableSource, ChangePolicy
<1>3. sources' \in [Sources -> Source \cup {None}]
  <2>1. ASSUME NEW row \in NewRows, CreateSource(s, row)
        PROVE  sources' \in [Sources -> Source \cup {None}]
    BY <1>1, <2>1 DEF CreateSource
  <2>2. ASSUME NEW t \in Tokens, sources[s] # None, sources' = [sources EXCEPT ![s].token = t]
        PROVE  sources' \in [Sources -> Source \cup {None}]
    BY <1>1, <2>2 DEF Source
  <2>3. CASE DisableSource(s)
    BY <1>1, <2>3 DEF DisableSource, Source
  <2>4. ASSUME NEW p \in Policies \cup {None}, ChangePolicy(s, p)
        PROVE  sources' \in [Sources -> Source \cup {None}]
    BY <1>1, <2>4 DEF ChangePolicy, Source
  <2> QED BY <2>1, <2>2, <2>3, <2>4 DEF RotateSourceToken
<1> QED BY <1>2, <1>3 DEF TypeOK

LEMMA NextTypes ==
    ASSUME TypeOK, Next, \A d \in Deliveries : HandlerKnows(d)
    PROVE  TypeOK'
<1>1. ASSUME NEW d \in Deliveries, Receive(d)
      PROVE  TypeOK'
  <2>1. "source" \in Awaiting /\ "refused" \in Reply
    BY DEF Awaiting, Reply
  <2>2. handler' \in [Deliveries -> Handler]
    BY <1>1, <2>1, GoTypes, AnswerTypes DEF Receive
  <2> QED BY <1>1, <2>2 DEF Receive, TypeOK
<1>2. CASE Restart
  <2>1. handler' \in [Deliveries -> Handler]
    <3>1. ASSUME NEW d \in Deliveries
          PROVE  handler'[d] \in Handler
      <4>1. handler[d] \in Handler /\ "lost" \in Reply
        BY DEF TypeOK, Reply
      <4>2. [handler[d] EXCEPT !.at = "done", !.reply = "lost"] \in Handler
        BY <4>1 DEF Handler
      <4> QED BY <1>2, <4>1, <4>2 DEF Restart
    <3> QED BY <1>2, <3>1 DEF Restart
  <2>2. /\ faults < MaxFaults /\ faults' = faults + 1
        /\ UNCHANGED <<sources, events, runs, sent, edits>>
    BY <1>2 DEF Restart
  <2> QED BY <2>1, <2>2 DEF TypeOK
<1>3. sent \subseteq Messages
  BY DEF TypeOK
<1> QED
  BY <1>1, <1>2, <1>3, HandleTypes, FailureTypes, SourceEditTypes DEF Next

-----------------------------------------------------------------------------
(* Rows are only added.                                                     *)

OwnersStay ==
    \A s \in Sources :
        sources[s] # None => sources'[s] # None /\ sources'[s].owner = sources[s].owner
EventsStay == \A e \in Deliveries : events[e] # None => events'[e] = events[e]
RowsStay == OwnersStay /\ EventsStay /\ runs \subseteq runs'

\* What is known of a delivery is known as long as its handler rests.
LEMMA KnowledgeStays ==
    ASSUME RowsStay, NEW d \in Deliveries, handler'[d] = handler[d]
    PROVE  /\ HandlerKnows(d) => HandlerKnows(d)'
           /\ AnswerHolds(d) => AnswerHolds(d)'
<1>1. \A owner : Owns(d, owner) => Owns(d, owner)'
  BY DeliveryParts DEF Owns, RowsStay, OwnersStay, SourceOf
<1>2. \A e : Same(d, e) => Same(d, e)' /\ events'[e] = events[e]
  BY DEF Same, RowsStay, EventsStay
<1>3. HandlerKnows(d) => HandlerKnows(d)'
  BY <1>1, <1>2 DEF HandlerKnows
<1>4. AnswerHolds(d) => AnswerHolds(d)'
  BY <1>2 DEF AnswerHolds, RowsStay, EventsStay
<1> QED BY <1>3, <1>4

\* The tables stand if no event is added.
LEMMA StoreStays ==
    ASSUME StoreStands, RowsStay, UNCHANGED <<events, runs>>
    PROVE  StoreStands'
<1>1. \A e \in Deliveries : \A owner : Owns(e, owner) => Owns(e, owner)'
  BY DeliveryParts DEF Owns, RowsStay, OwnersStay, SourceOf
<1>2. EventsStand'
  BY <1>1 DEF StoreStands, EventsStand, SourceOf
<1> QED BY <1>2 DEF StoreStands, EventsAreUnique, RunsAreAccepted

\* A step of one delivery.
LEMMA DeliveryAssembly ==
    ASSUME Consistent, TypeOK', RowsStay, StoreStands', NEW d \in Deliveries,
           \A e \in Deliveries \ {d} : handler'[e] = handler[e],
           HandlerKnows(d)', AnswerHolds(d)'
    PROVE  Consistent'
BY KnowledgeStays DEF Consistent

LEMMA AnswerChanges ==
    ASSUME TypeOK, NEW d \in Deliveries, NEW reply, NEW event, Answer(d, reply, event)
    PROVE  /\ \A e \in Deliveries \ {d} : handler'[e] = handler[e]
           /\ handler'[d].at = "done" /\ handler'[d].reply = reply /\ handler'[d].event = event
<1>1. handler \in [Deliveries -> Handler] /\ handler[d] \in Handler
  BY DEF TypeOK
<1> DEFINE new == [handler[d] EXCEPT !.at = "done", !.reply = reply, !.event = event]
<1>2. new.at = "done" /\ new.reply = reply /\ new.event = event
  BY <1>1 DEF Handler
<1>3. handler' = [handler EXCEPT ![d] = new]
  BY <1>1 DEF Answer
<1> HIDE DEF new
<1> QED BY <1>1, <1>2, <1>3

LEMMA GoChanges ==
    ASSUME TypeOK, NEW d \in Deliveries, NEW at, Go(d, at)
    PROVE  /\ \A e \in Deliveries \ {d} : handler'[e] = handler[e]
           /\ handler'[d].at = at /\ handler'[d].reply = handler[d].reply
           /\ handler'[d].event = handler[d].event /\ handler'[d].owner = handler[d].owner
           /\ handler'[d].status = handler[d].status
BY DEF TypeOK, Handler, Go

LEMMA RefusalKnows ==
    ASSUME TypeOK, NEW d \in Deliveries, NEW reply \in {"refused", "failed", "lost"}, NEW event,
           Answer(d, reply, event)
    PROVE  HandlerKnows(d)' /\ AnswerHolds(d)'
BY AnswerChanges DEF HandlerKnows, AnswerHolds

\* What is recorded of an event, and told of it.
LEMMA RecordedKnows ==
    ASSUME Consistent, RowsStay, NEW d \in Deliveries, handler[d].at # "done",
           NEW e, Same(d, e)',
           NEW status \in {"accepted", "rejected"}, events'[e].status = status,
           Recorded(d, e, status)
    PROVE  /\ \A f \in Deliveries \ {d} : handler'[f] = handler[f]
           /\ HandlerKnows(d)' /\ AnswerHolds(d)'
<1>1. TypeOK /\ AnswerHolds(d) /\ handler \in [Deliveries -> Handler] /\ handler[d] \in Handler
  BY DEF Consistent, TypeOK
<1>2. CASE status = "rejected"
  <2>1. Answer(d, "ignored", e)
    BY <1>2 DEF Recorded
  <2> QED BY <1>1, <1>2, <2>1, AnswerChanges DEF HandlerKnows, AnswerHolds
<1>3. CASE status = "accepted"
  <2> DEFINE new == [handler[d] EXCEPT !.at = "run", !.event = e]
  <2>1. new.at = "run" /\ new.event = e /\ new.reply = handler[d].reply
    BY <1>1 DEF Handler
  <2>2. handler' = [handler EXCEPT ![d] = new]
    BY <1>1, <1>3 DEF Recorded
  <2> HIDE DEF new
  <2>3. handler'[d] = new /\ \A f \in Deliveries \ {d} : handler'[f] = handler[f]
    BY <1>1, <2>2
  <2> QED BY <1>1, <1>3, <2>1, <2>3 DEF HandlerKnows, AnswerHolds
<1> QED BY <1>2, <1>3

LEMMA ExistingKnows ==
    ASSUME Consistent, RowsStay, NEW d \in Deliveries, handler[d].at \in {"existing", "duplicate"},
           NEW e \in Matching(d), Existing(d, e)
    PROVE  /\ \A f \in Deliveries \ {d} : handler'[f] = handler[f]
           /\ HandlerKnows(d)' /\ AnswerHolds(d)'
<1>1. /\ e \in Deliveries /\ events[e] # None /\ events[e] \in Event /\ events'[e] = events[e]
      /\ events[e].message = e[1] /\ events[e].source = SourceOf(e)
  BY MatchingEvents DEF Consistent, StoreStands, EventsStand, RowsStay, EventsStay
<1>2. Clash(e[1], d[1])
  BY <1>1 DEF Matching, Clash, SourceOf
<1>3. CASE Fingerprint(e[1]) # Fingerprint(d[1])
  <2>1. Answer(d, "conflict", e) /\ TypeOK
    BY <1>1, <1>3 DEF Existing, Consistent
  <2> QED BY <1>1, <1>2, <1>3, <2>1, AnswerChanges DEF HandlerKnows, AnswerHolds
<1>4. CASE Fingerprint(e[1]) = Fingerprint(d[1])
  <2>1. Recorded(d, e, events[e].status) /\ Same(d, e)'
    BY <1>1, <1>4 DEF Existing, Same
  <2>2. events[e].status \in {"accepted", "rejected"}
    BY <1>1 DEF Event
  <2> QED BY <1>1, <2>1, <2>2, RecordedKnows
<1> QED BY <1>3, <1>4

\* The delivered event clashes with none that is recorded, so it may be added.
LEMMA InsertStands ==
    ASSUME Consistent, NEW d \in Deliveries, handler[d].at = "insert", Matching(d) = {},
           events' = [events EXCEPT ![d] = EventRow(d)], UNCHANGED <<sources, runs>>
    PROVE  /\ events[d] = None /\ RowsStay /\ StoreStands'
           /\ Same(d, d)' /\ events'[d] = EventRow(d)
<1>1. /\ events \in [Deliveries -> Event \cup {None}]
      /\ Owns(d, handler[d].owner) /\ handler[d].status \in {"accepted", "rejected"}
      /\ EventsStand /\ EventsAreUnique /\ RunsAreAccepted
  BY DEF Consistent, TypeOK, StoreStands, HandlerKnows
<1>2. EventRow(d) \in Event /\ EventRow(d) # None
  BY <1>1, EventRowTypes, DeliveryParts DEF Consistent, TypeOK, Owns, Source
<1>3. \A e \in Deliveries : events[e] # None /\ SourceOf(e) = SourceOf(d)
                               => events[e].owner = handler[d].owner
  BY <1>1 DEF EventsStand, Owns
<1>4. \A e \in Deliveries : events[e] # None => ~Clash(e[1], d[1]) /\ ~Clash(d[1], e[1])
  BY <1>1, <1>3 DEF Matching, Clash, EventsStand, SourceOf
<1>5. events[d] = None
  BY <1>4 DEF Clash
<1>6. /\ events'[d] = EventRow(d) /\ \A e \in Deliveries \ {d} : events'[e] = events[e]
      /\ events'[d].message = d[1] /\ events'[d].source = SourceOf(d)
      /\ events'[d].owner = handler[d].owner
  BY <1>1 DEF EventRow, SourceOf
<1>7. RowsStay
  BY <1>5, <1>6 DEF RowsStay, OwnersStay, EventsStay
<1>8. EventsStand'
  BY <1>1, <1>6 DEF EventsStand, Owns, SourceOf
<1>9. EventsAreUnique'
  BY <1>1, <1>4, <1>6 DEF EventsAreUnique
<1>10. RunsAreAccepted'
  BY <1>1, <1>5, <1>6, DeliveryParts DEF RunsAreAccepted, Consistent, TypeOK
<1> QED
  BY <1>2, <1>5, <1>6, <1>7, <1>8, <1>9, <1>10 DEF StoreStands, Same

\* A run is added for an accepted event.
LEMMA RunStands ==
    ASSUME Consistent, NEW d \in Deliveries, handler[d].at = "create",
           NEW e, e = handler[d].event,
           runs' = runs \cup {e}, UNCHANGED <<sources, events>>
    PROVE  RowsStay /\ StoreStands' /\ Same(d, e)'
<1>1. Same(d, e) /\ events[e].status = "accepted"
  BY DEF Consistent, HandlerKnows
<1>2. RowsStay
  BY DEF RowsStay, OwnersStay, EventsStay
<1>3. EventsStand' /\ EventsAreUnique'
  BY DEF Consistent, StoreStands, EventsStand, EventsAreUnique, Owns, SourceOf
<1>4. RunsAreAccepted'
  BY <1>1 DEF Consistent, StoreStands, RunsAreAccepted, Same
<1> QED BY <1>1, <1>2, <1>3, <1>4 DEF StoreStands, Same

LEMMA HandleStands ==
    ASSUME Consistent, NEW d \in Deliveries, Handle(d)
    PROVE  RowsStay /\ Consistent'
<1>1. TypeOK' /\ HandlerKnows(d) /\ AnswerHolds(d) /\ TypeOK
  BY HandleTypes DEF Consistent
<1>2. UNCHANGED <<sources, sent, faults, edits>>
  BY DEF Handle, CheckTriggerSource, CheckWebhookSource, FindExistingEvent, InsertEvent,
         FindDuplicateEvent, FindRun, CreateRun, FindCreatedRun
<1>3. UNCHANGED <<events, runs>> => RowsStay /\ StoreStands'
  BY <1>2, StoreStays DEF RowsStay, OwnersStay, EventsStay, Consistent
<1>4. ASSUME RowsStay, StoreStands', NEW reply \in {"refused", "failed"}, NEW event,
             Answer(d, reply, event)
      PROVE  RowsStay /\ Consistent'
  BY <1>1, <1>4, RefusalKnows, AnswerChanges, DeliveryAssembly
<1>5. ASSUME RowsStay, StoreStands',
             NEW row, NEW status \in {"accepted", "rejected"}, row = sources[SourceOf(d)],
             row \in Source, row # None, handler[d].at = "source", Admitted(d, row, status)
      PROVE  RowsStay /\ Consistent'
  <2>1. handler \in [Deliveries -> Handler] /\ handler[d] \in Handler
    BY <1>1 DEF TypeOK
  <2> DEFINE new == [handler[d] EXCEPT !.at = "existing", !.owner = row.owner, !.status = status]
  <2>2. /\ new.at = "existing" /\ new.owner = row.owner /\ new.status = status
        /\ new.reply = handler[d].reply
    BY <2>1 DEF Handler
  <2>3. handler' = [handler EXCEPT ![d] = new]
    BY <1>5, <2>1 DEF Admitted
  <2> HIDE DEF new
  <2>4. handler'[d] = new /\ \A e \in Deliveries \ {d} : handler'[e] = handler[e]
    BY <2>1, <2>3
  <2>5. HandlerKnows(d)' /\ AnswerHolds(d)'
    BY <1>1, <1>2, <1>5, <2>2, <2>4 DEF HandlerKnows, AnswerHolds, Owns, SourceOf
  <2> QED BY <1>1, <1>5, <2>4, <2>5, DeliveryAssembly
<1>6. sources[SourceOf(d)] # None => sources[SourceOf(d)] \in Source
  BY <1>1, DeliveryParts DEF TypeOK
<1>7. CASE CheckTriggerSource(d)
  <2>1. RowsStay /\ StoreStands' /\ handler[d].at = "source"
    BY <1>3, <1>7 DEF CheckTriggerSource
  <2>2. CASE Answer(d, "refused", None)
    BY <1>4, <2>1, <2>2
  <2>3. CASE TriggerSourceForToken(sources[SourceOf(d)], Content[d[1]])
             /\ Admitted(d, sources[SourceOf(d)], "accepted")
    BY <1>5, <1>6, <2>1, <2>3 DEF TriggerSourceForToken
  <2> QED BY <1>7, <2>2, <2>3 DEF CheckTriggerSource, SourceOf
<1>8. CASE CheckWebhookSource(d)
  <2>1. RowsStay /\ StoreStands' /\ handler[d].at = "source"
    BY <1>3, <1>8 DEF CheckWebhookSource
  <2>2. CASE Answer(d, "refused", None) \/ Answer(d, "failed", None)
    BY <1>4, <2>1, <2>2
  <2>3. ASSUME NEW status \in {"accepted", "rejected"}, GithubWebhookSource(sources[SourceOf(d)]),
               Admitted(d, sources[SourceOf(d)], status)
        PROVE  RowsStay /\ Consistent'
    BY <1>5, <1>6, <2>1, <2>3 DEF GithubWebhookSource
  <2> QED BY <1>8, <2>2, <2>3 DEF CheckWebhookSource, SourceOf
<1>9. ASSUME RowsStay, StoreStands', NEW at \in {"insert", "duplicate", "create", "created"}, Go(d, at),
             at \in {"insert", "duplicate"} => handler[d].at \in {"existing", "insert"},
             at \in {"create", "created"} => handler[d].at \in {"run", "create"}
      PROVE  RowsStay /\ Consistent'
  <2>1. /\ \A e \in Deliveries \ {d} : handler'[e] = handler[e]
        /\ handler'[d].at = at /\ handler'[d].reply = handler[d].reply
        /\ handler'[d].event = handler[d].event /\ handler'[d].owner = handler[d].owner
        /\ handler'[d].status = handler[d].status
    BY <1>1, <1>9, GoChanges
  <2>2. \A owner : Owns(d, owner) => Owns(d, owner)'
    BY <1>2 DEF Owns, SourceOf
  <2>3. \A e : Same(d, e) => Same(d, e)' /\ events'[e] = events[e]
    BY <1>9 DEF Same, RowsStay, EventsStay
  <2>4. HandlerKnows(d)' /\ AnswerHolds(d)'
    BY <1>1, <1>9, <2>1, <2>2, <2>3 DEF HandlerKnows, AnswerHolds
  <2> QED BY <1>1, <1>9, <2>1, <2>4, DeliveryAssembly
<1>10. CASE FindExistingEvent(d)
  <2>1. RowsStay /\ StoreStands' /\ handler[d].at = "existing"
    BY <1>3, <1>10 DEF FindExistingEvent
  <2>2. CASE Go(d, "insert")
    BY <1>9, <2>1, <2>2
  <2>3. ASSUME NEW e \in Matching(d), Existing(d, e)
        PROVE  RowsStay /\ Consistent'
    BY <1>1, <2>1, <2>3, ExistingKnows, DeliveryAssembly
  <2> QED BY <1>10, <2>2, <2>3 DEF FindExistingEvent
<1>11. CASE InsertEvent(d)
  <2>1. CASE Go(d, "duplicate") /\ UNCHANGED events
    BY <1>3, <1>9, <1>11, <2>1 DEF InsertEvent
  <2>2. CASE Matching(d) = {} /\ events' = [events EXCEPT ![d] = EventRow(d)]
             /\ Recorded(d, d, handler[d].status)
    <3>1. /\ RowsStay /\ StoreStands' /\ Same(d, d)' /\ events'[d] = EventRow(d)
      BY <1>2, <1>11, <2>2, InsertStands DEF InsertEvent
    <3>2. handler[d].status \in {"accepted", "rejected"} /\ events'[d].status = handler[d].status
      BY <1>1, <1>11, <3>1 DEF InsertEvent, HandlerKnows, EventRow
    <3>3. /\ \A f \in Deliveries \ {d} : handler'[f] = handler[f]
          /\ HandlerKnows(d)' /\ AnswerHolds(d)'
      BY <1>11, <2>2, <3>1, <3>2, RecordedKnows DEF InsertEvent
    <3> QED BY <1>1, <3>1, <3>3, DeliveryAssembly
  <2> QED BY <1>11, <2>1, <2>2 DEF InsertEvent
<1>12. CASE FindDuplicateEvent(d)
  <2>1. RowsStay /\ StoreStands' /\ handler[d].at = "duplicate"
    BY <1>3, <1>12 DEF FindDuplicateEvent
  <2>2. CASE Answer(d, "failed", None)
    BY <1>4, <2>1, <2>2
  <2>3. ASSUME NEW e \in Matching(d), Existing(d, e)
        PROVE  RowsStay /\ Consistent'
    BY <1>1, <2>1, <2>3, ExistingKnows, DeliveryAssembly
  <2> QED BY <1>12, <2>2, <2>3 DEF FindDuplicateEvent
<1>13. ASSUME RowsStay, StoreStands', NEW e, Same(d, e)', e \in runs', Answer(d, "queued", e)
       PROVE  RowsStay /\ Consistent'
  <2>1. HandlerKnows(d)' /\ AnswerHolds(d)'
    BY <1>1, <1>13, AnswerChanges DEF HandlerKnows, AnswerHolds
  <2> QED BY <1>1, <1>13, <2>1, AnswerChanges, DeliveryAssembly
<1>14. ASSUME handler[d].at \in {"run", "create", "created"}, UNCHANGED <<events, runs>>,
              NEW e, e = handler[d].event
       PROVE  RowsStay /\ StoreStands' /\ Same(d, e)'
  BY <1>1, <1>3, <1>14 DEF HandlerKnows, Same
<1>15. CASE FindRun(d)
  BY <1>9, <1>13, <1>14, <1>15 DEF FindRun
<1>16. CASE CreateRun(d)
  BY <1>2, <1>9, <1>13, <1>16, RunStands DEF CreateRun
<1>17. CASE FindCreatedRun(d)
  BY <1>4, <1>13, <1>14, <1>17 DEF FindCreatedRun
<1> QED
  BY <1>7, <1>8, <1>10, <1>11, <1>12, <1>15, <1>16, <1>17 DEF Handle

LEMMA FailureStands ==
    ASSUME Consistent, NEW d \in Deliveries, StatementFails(d)
    PROVE  RowsStay /\ Consistent'
<1>1. TypeOK' /\ TypeOK /\ HandlerKnows(d)
  BY FailureTypes DEF Consistent
<1>2. RowsStay /\ StoreStands'
  <2>1. CASE UNCHANGED <<events, runs>>
    BY <2>1, StoreStays DEF StatementFails, RowsStay, OwnersStay, EventsStay, Consistent
  <2>2. CASE /\ handler[d].at = "insert" /\ Matching(d) = {}
             /\ events' = [events EXCEPT ![d] = EventRow(d)] /\ UNCHANGED runs
    BY <2>2, InsertStands DEF StatementFails
  <2>3. CASE handler[d].at = "create" /\ runs' = runs \cup {handler[d].event} /\ UNCHANGED events
    BY <2>3, RunStands DEF StatementFails
  <2> QED BY <2>1, <2>2, <2>3 DEF StatementFails
<1>3. Answer(d, "failed", handler[d].event)
  BY DEF StatementFails
<1> QED BY <1>1, <1>2, <1>3, RefusalKnows, AnswerChanges, DeliveryAssembly

LEMMA SourceEditStands ==
    ASSUME Consistent, NEW s \in Sources,
           \/ \E row \in NewRows : CreateSource(s, row)
           \/ \E o \in Owners, t \in Tokens : RotateSourceToken(s, o, t)
           \/ DisableSource(s)
           \/ \E p \in Policies \cup {None} : ChangePolicy(s, p)
    PROVE  RowsStay /\ Consistent'
<1>1. TypeOK' /\ UNCHANGED <<events, runs, handler>> /\ sources \in [Sources -> Source \cup {None}]
  BY SourceEditTypes DEF Consistent, CreateSource, RotateSourceToken, DisableSource, ChangePolicy, TypeOK
<1>2. OwnersStay
  <2>1. ASSUME NEW row \in NewRows, CreateSource(s, row)
        PROVE  OwnersStay
    BY <1>1, <2>1 DEF OwnersStay, CreateSource
  <2>2. ASSUME NEW t \in Tokens, sources' = [sources EXCEPT ![s].token = t], sources[s] # None
        PROVE  OwnersStay
    <3>1. sources[s] \in Source /\ sources'[s] \in Source \cup {None}
      BY <1>1, <2>2 DEF TypeOK
    <3>2. sources'[s].owner = sources[s].owner /\ sources'[s] \in Source
      BY <1>1, <2>2, <3>1 DEF Source
    <3> QED BY <1>1, <2>2, <3>2 DEF OwnersStay
  <2>3. CASE DisableSource(s)
    <3>1. sources[s] \in Source
      BY <1>1, <2>3 DEF DisableSource
    <3>2. sources'[s].owner = sources[s].owner /\ sources'[s] \in Source
      BY <1>1, <2>3, <3>1 DEF DisableSource, Source
    <3> QED BY <1>1, <2>3, <3>2 DEF OwnersStay, DisableSource
  <2>4. ASSUME NEW p \in Policies \cup {None}, ChangePolicy(s, p)
        PROVE  OwnersStay
    <3>1. sources[s] \in Source
      BY <1>1, <2>4 DEF ChangePolicy
    <3>2. sources'[s].owner = sources[s].owner /\ sources'[s] \in Source
      BY <1>1, <2>4, <3>1 DEF ChangePolicy, Source
    <3> QED BY <1>1, <2>4, <3>2 DEF OwnersStay, ChangePolicy
  <2> QED BY <2>1, <2>2, <2>3, <2>4 DEF RotateSourceToken
<1>3. RowsStay
  BY <1>1, <1>2 DEF RowsStay, EventsStay
<1> QED BY <1>1, <1>3, StoreStays, KnowledgeStays DEF Consistent

LEMMA NextStands ==
    ASSUME Consistent, [Next]_vars
    PROVE  RowsStay /\ Consistent'
<1>1. ASSUME NEW d \in Deliveries, Receive(d)
      PROVE  RowsStay /\ Consistent'
  <2>1. TypeOK' /\ TypeOK /\ AnswerHolds(d) /\ RowsStay /\ StoreStands'
    <3>1. RowsStay
      BY <1>1 DEF Receive, RowsStay, OwnersStay, EventsStay
    <3>2. TypeOK' /\ TypeOK /\ AnswerHolds(d)
      BY <1>1, NextTypes DEF Next, Consistent
    <3> QED BY <1>1, <3>1, <3>2, StoreStays DEF Receive, Consistent
  <2>2. CASE Answer(d, "refused", None)
    BY <2>1, <2>2, RefusalKnows, AnswerChanges, DeliveryAssembly
  <2>3. CASE Go(d, "source")
    <3>1. HandlerKnows(d)' /\ AnswerHolds(d)'
      BY <1>1, <2>1, <2>3, GoChanges DEF Receive, HandlerKnows, AnswerHolds
    <3> QED BY <2>1, <2>3, <3>1, GoChanges, DeliveryAssembly
  <2> QED BY <1>1, <2>2, <2>3 DEF Receive
<1>2. CASE Restart
  <2>1. TypeOK' /\ RowsStay /\ StoreStands'
    <3>1. RowsStay /\ UNCHANGED <<events, runs>>
      BY <1>2 DEF Restart, RowsStay, OwnersStay, EventsStay
    <3>2. TypeOK'
      BY <1>2, NextTypes DEF Next, Consistent
    <3> QED BY <3>1, <3>2, StoreStays DEF Consistent
  <2>2. ASSUME NEW d \in Deliveries
        PROVE  HandlerKnows(d)' /\ AnswerHolds(d)'
    <3>1. handler[d] \in Handler /\ HandlerKnows(d) /\ AnswerHolds(d)
      BY DEF Consistent, TypeOK
    <3>2. CASE Open(d)
      <4>1. handler'[d].at = "done" /\ handler'[d].reply = "lost"
        BY <1>2, <3>1, <3>2 DEF Restart, Handler
      <4> QED BY <4>1 DEF HandlerKnows, AnswerHolds
    <3>3. CASE ~Open(d)
      BY <1>2, <2>1, <3>1, <3>3, KnowledgeStays DEF Restart
    <3> QED BY <3>2, <3>3
  <2> QED BY <2>1, <2>2 DEF Consistent
<1>3. CASE UNCHANGED vars
  <2>1. RowsStay /\ UNCHANGED <<events, runs, handler>> /\ TypeOK'
    BY <1>3 DEF vars, RowsStay, OwnersStay, EventsStay, Consistent, TypeOK
  <2> QED BY <2>1, StoreStays, KnowledgeStays DEF Consistent
<1>4. \A m \in sent : Content[m].source \in Sources
  BY DEF Consistent, TypeOK
<1> QED
  BY <1>1, <1>2, <1>3, <1>4, HandleStands, FailureStands, SourceEditStands DEF Next

LEMMA InitConsistent == Init => Consistent
<1> SUFFICES ASSUME Init PROVE Consistent
  OBVIOUS
<1>1. TypeOK
  BY DEF Init, TypeOK, Handler, Awaiting, Reply
<1>2. StoreStands
  BY DEF Init, StoreStands, EventsStand, EventsAreUnique, RunsAreAccepted
<1>3. \A d \in Deliveries : HandlerKnows(d) /\ AnswerHolds(d)
  BY DEF Init, HandlerKnows, AnswerHolds
<1> QED BY <1>1, <1>2, <1>3 DEF Consistent

\* Consistent is inductive.
THEOREM ConsistentAlways == Spec => []Consistent
BY InitConsistent, NextStands, PTL DEF Spec

\* What a sender is told of an event is so and stays so, and nobody is told
\* otherwise, however deliveries overlap and fail (recordEvent,
\* getOrCreateRunForEvent).
THEOREM SendersAreToldTheTruth == Spec => []AnswersAreTrue
<1>1. ASSUME Consistent
      PROVE  AnswersAreTrue
  <2>1. \A d \in Deliveries : AnswerHolds(d)
    BY <1>1 DEF Consistent
  <2>2. RunsAreAccepted /\ EventsAreUnique /\ runs \subseteq Deliveries
    BY <1>1 DEF Consistent, StoreStands, TypeOK
  <2>3. ASSUME NEW m \in Messages, NEW n \in Messages, Fingerprint(m) = Fingerprint(n)
        PROVE  /\ Content[m].source = Content[n].source /\ Content[m].key = Content[n].key
               /\ Content[m].eventId = Content[n].eventId
    <3>1. ASSUME NEW f \in {"source", "key", "eventId"}, NEW l \in Messages
          PROVE  Fingerprint(l)[f] = Content[l][f]
      BY DEF Fingerprint
    <3> QED BY <2>3, <3>1
  <2>4. ASSUME NEW d \in Deliveries, handler[d].reply \in {"queued", "ignored"}
        PROVE  LET e == handler[d].event IN
               /\ events[e] # None
               /\ Fingerprint(events[e].message) = Fingerprint(d[1])
               /\ e \in runs <=> handler[d].reply = "queued"
    BY <1>1, <2>1, <2>2, <2>4
       DEF AnswerHolds, Same, RunsAreAccepted, Consistent, StoreStands, EventsStand
  <2>5. ASSUME NEW d \in Deliveries, NEW e \in Deliveries, d[1] = e[1],
               handler[d].reply \in {"queued", "ignored"},
               handler[e].reply \in {"queued", "ignored", "conflict"}
        PROVE  handler[d].reply = handler[e].reply /\ handler[d].event = handler[e].event
    <3> DEFINE x == handler[d].event
               y == handler[e].event
    <3>1. /\ x \in Deliveries /\ events[x] # None /\ Fingerprint(x[1]) = Fingerprint(d[1])
          /\ y \in Deliveries /\ events[y] # None
      BY <2>1, <2>5 DEF AnswerHolds, Same
    <3>2. /\ Content[x[1]].source = Content[d[1]].source /\ Content[x[1]].key = Content[d[1]].key
          /\ Content[x[1]].eventId = Content[d[1]].eventId
      BY <2>3, <3>1, DeliveryParts
    <3>3. Clash(y[1], d[1])
      <4>1. CASE handler[e].reply = "conflict"
        BY <2>1, <2>5, <4>1 DEF AnswerHolds
      <4>2. CASE handler[e].reply \in {"queued", "ignored"}
        <5>1. Fingerprint(y[1]) = Fingerprint(d[1])
          BY <2>1, <2>5, <4>2 DEF AnswerHolds, Same
        <5> QED BY <2>3, <3>1, <5>1, DeliveryParts DEF Clash
      <4> QED BY <2>5, <4>1, <4>2
    <3>4. x = y
      BY <2>2, <3>1, <3>2, <3>3 DEF EventsAreUnique, Clash
    <3>5. handler[d].reply = "queued" <=> x \in runs
      BY <2>4, <2>5
    <3>6. CASE handler[e].reply = "conflict"
      BY <2>1, <2>5, <3>1, <3>4, <3>6 DEF AnswerHolds
    <3>7. CASE handler[e].reply \in {"queued", "ignored"}
      BY <2>4, <2>5, <3>4, <3>5, <3>7
    <3> QED BY <2>5, <3>6, <3>7
  <2>6. \A e \in runs : events[e] # None /\ events[e].status = "accepted"
    BY <2>2 DEF RunsAreAccepted
  <2> QED BY <2>4, <2>5, <2>6 DEF AnswersAreTrue
<1> QED BY <1>1, ConsistentAlways, PTL

-----------------------------------------------------------------------------
(* All deliveries under one key are one job.                                *)

KeyOf(d) == <<Content[d[1]].source, Content[d[1]].key>>

LEMMA KeysOfDeliveries ==
    ASSUME NEW d \in Deliveries
    PROVE  KeyOf(d) \in Keys
BY DEF KeyOf, Keys, Deliveries

\* The one event under a key says how far the job is.
JobsAreEvents ==
    \A k \in Keys : \A e \in EventsOf(k) :
        /\ EventsOf(k) = {e}
        /\ JobOf(k) = IF e \in runs THEN "queued" ELSE events[e].status

LEMMA ConsistentJobs == Consistent => JobsAreEvents
<1> SUFFICES ASSUME Consistent, NEW k \in Keys, NEW e \in EventsOf(k)
             PROVE  /\ EventsOf(k) = {e}
                    /\ JobOf(k) = IF e \in runs THEN "queued" ELSE events[e].status
  BY DEF JobsAreEvents
<1>1. \A f \in EventsOf(k) : /\ f \in Deliveries /\ events[f] # None
                             /\ KeyOf(f) = k
  BY DEF EventsOf, KeyOf, Consistent, StoreStands, EventsStand
<1>2. EventsOf(k) = {e}
  BY <1>1 DEF Consistent, StoreStands, EventsAreUnique, Clash, KeyOf
<1>3. (CHOOSE f \in EventsOf(k) : TRUE) = e
  BY <1>2
<1> QED BY <1>2, <1>3 DEF JobOf

LEMMA ConsistentJobsNext == Consistent' => JobsAreEvents'
BY ConsistentJobs, PTL

LEMMA EventsUnderTheKey ==
    ASSUME Consistent, NEW d \in Deliveries, NEW e, Same(d, e)
    PROVE  e \in EventsOf(KeyOf(d))
<1>1. /\ e \in Deliveries /\ events[e] # None /\ events[e].message = e[1]
      /\ Fingerprint(e[1]) = Fingerprint(d[1])
  BY DEF Same, Consistent, StoreStands, EventsStand
<1>2. Content[e[1]].source = Content[d[1]].source /\ Content[e[1]].key = Content[d[1]].key
  <2>1. ASSUME NEW f \in {"source", "key"}, NEW l \in Messages
        PROVE  Fingerprint(l)[f] = Content[l][f]
    BY DEF Fingerprint
  <2> QED BY <1>1, <2>1, DeliveryParts
<1> QED BY <1>1, <1>2 DEF EventsOf, KeyOf

Step(d) ==
    /\ \A e \in Deliveries \ {d} : handler'[e] = handler[e]
    /\ handler[d].reply = "none"

\* What the handler of d tells is so of the job.
LEMMA TellingImplements ==
    ASSUME Consistent, Consistent', NEW d \in Deliveries, Step(d)
    PROVE  Ingress!Tell(KeyOf(d)) \/ ToldOf' = ToldOf
<1> DEFINE r == handler'[d].reply
           e == handler'[d].event
           k == KeyOf(d)
<1>1. k \in Keys
  BY KeysOfDeliveries
<1>2. CASE r \notin {"queued", "ignored"}
  BY <1>2 DEF Step, ToldOf
<1>3. CASE r \in {"queued", "ignored"}
  <2>1. ToldOf' = ToldOf \cup {<<k, r>>}
    BY <1>3 DEF Step, ToldOf, KeyOf
  <2>2. /\ e \in EventsOf(k)'
        /\ r = "queued" => e \in runs'
        /\ r = "ignored" => events'[e].status = "rejected" /\ e \notin runs'
    <3>1. /\ e \in Deliveries /\ events'[e] # None /\ events'[e].message = e[1]
          /\ Fingerprint(e[1]) = Fingerprint(d[1])
          /\ r = "queued" => e \in runs'
          /\ r = "ignored" => events'[e].status = "rejected"
      BY <1>3 DEF Consistent, AnswerHolds, Same, StoreStands, EventsStand
    <3>2. Content[e[1]].source = Content[d[1]].source /\ Content[e[1]].key = Content[d[1]].key
      <4>1. ASSUME NEW f \in {"source", "key"}, NEW l \in Messages
            PROVE  Fingerprint(l)[f] = Content[l][f]
        BY DEF Fingerprint
      <4> QED BY <3>1, <4>1, DeliveryParts
    <3>3. r = "ignored" => e \notin runs'
      BY <3>1 DEF Consistent, StoreStands, RunsAreAccepted
    <3> QED BY <3>1, <3>2, <3>3 DEF EventsOf, KeyOf
  <2>3. JobOf(k)' = IF e \in runs' THEN "queued" ELSE events'[e].status
    BY <1>1, <2>2, ConsistentJobsNext DEF JobsAreEvents
  <2>4. [l \in Keys |-> JobOf(l)]'[k] = JobOf(k)'
    BY <1>1
  <2> QED BY <1>3, <2>1, <2>2, <2>3, <2>4 DEF Ingress!Tell
<1> QED BY <1>2, <1>3

JobsRest == \A k \in Keys : JobOf(k)' = JobOf(k)

LEMMA RestingJobs ==
    ASSUME JobsRest
    PROVE  [k \in Keys |-> JobOf(k)]' = [k \in Keys |-> JobOf(k)]
BY DEF JobsRest

LEMMA RestingTables ==
    ASSUME UNCHANGED <<events, runs>>
    PROVE  JobsRest
BY DEF JobsRest, JobOf, EventsOf

\* An event is recorded under a key that has none.
LEMMA RecordingImplements ==
    ASSUME Consistent, Consistent', NEW d \in Deliveries, events[d] = None,
           events' = [events EXCEPT ![d] = EventRow(d)], UNCHANGED runs,
           EventRow(d).status \in {"accepted", "rejected"},
           EventRow(d).message = d[1], EventRow(d) # None
    PROVE  \E v \in {"accepted", "rejected"} : Ingress!Record(KeyOf(d), v)
<1> DEFINE k == KeyOf(d)
<1>0. PICK status \in {"accepted", "rejected"} : EventRow(d).status = status
  OBVIOUS
<1>1. k \in Keys
  BY KeysOfDeliveries
<1>2. /\ events'[d] = EventRow(d) /\ events'[d] # None
      /\ \A e \in Deliveries \ {d} : events'[e] = events[e]
  BY DEF Consistent, TypeOK
<1>3. EventsOf(k) = {}
  <2> SUFFICES ASSUME NEW e \in EventsOf(k) PROVE FALSE
    OBVIOUS
  <2>1. e \in Deliveries /\ events[e] # None /\ KeyOf(e) = k
    BY DEF EventsOf, KeyOf, Consistent, StoreStands, EventsStand
  <2>2. e # d /\ events'[e] # None
    BY <1>2, <2>1
  <2> QED BY <1>2, <2>1, <2>2 DEF Consistent, StoreStands, EventsAreUnique, Clash, KeyOf
<1>4. JobOf(k) = "unknown"
  BY <1>3 DEF JobOf
<1>5. d \in EventsOf(k)' /\ d \notin runs'
  BY <1>2 DEF EventsOf, KeyOf, Consistent, StoreStands, RunsAreAccepted
<1>6. JobOf(k)' = status
  BY <1>0, <1>1, <1>2, <1>5, ConsistentJobsNext DEF JobsAreEvents
<1>7. ASSUME NEW l \in Keys, l # k
      PROVE  JobOf(l)' = JobOf(l)
  <2>1. EventsOf(l)' = EventsOf(l) /\ d \notin EventsOf(l)
    BY <1>2, <1>7 DEF EventsOf, KeyOf
  <2>2. CASE EventsOf(l) = {}
    BY <2>1, <2>2 DEF JobOf
  <2>3. ASSUME NEW e \in EventsOf(l)
        PROVE  JobOf(l)' = JobOf(l)
    <3>1. e \in Deliveries \ {d} /\ e \in EventsOf(l)'
      BY <2>1, <2>3 DEF EventsOf
    <3> QED BY <1>2, <2>3, <3>1, ConsistentJobs, ConsistentJobsNext DEF JobsAreEvents
  <2> QED BY <2>2, <2>3
<1>8. [l \in Keys |-> JobOf(l)]' = [[l \in Keys |-> JobOf(l)] EXCEPT ![k] = status]
  BY <1>1, <1>6, <1>7
<1> QED BY <1>1, <1>4, <1>8 DEF Ingress!Record

\* A run is made for an accepted event.
LEMMA QueueingImplements ==
    ASSUME Consistent, Consistent', NEW d \in Deliveries, NEW e, Same(d, e),
           events[e].status = "accepted", runs' = runs \cup {e}, UNCHANGED events
    PROVE  Ingress!Queue(KeyOf(d)) \/ JobsRest
<1> DEFINE k == KeyOf(d)
<1>1. k \in Keys /\ e \in EventsOf(k) /\ e \in Deliveries
  BY KeysOfDeliveries, EventsUnderTheKey DEF Same
<1>2. \A l \in Keys : EventsOf(l)' = EventsOf(l)
  BY DEF EventsOf
<1>3. CASE e \in runs
  BY <1>3, RestingTables
<1>4. CASE e \notin runs
  <2>1. JobOf(k) = "accepted" /\ JobOf(k)' = "queued"
    BY <1>1, <1>2, <1>4, ConsistentJobs, ConsistentJobsNext DEF JobsAreEvents
  <2>2. ASSUME NEW l \in Keys, l # k
        PROVE  JobOf(l)' = JobOf(l)
    <3>1. EventsOf(l)' = EventsOf(l) /\ e \notin EventsOf(l)
      BY <1>1, <1>2, <2>2 DEF EventsOf, KeyOf
    <3>2. CASE EventsOf(l) = {}
      BY <3>1, <3>2 DEF JobOf
    <3>3. ASSUME NEW f \in EventsOf(l)
          PROVE  JobOf(l)' = JobOf(l)
      BY <3>1, <3>3, ConsistentJobs, ConsistentJobsNext DEF JobsAreEvents
    <3> QED BY <3>2, <3>3
  <2>3. [l \in Keys |-> JobOf(l)]' = [[l \in Keys |-> JobOf(l)] EXCEPT ![k] = "queued"]
    BY <1>1, <2>1, <2>2
  <2> QED BY <1>1, <2>1, <2>3 DEF Ingress!Queue
<1> QED BY <1>3, <1>4

IngressStep == Ingress!Next \/ UNCHANGED <<[k \in Keys |-> JobOf(k)], ToldOf>>

LEMMA StepImplements ==
    ASSUME Consistent, Consistent', NEW d \in Deliveries, Step(d),
           \/ Ingress!Queue(KeyOf(d)) \/ JobsRest
           \/ \E v \in {"accepted", "rejected"} : Ingress!Record(KeyOf(d), v)
    PROVE  Ingress!Next
BY KeysOfDeliveries, TellingImplements, RestingJobs DEF Ingress!Next

\* The handler of d goes on, or its statement fails.
LEMMA DeliveryImplements ==
    ASSUME Consistent, Consistent', NEW d \in Deliveries,
           Receive(d) \/ Handle(d) \/ StatementFails(d)
    PROVE  Ingress!Next
<1>1. Step(d)
  <2>1. TypeOK /\ AnswerHolds(d) /\ handler \in [Deliveries -> Handler] /\ handler[d] \in Handler
    BY DEF Consistent, TypeOK
  <2>2. handler[d].at # "done"
    BY DEF Receive, Handle, StatementFails, CheckTriggerSource, CheckWebhookSource,
           FindExistingEvent, InsertEvent, FindDuplicateEvent, FindRun, CreateRun, FindCreatedRun,
           Open, Awaiting
  <2>3. \A e \in Deliveries \ {d} : handler'[e] = handler[e]
    <3> SUFFICES ASSUME NEW e \in Deliveries \ {d}
                 PROVE  handler'[e] = handler[e]
      OBVIOUS
    <3>1. CASE Receive(d)
      BY <2>1, <3>1 DEF Receive, Go, Answer
    <3>2. CASE StatementFails(d)
      BY <2>1, <3>2 DEF StatementFails, Answer
    <3>3. CASE CheckTriggerSource(d)
      BY <2>1, <3>3 DEF CheckTriggerSource, Admitted, Answer
    <3>4. CASE CheckWebhookSource(d)
      BY <2>1, <3>4 DEF CheckWebhookSource, Admitted, Answer
    <3>5. CASE FindExistingEvent(d)
      BY <2>1, <3>5 DEF FindExistingEvent, Go, Existing, Recorded, Answer
    <3>6. CASE InsertEvent(d)
      BY <2>1, <3>6 DEF InsertEvent, Go, Recorded, Answer
    <3>7. CASE FindDuplicateEvent(d)
      BY <2>1, <3>7 DEF FindDuplicateEvent, Existing, Recorded, Answer
    <3>8. CASE FindRun(d) \/ CreateRun(d) \/ FindCreatedRun(d)
      BY <2>1, <3>8 DEF FindRun, CreateRun, FindCreatedRun, Go, Answer
    <3> QED BY <3>1, <3>2, <3>3, <3>4, <3>5, <3>6, <3>7, <3>8 DEF Handle
  <2> QED BY <2>1, <2>2, <2>3 DEF Step, AnswerHolds
<1>2. CASE UNCHANGED <<events, runs>>
  BY <1>1, <1>2, RestingTables, StepImplements
<1>3. CASE /\ handler[d].at = "insert" /\ Matching(d) = {}
           /\ events' = [events EXCEPT ![d] = EventRow(d)]
           /\ UNCHANGED <<sources, runs>>
  <2>1. events[d] = None /\ handler[d].status \in {"accepted", "rejected"}
    BY <1>3, InsertStands DEF Consistent, HandlerKnows
  <2>2. EventRow(d).status = handler[d].status /\ EventRow(d).message = d[1]
    BY DEF EventRow
  <2>3. EventRow(d) # None
    BY <1>3, <2>1, EventRowTypes, DeliveryParts DEF Consistent, TypeOK, HandlerKnows, Owns, Source
  <2>4. \E v \in {"accepted", "rejected"} : Ingress!Record(KeyOf(d), v)
    BY <1>3, <2>1, <2>2, <2>3, RecordingImplements
  <2> QED BY <1>1, <2>1, <2>4, StepImplements
<1>4. CASE /\ handler[d].at = "create" /\ runs' = runs \cup {handler[d].event}
           /\ UNCHANGED events
  <2>1. Same(d, handler[d].event) /\ events[handler[d].event].status = "accepted"
    BY <1>4 DEF Consistent, HandlerKnows
  <2> QED BY <1>1, <1>4, <2>1, QueueingImplements, StepImplements
<1> QED
  BY <1>2, <1>3, <1>4
     DEF Receive, Handle, StatementFails, CheckTriggerSource, CheckWebhookSource,
         FindExistingEvent, InsertEvent, FindDuplicateEvent, FindRun, CreateRun, FindCreatedRun

\* The handlers implement the promise that all deliveries under one key are one
\* job, which is accepted or rejected once and queued once, and that nobody is
\* told of it before (recordEvent, getOrCreateRunForEvent).
THEOREM HandlersImplementIngress == Spec => ImplementsIngress
<1>1. Init => Ingress!Init
  BY DEF Init, Ingress!Init, JobOf, EventsOf, ToldOf
<1>2. Consistent /\ Consistent' /\ [Next]_vars
        => [Ingress!Next]_<<[k \in Keys |-> JobOf(k)], ToldOf>>
  <2> SUFFICES ASSUME Consistent, Consistent', [Next]_vars
               PROVE  IngressStep
    BY DEF IngressStep
  <2>1. UNCHANGED <<events, runs>> /\ ToldOf' = ToldOf => IngressStep
    BY RestingTables, RestingJobs DEF IngressStep
  <2>2. CASE UNCHANGED <<events, runs, handler>>
    BY <2>1, <2>2 DEF ToldOf
  <2>3. CASE Restart
    <3>1. \A d \in Deliveries :
            \/ handler'[d] = handler[d]
            \/ handler[d].reply = "none" /\ handler'[d].reply = "lost"
      <4> SUFFICES ASSUME NEW d \in Deliveries
                   PROVE  \/ handler'[d] = handler[d]
                          \/ handler[d].reply = "none" /\ handler'[d].reply = "lost"
        OBVIOUS
      <4>1. handler[d] \in Handler /\ AnswerHolds(d)
        BY DEF Consistent, TypeOK
      <4> QED BY <2>3, <4>1 DEF Restart, Open, Awaiting, AnswerHolds, Handler
    <3>2. ToldOf' = ToldOf
      BY <3>1 DEF ToldOf
    <3> QED BY <2>1, <2>3, <3>2 DEF Restart
  <2>4. ASSUME NEW d \in Deliveries, Receive(d) \/ Handle(d) \/ StatementFails(d)
        PROVE  IngressStep
    BY <2>4, DeliveryImplements DEF IngressStep
  <2> QED
    BY <2>2, <2>3, <2>4
       DEF Next, vars, CreateSource, RotateSourceToken, DisableSource, ChangePolicy
<1>3. Consistent /\ [Next]_vars => Consistent'
  BY NextStands
<1> QED
  BY <1>1, <1>2, <1>3, InitConsistent, PTL DEF Spec, ImplementsIngress, Ingress!Spec
=============================================================================
