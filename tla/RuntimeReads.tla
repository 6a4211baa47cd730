----------------------------- MODULE RuntimeReads -----------------------------
(***************************************************************************)
(* What can be read of the runtime's session: the getters of               *)
(* runtime/state_store.py and the GET routes of runtime/api.py that answer  *)
(* from them.  A route reads several fields, each under the store's lock,   *)
(* and awaits nothing in between, so that a reply is of one state.          *)
(***************************************************************************)
EXTENDS RuntimeStateStore

\* current_event: _history always keeps it.
CurrentEvent == IF history = <<>> THEN None ELSE Last(history)

GetSnapshot ==
  [session |-> session, status |-> status, step |-> step, total |-> total, mode |-> mode,
   event |-> CurrentEvent, count |-> Len(history)]

\* Also the reply of GET /demo/status, with the adapter's speed.
GetSessionInfo ==
  [session |-> session, status |-> status, step |-> step, total |-> total, mode |-> mode,
   count |-> Len(history)]

GetEvent(i) ==
  LET found == {k \in DOMAIN history : history[k].index = i}
  IN IF found = {} THEN None ELSE history[Min(found)]

\* The members of s at these positions, in order.
Selected(s, positions) ==
  [j \in 1..Cardinality(positions) |->
     s[CHOOSE k \in positions : Cardinality({i \in positions : i <= k}) = j]]

EventsSince(since) ==
  Selected(history, {k \in DOMAIN history : since = None \/ history[k].index >= since})

FirstOf(events, limit) == SubSeq(events, 1, Min({limit, Len(events)}))
LastOf(events, limit) == SubSeq(events, Len(events) - Min({limit, Len(events)}) + 1, Len(events))

\* Mutant: a page from the beginning.
GetOldestEvents(limit, since) ==
  IF limit = None THEN EventsSince(since) ELSE FirstOf(EventsSince(since), limit)

\* From since on; of those the last ones, when there are more than limit.
GetEventHistory(limit, since) ==
  IF limit = None THEN EventsSince(since) ELSE LastOf(EventsSince(since), limit)

-----------------------------------------------------------------------------
(* The routes                                                              *)

\* GET /state/current, and the reply to POST /demo/step with the event of that
\* step, None when the scenario was over.
CurrentStateResponse == [session : SessionId \union {None}, hasEvent : BOOLEAN,
                         status : DemoStatus, mode : Mode, event : DemoEvent \union {None}]
BuildCurrentStateResponse(event) ==
  [session |-> session, hasEvent |-> event # None, status |-> status, mode |-> mode,
   event |-> event]

\* GET /forecast, /security and /decision/current: each its part of the event.
EventPart == {"forecast", "security", "decision"}
CurrentPart(part) ==
  [session |-> session, part |-> part,
   step |-> IF CurrentEvent = None THEN None ELSE CurrentEvent.index]

\* GET /events: 422 for a negative since_step or a limit out of 1 to 500.
EventHistoryResponse(since, limit) ==
  IF (since # None /\ since < 0) \/ limit \notin 1..500 THEN "422"
  ELSE [session |-> session, events |-> GetEventHistory(limit, since)]

-----------------------------------------------------------------------------
\* The events the history still holds.
KeptFrom(since) == {e \in ToSet(history) : since = None \/ e.index >= since}

\* A page of the history is the end of it: no event between its first and the
\* current one is missing, and none before it is left out for less than a full
\* page.
PageIsTheEnd(since, limit) ==
  LET page == EventHistoryResponse(since, limit).events IN
  /\ ToSet(page) \subseteq KeptFrom(since) /\ Len(page) <= limit
  /\ page # <<>> => Last(page) = CurrentEvent
  /\ \A k \in 2..Len(page) : page[k].index = page[k - 1].index + 1
  /\ Len(page) < limit => ToSet(page) = KeptFrom(since)

(* The routes agree with each other: whichever a client asks, it hears of    *)
(* the same session and the same current event, and what it is not told by   *)
(* a page of the history it is told by the next longer one.                  *)
ReadsAgree ==
  /\ BuildCurrentStateResponse(CurrentEvent) \in CurrentStateResponse
  /\ GetSnapshot.event # None <=> step >= 0
  /\ GetSessionInfo.count = Len(GetEventHistory(None, None))
  /\ \A part \in EventPart :
       /\ CurrentPart(part).session = GetSessionInfo.session
       /\ CurrentPart(part).step # None => GetEvent(CurrentPart(part).step) = CurrentEvent
  /\ \A i \in 0..(MaxSteps - 1) :
       GetEvent(i) # None <=> i <= step /\ i > step - Len(history)
  /\ \A since \in (0..MaxSteps) \union {None}, limit \in 1..MaxSteps :
       limit <= 500 => PageIsTheEnd(since, limit)
=============================================================================
