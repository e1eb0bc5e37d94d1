-------------------------- MODULE AnnouncerProofs --------------------------
(***************************************************************************)
(* Proofs about the announcers, for any torrents, trackers, tasks and      *)
(* client profiles, and announces that overlap in any way.                 *)
(***************************************************************************)
EXTENDS Announcer, TLAPS

\* A regular announce emits what any announce emits, and the others emit the
\* same pairs: what fits one of these fits every event.
LEMMA EventShowsAll ==
    ASSUME NEW template, NEW home, NEW e \in Event, TemplateFits(template, e, home)
    PROVE  /\ TemplateFits(template, "none", home)
           /\ e # "none" => \A event \in Event : TemplateFits(template, event, home)
<1>1. Emitted(template, "none", home) \subseteq Emitted(template, e, home)
  BY DEF Emitted, ShouldEmit
<1>2. ASSUME e # "none", NEW event \in Event
      PROVE  Emitted(template, event, home) \subseteq Emitted(template, e, home)
  BY <1>2 DEF Emitted, ShouldEmit
<1> QED
  BY <1>1, <1>2 DEF TemplateFits

\* A query that is built fits the template.
LEMMA BuildKeeps ==
    ASSUME TemplateErrorsShowAtFirstUse,
           NEW k \in Task, NEW t \in Torrent, NEW event \in Event,
           BuildQuery(k, t, event)
    PROVE  TemplateErrorsShowAtFirstUse'
<1>1. client' = client /\ address' = address /\ shown' = (shown \/ event # "none")
  BY DEF BuildQuery
<1>2. TemplateFits(client.template, event, address)
  BY DEF BuildQuery
<1>3. TemplateFits(client.template, "none", address)
  BY <1>2, EventShowsAll
<1>4. ASSUME shown \/ event # "none"
      PROVE  \A e \in Event : TemplateFits(client.template, e, address)
  BY <1>2, <1>4, EventShowsAll DEF TemplateErrorsShowAtFirstUse
<1> QED
  BY <1>1, <1>3, <1>4 DEF TemplateErrorsShowAtFirstUse

\* No other step builds a query or changes the profile or the address.
LEMMA OthersKeep ==
    ASSUME TemplateErrorsShowAtFirstUse, UNCHANGED <<client, address, carried, shown>>
    PROVE  TemplateErrorsShowAtFirstUse'
BY DEF TemplateErrorsShowAtFirstUse

LEMMA StepKeeps ==
    TemplateErrorsShowAtFirstUse /\ [Next]_vars => TemplateErrorsShowAtFirstUse'
<1> SUFFICES ASSUME TemplateErrorsShowAtFirstUse, [Next]_vars
             PROVE  TemplateErrorsShowAtFirstUse'
  OBVIOUS
<1>1. CASE \E t \in Torrent, event \in Event, k \in Task : BuildQuery(k, t, event)
  BY <1>1, BuildKeeps
<1>2. CASE \E t \in Torrent, event \in Event : QueryFails(t, event)
  BY <1>2, OthersKeep DEF QueryFails
<1>3. CASE \E k \in Task : Succeed(k)
  BY <1>3, OthersKeep DEF Succeed
<1>4. CASE \E k \in Task : Rotate(k)
  BY <1>4, OthersKeep DEF Rotate, history
<1>5. CASE \E k \in Task : CountFailure(k)
  BY <1>5, OthersKeep DEF CountFailure
<1>6. CASE \E k \in Task : Abort(k)
  BY <1>6, OthersKeep DEF Abort
<1>7. CASE \E t \in Torrent : Recreate(t)
  BY <1>7, OthersKeep DEF Recreate
<1>8. CASE Elapse
  BY <1>8, OthersKeep DEF Elapse, history
<1>9. CASE UNCHANGED vars
  BY <1>9, OthersKeep DEF vars, program, history
<1> QED
  BY <1>1, <1>2, <1>3, <1>4, <1>5, <1>6, <1>7, <1>8, <1>9 DEF Next

\* A template the client cannot fill in shows when it is first used, for any
\* template and address, whatever order the events are asked for in: the first
\* query vouches for every regular announce, the first one with an event for
\* every announce (bit_torrent_client.rs, announcer/state.rs:164).
THEOREM TemplateErrors == Spec => []TemplateErrorsShowAtFirstUse
<1>1. Init => TemplateErrorsShowAtFirstUse
  BY DEF Init, TemplateErrorsShowAtFirstUse
<1> QED
  BY <1>1, StepKeeps, PTL DEF Spec

-----------------------------------------------------------------------------
(* The cursor.  RetrySeesAnotherTracker follows from what is kept about     *)
(* calls that nothing overlapped: they find the cursor where they read it.  *)

Call == [stage : {"awaiting", "failed"}, torrent : Torrent, position : Nat \ {0}]

Typed ==
    /\ announcer \in [Torrent -> [cursor : Nat, fails : Nat]]
    /\ \A t \in Torrent :
          announcer[t] # NoAnnouncer => announcer[t].cursor \in 1..Len(Uris[t])
    /\ call \in [Task -> {NoCall} \cup Call]
    /\ \A k \in Task : call[k] # NoCall => announcer[call[k].torrent] # NoAnnouncer
    /\ failedAt \in [Torrent -> Nat]
    /\ alone \subseteq Task

\* A call that nothing overlapped is the only one, and nothing but its own
\* failure moves the cursor.
AloneInv ==
    \A k \in alone :
        /\ call[k] # NoCall
        /\ Calling(call[k].torrent) = {k}
        /\ call[k].stage = "awaiting" =>
              call[k].position = announcer[call[k].torrent].cursor
        /\ call[k].stage = "failed" /\ Len(Uris[call[k].torrent]) > 1 =>
              call[k].position # announcer[call[k].torrent].cursor

\* While no failed call is still to be counted, the cursor is elsewhere.
FailedInv ==
    \A t \in Torrent :
        /\ announcer[t] # NoAnnouncer /\ failedAt[t] # 0 /\ Len(Uris[t]) > 1
        /\ \A k \in Calling(t) : call[k].stage = "awaiting"
        => announcer[t].cursor # failedAt[t]

CursorInv == Typed /\ AloneInv /\ FailedInv

LEMMA NextPosition ==
    ASSUME NEW t \in Torrent, NEW c \in 1..Len(Uris[t])
    PROVE  /\ MoveToNext(t, c) \in 1..Len(Uris[t])
           /\ Len(Uris[t]) > 1 => MoveToNext(t, c) # c
<1>1. Len(Uris[t]) \in Nat
  BY UrisAssumption
<1>2. ASSUME NEW m \in Nat, NEW d \in 1..m
      PROVE  (d % m) + 1 \in 1..m /\ (m > 1 => (d % m) + 1 # d)
  <2>1. d % m = IF d = m THEN 0 ELSE d
    BY Z3
  <2> QED
    BY <2>1
<1> QED
  BY <1>1, <1>2 DEF MoveToNext

LEMMA CursorInit == Init => CursorInv
<1> SUFFICES ASSUME Init PROVE CursorInv
  OBVIOUS
<1>1. \A t \in Torrent : Len(Uris[t]) \in Nat /\ (Uris[t] # <<>> => Len(Uris[t]) >= 1)
  BY UrisAssumption
<1>2. Typed
  BY <1>1 DEF Init, Typed, NewAnnouncer, NoAnnouncer
<1>3. AloneInv /\ FailedInv
  BY DEF Init, AloneInv, FailedInv
<1> QED
  BY <1>2, <1>3 DEF CursorInv

LEMMA BuildKeepsCursor ==
    ASSUME CursorInv, NEW k \in Task, NEW t \in Torrent, NEW event \in Event,
           BuildQuery(k, t, event)
    PROVE  CursorInv'
<1> DEFINE new == [stage |-> "awaiting", torrent |-> t, position |-> announcer[t].cursor]
<1>1. /\ announcer[t] # NoAnnouncer /\ call[k] = NoCall
      /\ call' = [call EXCEPT ![k] = new]
      /\ UNCHANGED <<announcer, failedAt>>
      /\ alone' = IF Calling(t) = {} THEN alone \cup {k} ELSE alone \ Calling(t)
  BY DEF BuildQuery
<1>2. new \in Call /\ new # NoCall
  BY <1>1, UrisAssumption DEF CursorInv, Typed, Call, NoCall
<1>3. Typed'
  <2>1. call' \in [Task -> {NoCall} \cup Call]
    BY <1>1, <1>2 DEF CursorInv, Typed
  <2>2. ASSUME NEW j \in Task, call'[j] # NoCall PROVE announcer'[call'[j].torrent] # NoAnnouncer
    BY <1>1, <2>2 DEF CursorInv, Typed
  <2>3. alone' \subseteq Task
    BY <1>1 DEF CursorInv, Typed
  <2> QED
    BY <1>1, <2>1, <2>2, <2>3 DEF CursorInv, Typed
<1>4. \A u \in Torrent : Calling(u)' = IF u = t THEN Calling(u) \cup {k} ELSE Calling(u)
  BY <1>1, <1>2 DEF CursorInv, Typed, Calling
<1>5. AloneInv'
  <2> SUFFICES ASSUME NEW j \in alone'
               PROVE  /\ call'[j] # NoCall
                      /\ (Calling(call[j].torrent))' = {j}
                      /\ call'[j].stage = "awaiting" =>
                            call'[j].position = announcer'[call'[j].torrent].cursor
                      /\ call'[j].stage = "failed" /\ Len(Uris[call'[j].torrent]) > 1 =>
                            call'[j].position # announcer'[call'[j].torrent].cursor
    BY DEF AloneInv
  <2>1. CASE j = k
    <3>1. k \notin alone
      BY <1>1 DEF CursorInv, AloneInv
    <3>2. Calling(t) = {}
      BY <1>1, <2>1, <3>1
    <3> QED
      BY <1>1, <1>2, <1>4, <2>1, <3>2 DEF CursorInv, Typed
  <2>2. CASE j # k
    <3>1. j \in alone /\ call'[j] = call[j] /\ call[j] # NoCall
      BY <1>1, <2>2 DEF CursorInv, Typed, AloneInv
    <3>2. call[j].torrent \in Torrent /\ j \in Calling(call[j].torrent)
      BY <3>1 DEF CursorInv, Typed, Call, Calling
    <3>3. call[j].torrent # t
      BY <1>1, <3>1, <3>2, <2>2
    <3> QED
      BY <1>1, <1>4, <3>1, <3>2, <3>3 DEF CursorInv, AloneInv
  <2> QED
    BY <2>1, <2>2
<1>6. FailedInv'
  <2> SUFFICES ASSUME NEW u \in Torrent, announcer'[u] # NoAnnouncer, failedAt'[u] # 0,
                      Len(Uris[u]) > 1, \A j \in Calling(u)' : call'[j].stage = "awaiting"
               PROVE  announcer'[u].cursor # failedAt'[u]
    BY DEF FailedInv
  <2>1. \A j \in Calling(u) : call[j].stage = "awaiting"
    BY <1>1, <1>4 DEF CursorInv, Typed, Calling
  <2> QED
    BY <1>1, <2>1 DEF CursorInv, FailedInv
<1> QED
  BY <1>3, <1>5, <1>6 DEF CursorInv

\* A call returns, and no cursor moves.
LEMMA ReturnKeepsCursor ==
    ASSUME CursorInv, NEW k \in Task, call[k] # NoCall, Return(k),
           announcer' \in [Torrent -> [cursor : Nat, fails : Nat]],
           \A t \in Torrent : /\ announcer'[t].cursor = announcer[t].cursor
                              /\ announcer'[t] = NoAnnouncer <=> announcer[t] = NoAnnouncer,
           failedAt' \in [Torrent -> Nat],
           \A t \in Torrent : failedAt'[t] = failedAt[t] \/ failedAt'[t] = 0
                              \/ /\ t = call[k].torrent /\ k \in alone /\ call[k].stage = "failed"
                                 /\ failedAt'[t] = call[k].position,
           call[k].stage = "failed" =>
               failedAt'[call[k].torrent] = IF k \in alone THEN call[k].position ELSE 0
    PROVE  CursorInv'
<1>1. /\ call' = [call EXCEPT ![k] = NoCall]
      /\ alone' = alone \ {k}
  BY DEF Return
<1>2. Typed'
  <2>1. ASSUME NEW t \in Torrent, announcer'[t] # NoAnnouncer
        PROVE  announcer'[t].cursor \in 1..Len(Uris[t])
    BY <2>1 DEF CursorInv, Typed
  <2>2. call' \in [Task -> {NoCall} \cup Call] /\ alone' \subseteq Task
    BY <1>1 DEF CursorInv, Typed
  <2>3. ASSUME NEW j \in Task, call'[j] # NoCall PROVE announcer'[call'[j].torrent] # NoAnnouncer
    <3>1. call'[j] = call[j]
      BY <1>1, <2>3 DEF CursorInv, Typed
    <3>2. call[j].torrent \in Torrent /\ announcer[call[j].torrent] # NoAnnouncer
      BY <2>3, <3>1 DEF CursorInv, Typed, Call
    <3> QED
      BY <3>1, <3>2
  <2> QED
    BY <2>1, <2>2, <2>3 DEF Typed
<1>3. \A u \in Torrent : Calling(u)' = Calling(u) \ {k}
  BY <1>1 DEF CursorInv, Typed, Calling
<1>4. AloneInv'
  <2> SUFFICES ASSUME NEW j \in alone'
               PROVE  /\ call'[j] # NoCall
                      /\ (Calling(call[j].torrent))' = {j}
                      /\ call'[j].stage = "awaiting" =>
                            call'[j].position = announcer'[call'[j].torrent].cursor
                      /\ call'[j].stage = "failed" /\ Len(Uris[call'[j].torrent]) > 1 =>
                            call'[j].position # announcer'[call'[j].torrent].cursor
    BY DEF AloneInv
  <2>1. j \in alone /\ j # k /\ call'[j] = call[j] /\ call[j] # NoCall
    BY <1>1 DEF CursorInv, Typed, AloneInv
  <2>2. call[j].torrent \in Torrent
    BY <1>1, <2>1 DEF CursorInv, Typed, Call
  <2>3. announcer'[call[j].torrent].cursor = announcer[call[j].torrent].cursor
    BY <2>2
  <2>4. Calling(call[j].torrent) = {j}
    BY <2>1 DEF CursorInv, AloneInv
  <2>5. (Calling(call[j].torrent))' = {j}
    BY <1>1, <2>1, <2>2, <2>4 DEF CursorInv, Typed, Calling
  <2> QED
    BY <2>1, <2>3, <2>5 DEF CursorInv, AloneInv
<1>5. FailedInv'
  <2> SUFFICES ASSUME NEW u \in Torrent, announcer'[u] # NoAnnouncer, failedAt'[u] # 0,
                      Len(Uris[u]) > 1, \A j \in Calling(u)' : call'[j].stage = "awaiting"
               PROVE  announcer'[u].cursor # failedAt'[u]
    BY DEF FailedInv
  <2>1. CASE /\ u = call[k].torrent /\ k \in alone /\ call[k].stage = "failed"
             /\ failedAt'[u] = call[k].position
    BY <2>1 DEF CursorInv, AloneInv
  <2>2. CASE failedAt'[u] = failedAt[u] /\ ~(k \in Calling(u) /\ call[k].stage = "failed")
    <3>1. \A j \in Calling(u) : call[j].stage = "awaiting"
      BY <1>1, <1>3, <2>2 DEF CursorInv, Typed, Call, Calling
    <3> QED
      BY <2>2, <3>1 DEF CursorInv, FailedInv
  <2>3. CASE k \in Calling(u) /\ call[k].stage = "failed"
    BY <2>1, <2>3 DEF Calling
  <2> QED
    BY <2>1, <2>2, <2>3
<1> QED
  BY <1>2, <1>4, <1>5 DEF CursorInv

LEMMA RotateKeepsCursor ==
    ASSUME CursorInv, NEW k \in Task, call[k] # NoCall, Rotate(k)
    PROVE  CursorInv'
<1> DEFINE t == call[k].torrent
           moved == MoveToNext(t, announcer[t].cursor)
<1>1. /\ call[k].stage = "awaiting"
      /\ announcer' = [announcer EXCEPT ![t].cursor = moved]
      /\ call' = [call EXCEPT ![k].stage = "failed"]
      /\ UNCHANGED <<failedAt, alone>>
  BY DEF Rotate, history
<1>2. /\ t \in Torrent /\ announcer[t] # NoAnnouncer /\ k \in Calling(t)
      /\ announcer[t].cursor \in 1..Len(Uris[t]) /\ call[k] \in Call
  BY DEF CursorInv, Typed, Call, Calling
<1>3. moved \in 1..Len(Uris[t]) /\ (Len(Uris[t]) > 1 => moved # announcer[t].cursor)
  BY <1>2, NextPosition
<1>4. /\ announcer' \in [Torrent -> [cursor : Nat, fails : Nat]]
      /\ announcer'[t].cursor = moved
      /\ \A u \in Torrent \ {t} : announcer'[u] = announcer[u]
      /\ announcer'[t] # NoAnnouncer
  <2>1. moved \in Nat /\ moved # 0
    BY <1>3
  <2> HIDE DEF moved, t
  <2> QED
    BY <1>1, <1>2, <2>1 DEF CursorInv, Typed, NoAnnouncer
<1>5. /\ call' \in [Task -> {NoCall} \cup Call]
      /\ call'[k].stage = "failed" /\ call'[k].torrent = t /\ call'[k].position = call[k].position
      /\ call'[k] # NoCall
      /\ \A j \in Task \ {k} : call'[j] = call[j]
  <2>1. call \in [Task -> {NoCall} \cup Call]
    BY DEF CursorInv, Typed
  <2>2. call'[k] = [call[k] EXCEPT !.stage = "failed"]
        /\ \A j \in Task \ {k} : call'[j] = call[j]
    BY <1>1, <2>1
  <2>3. /\ call'[k] \in Call /\ call'[k].stage = "failed"
        /\ call'[k].torrent = call[k].torrent /\ call'[k].position = call[k].position
    BY <1>2, <2>2 DEF Call
  <2>4. call' \in [Task -> {NoCall} \cup Call]
    BY <1>1, <2>1, <2>2, <2>3
  <2>5. call'[k] # NoCall
    BY <2>3 DEF NoCall
  <2> QED
    BY <2>2, <2>3, <2>4, <2>5
<1>6. Typed'
  <2>1. ASSUME NEW j \in Task, call'[j] # NoCall PROVE announcer'[call'[j].torrent] # NoAnnouncer
    BY <1>2, <1>4, <1>5, <2>1, ZenonT(60) DEF CursorInv, Typed, Call
  <2>2. ASSUME NEW u \in Torrent, announcer'[u] # NoAnnouncer
        PROVE  announcer'[u].cursor \in 1..Len(Uris[u])
    BY <1>3, <1>4, <2>2 DEF CursorInv, Typed
  <2> QED
    BY <1>1, <1>4, <1>5, <2>1, <2>2 DEF CursorInv, Typed
<1>7. \A u \in Torrent : Calling(u)' = Calling(u)
  BY <1>2, <1>5 DEF Calling
<1>8. AloneInv'
  <2> SUFFICES ASSUME NEW j \in alone'
               PROVE  /\ call'[j] # NoCall
                      /\ (Calling(call[j].torrent))' = {j}
                      /\ call'[j].stage = "awaiting" =>
                            call'[j].position = announcer'[call'[j].torrent].cursor
                      /\ call'[j].stage = "failed" /\ Len(Uris[call'[j].torrent]) > 1 =>
                            call'[j].position # announcer'[call'[j].torrent].cursor
    BY DEF AloneInv
  <2>1. j \in alone /\ j \in Task /\ call[j] # NoCall /\ Calling(call[j].torrent) = {j}
    BY <1>1 DEF CursorInv, Typed, AloneInv
  <2>2. CASE j = k
    BY <1>1, <1>2, <1>3, <1>4, <1>5, <1>7, <2>1, <2>2, ZenonT(60) DEF CursorInv, AloneInv
  <2>3. CASE j # k
    <3>1. call'[j] = call[j] /\ call[j].torrent \in Torrent
      BY <1>5, <2>1, <2>3 DEF CursorInv, Typed, Call
    <3>2. call[j].torrent # t
      BY <1>2, <2>1, <2>3
    <3> QED
      BY <1>1, <1>4, <1>7, <2>1, <3>1, <3>2, SMTT(30) DEF CursorInv, AloneInv
  <2> QED
    BY <2>2, <2>3
<1>9. FailedInv'
  <2> SUFFICES ASSUME NEW u \in Torrent, announcer'[u] # NoAnnouncer, failedAt'[u] # 0,
                      Len(Uris[u]) > 1, \A j \in Calling(u)' : call'[j].stage = "awaiting"
               PROVE  announcer'[u].cursor # failedAt'[u]
    BY DEF FailedInv
  <2>1. u # t
    BY <1>2, <1>5, <1>7
  <2>2. \A j \in Calling(u) : call[j].stage = "awaiting"
    BY <1>2, <1>5, <1>7, <2>1 DEF Calling
  <2> QED
    BY <1>1, <1>4, <2>1, <2>2 DEF CursorInv, FailedInv
<1> QED
  BY <1>6, <1>8, <1>9 DEF CursorInv

LEMMA SucceedKeepsCursor ==
    ASSUME CursorInv, NEW k \in Task, call[k] # NoCall, Succeed(k)
    PROVE  CursorInv'
<1>1. /\ call[k].stage = "awaiting" /\ Return(k)
      /\ announcer' = [announcer EXCEPT ![call[k].torrent].fails = 0]
      /\ failedAt' = [failedAt EXCEPT ![call[k].torrent] = 0]
  BY DEF Succeed
<1>2. call[k].torrent \in Torrent /\ announcer[call[k].torrent] # NoAnnouncer
      /\ announcer[call[k].torrent].cursor # 0
  BY DEF CursorInv, Typed, Call
<1>3. /\ announcer' \in [Torrent -> [cursor : Nat, fails : Nat]]
      /\ \A t \in Torrent : /\ announcer'[t].cursor = announcer[t].cursor
                            /\ announcer'[t] = NoAnnouncer <=> announcer[t] = NoAnnouncer
  BY <1>1, <1>2 DEF CursorInv, Typed, NoAnnouncer
<1>4. /\ failedAt' \in [Torrent -> Nat]
      /\ \A t \in Torrent : failedAt'[t] = failedAt[t] \/ failedAt'[t] = 0
  BY <1>1 DEF CursorInv, Typed
<1> QED
  BY <1>1, <1>3, <1>4, ReturnKeepsCursor

LEMMA CountKeepsCursor ==
    ASSUME CursorInv, NEW k \in Task, call[k] # NoCall, CountFailure(k)
    PROVE  CursorInv'
<1> DEFINE at == IF k \in alone THEN call[k].position ELSE 0
<1>1. /\ call[k].stage = "failed" /\ Return(k)
      /\ announcer' = [announcer EXCEPT ![call[k].torrent].fails = @ + 1]
      /\ failedAt' = [failedAt EXCEPT ![call[k].torrent] = at]
  BY DEF CountFailure
<1>2. call[k].torrent \in Torrent /\ announcer[call[k].torrent] # NoAnnouncer
      /\ announcer[call[k].torrent].cursor # 0 /\ at \in Nat
  BY DEF CursorInv, Typed, Call
<1>3. /\ announcer' \in [Torrent -> [cursor : Nat, fails : Nat]]
      /\ \A t \in Torrent : /\ announcer'[t].cursor = announcer[t].cursor
                            /\ announcer'[t] = NoAnnouncer <=> announcer[t] = NoAnnouncer
  BY <1>1, <1>2 DEF CursorInv, Typed, NoAnnouncer
<1>4. /\ failedAt' \in [Torrent -> Nat]
      /\ failedAt'[call[k].torrent] = at
      /\ \A t \in Torrent \ {call[k].torrent} : failedAt'[t] = failedAt[t]
  BY <1>1, <1>2 DEF CursorInv, Typed
<1> QED
  BY <1>1, <1>3, <1>4, ReturnKeepsCursor

LEMMA AbortKeepsCursor ==
    ASSUME CursorInv, NEW k \in Task, call[k] # NoCall, Abort(k)
    PROVE  CursorInv'
<1>1. call[k].stage = "awaiting" /\ Return(k) /\ announcer' = announcer /\ failedAt' = failedAt
  BY DEF Abort
<1>2. announcer' \in [Torrent -> [cursor : Nat, fails : Nat]] /\ failedAt' \in [Torrent -> Nat]
  BY <1>1 DEF CursorInv, Typed
<1> QED
  BY <1>1, <1>2, ReturnKeepsCursor

LEMMA RecreateKeepsCursor ==
    ASSUME CursorInv, NEW t \in Torrent, Recreate(t)
    PROVE  CursorInv'
<1>1. /\ announcer[t] # NoAnnouncer
      /\ announcer' = [announcer EXCEPT ![t] = NewAnnouncer(t)]
      /\ call' = [k \in Task |-> IF k \in Calling(t) THEN NoCall ELSE call[k]]
      /\ alone' = alone \ Calling(t)
      /\ failedAt' = [failedAt EXCEPT ![t] = 0]
  BY DEF Recreate
<1>2. /\ NewAnnouncer(t) \in [cursor : Nat, fails : Nat]
      /\ NewAnnouncer(t) # NoAnnouncer => NewAnnouncer(t).cursor \in 1..Len(Uris[t])
  <2>1. Len(Uris[t]) \in Nat /\ (Uris[t] # <<>> => Len(Uris[t]) >= 1)
    BY UrisAssumption
  <2> QED
    BY <2>1 DEF NewAnnouncer, NoAnnouncer
<1>3. ASSUME NEW k \in Task, call'[k] # NoCall
      PROVE  /\ call'[k] = call[k] /\ call[k] \in Call
             /\ call[k].torrent \in Torrent \ {t}
             /\ announcer'[call[k].torrent] = announcer[call[k].torrent]
  <2>1. call'[k] = call[k] /\ call[k] # NoCall /\ k \notin Calling(t)
    BY <1>1, <1>3
  <2>2. call[k] \in Call /\ call[k].torrent \in Torrent \ {t}
    BY <2>1 DEF CursorInv, Typed, Call, Calling
  <2> QED
    BY <1>1, <2>1, <2>2 DEF CursorInv, Typed
<1>4. Typed'
  <2>1. announcer' \in [Torrent -> [cursor : Nat, fails : Nat]] /\ failedAt' \in [Torrent -> Nat]
    BY <1>1, <1>2 DEF CursorInv, Typed
  <2>2. ASSUME NEW u \in Torrent, announcer'[u] # NoAnnouncer
        PROVE  announcer'[u].cursor \in 1..Len(Uris[u])
    BY <1>1, <1>2, <2>2 DEF CursorInv, Typed
  <2>3. call' \in [Task -> {NoCall} \cup Call] /\ alone' \subseteq Task
    BY <1>1 DEF CursorInv, Typed
  <2>4. ASSUME NEW k \in Task, call'[k] # NoCall PROVE announcer'[call'[k].torrent] # NoAnnouncer
    BY <1>3, <2>4 DEF CursorInv, Typed
  <2> QED
    BY <2>1, <2>2, <2>3, <2>4 DEF Typed
<1>5. AloneInv'
  <2> SUFFICES ASSUME NEW j \in alone'
               PROVE  /\ call'[j] # NoCall
                      /\ (Calling(call[j].torrent))' = {j}
                      /\ call'[j].stage = "awaiting" =>
                            call'[j].position = announcer'[call'[j].torrent].cursor
                      /\ call'[j].stage = "failed" /\ Len(Uris[call'[j].torrent]) > 1 =>
                            call'[j].position # announcer'[call'[j].torrent].cursor
    BY DEF AloneInv
  <2>1. j \in alone /\ j \in Task /\ call'[j] = call[j] /\ call[j] # NoCall
    BY <1>1 DEF CursorInv, Typed, AloneInv
  <2>2. call'[j] # NoCall /\ announcer'[call[j].torrent] = announcer[call[j].torrent]
    BY <1>3, <2>1
  <2>3. Calling(call[j].torrent) = {j}
    BY <2>1 DEF CursorInv, AloneInv
  <2>4. (Calling(call[j].torrent))' = {j}
    BY <1>1, <1>3, <2>1, <2>2, <2>3 DEF Calling
  <2> QED
    BY <2>1, <2>2, <2>4 DEF CursorInv, AloneInv
<1>6. FailedInv'
  <2> SUFFICES ASSUME NEW u \in Torrent, announcer'[u] # NoAnnouncer, failedAt'[u] # 0,
                      Len(Uris[u]) > 1, \A j \in Calling(u)' : call'[j].stage = "awaiting"
               PROVE  announcer'[u].cursor # failedAt'[u]
    BY DEF FailedInv
  <2>1. u # t
    BY <1>1 DEF CursorInv, Typed
  <2>2. announcer'[u] = announcer[u] /\ failedAt'[u] = failedAt[u]
    BY <1>1, <2>1 DEF CursorInv, Typed
  <2>3. ASSUME NEW j \in Calling(u) PROVE call[j].stage = "awaiting"
    <3>1. j \in Task /\ j \notin Calling(t) /\ call[j] # NoCall
      BY <2>1 DEF Calling
    <3>2. call'[j] = call[j] /\ j \in Calling(u)'
      BY <1>1, <3>1 DEF Calling
    <3> QED
      BY <3>2
  <2> QED
    BY <2>2, <2>3 DEF CursorInv, FailedInv
<1> QED
  BY <1>4, <1>5, <1>6 DEF CursorInv

LEMMA StillKeepsCursor ==
    ASSUME CursorInv, UNCHANGED <<announcer, call, alone, failedAt>>
    PROVE  CursorInv'
<1>1. Typed'
  BY DEF CursorInv, Typed
<1>2. AloneInv' /\ FailedInv'
  BY DEF CursorInv, AloneInv, FailedInv, Calling
<1> QED
  BY <1>1, <1>2 DEF CursorInv

LEMMA CursorStep == CursorInv /\ [Next]_vars => CursorInv'
<1> SUFFICES ASSUME CursorInv, [Next]_vars PROVE CursorInv'
  OBVIOUS
<1>1. CASE \E t \in Torrent, event \in Event, k \in Task : BuildQuery(k, t, event)
  BY <1>1, BuildKeepsCursor
<1>2. CASE \E t \in Torrent, event \in Event : QueryFails(t, event)
  BY <1>2, StillKeepsCursor DEF QueryFails
<1>3. CASE \E k \in Task : call[k] # NoCall /\ Succeed(k)
  BY <1>3, SucceedKeepsCursor
<1>4. CASE \E k \in Task : call[k] # NoCall /\ Rotate(k)
  BY <1>4, RotateKeepsCursor
<1>5. CASE \E k \in Task : call[k] # NoCall /\ CountFailure(k)
  BY <1>5, CountKeepsCursor
<1>6. CASE \E k \in Task : call[k] # NoCall /\ Abort(k)
  BY <1>6, AbortKeepsCursor
<1>7. CASE \E t \in Torrent : Recreate(t)
  BY <1>7, RecreateKeepsCursor
<1>8. CASE Elapse
  BY <1>8, StillKeepsCursor DEF Elapse, history
<1>9. CASE UNCHANGED vars
  BY <1>9, StillKeepsCursor DEF vars, program, history
<1> QED
  BY <1>1, <1>2, <1>3, <1>4, <1>5, <1>6, <1>7, <1>8, <1>9 DEF Next

\* A query is only sent by BuildQuery, from where the cursor is.
LEMMA SentElsewhere ==
    ASSUME CursorInv, [Next]_vars, NEW k \in Task, Sends(k),
           Calling(call'[k].torrent) = {}, failedAt[call'[k].torrent] # 0,
           Len(Uris[call'[k].torrent]) > 1
    PROVE  call'[k].position # failedAt[call'[k].torrent]
<1>1. ASSUME NEW t \in Torrent, NEW event \in Event, NEW j \in Task, BuildQuery(j, t, event)
      PROVE  call'[k].position # failedAt[call'[k].torrent]
  <2>1. /\ announcer[t] # NoAnnouncer
        /\ call' = [call EXCEPT ![j] = [stage |-> "awaiting", torrent |-> t,
                                        position |-> announcer[t].cursor]]
    BY <1>1 DEF BuildQuery
  <2>2. j = k
    BY <2>1 DEF Sends, CursorInv, Typed
  <2>3. call'[k].torrent = t /\ call'[k].position = announcer[t].cursor
    BY <2>1, <2>2 DEF CursorInv, Typed
  <2> QED
    BY <2>1, <2>3 DEF CursorInv, FailedInv
<1>2. ASSUME \A j \in Task : call'[j] = NoCall \/ call[j] # NoCall PROVE FALSE
  BY <1>2 DEF Sends
<1>3. ASSUME NEW j \in Task, call[j] # NoCall, Succeed(j) \/ Rotate(j) \/ CountFailure(j) \/ Abort(j)
      PROVE  FALSE
  BY <1>2, <1>3 DEF Succeed, Rotate, CountFailure, Abort, Return, CursorInv, Typed
<1>4. ASSUME NEW t \in Torrent, Recreate(t) PROVE FALSE
  BY <1>2, <1>4 DEF Recreate, Calling
<1>5. ASSUME call' = call PROVE FALSE
  BY <1>2, <1>5
<1>6. CASE (\E t \in Torrent, event \in Event : QueryFails(t, event)) \/ Elapse \/ UNCHANGED vars
  BY <1>5, <1>6 DEF QueryFails, Elapse, vars, program
<1> QED
  BY <1>1, <1>3, <1>4, <1>6 DEF Next

\* After a failure that no other announce of the torrent overlapped, the next
\* announce goes to another entry of the tracker list, for any lists of
\* trackers (tracker.rs, announce(); state.rs).
THEOREM RetryElsewhere == Spec => RetrySeesAnotherTracker
<1>1. CursorInv /\ [Next]_vars =>
        [ \A k \in Task : Sends(k) =>
            LET t == call'[k].torrent IN
            Calling(t) = {} /\ failedAt[t] # 0 /\ Len(Uris[t]) > 1
                => call'[k].position # failedAt[t] ]_vars
  BY SentElsewhere
<1> QED
  BY <1>1, CursorInit, CursorStep, PTL DEF Spec, RetrySeesAnotherTracker

-----------------------------------------------------------------------------
(* Giving a torrent up.  While its announces do not overlap, the trackers    *)
(* that failed since the last success are the last few before the cursor,   *)
(* as many as there were failures.                                          *)

\* The f positions before c, in a cycle of n.
Tried(n, c, f) == {p \in 1..n : IF p < c THEN c - p <= f ELSE c - p + n <= f}

LEMMA NoneTried == \A n \in Nat : \A c \in 1..n : Tried(n, c, 0) = {}
BY DEF Tried

LEMMA AllTried == \A n, f \in Nat : \A c \in 1..n : n <= f => Tried(n, c, f) = 1..n
BY DEF Tried

LEMMA OneMoreTried ==
    ASSUME NEW n \in Nat, NEW c \in 1..n, NEW f \in Nat
    PROVE  Tried(n, (c % n) + 1, f + 1) = Tried(n, c, f) \cup {c}
<1>1. c % n = IF c = n THEN 0 ELSE c
  BY Z3
<1>2. CASE c = n
  BY <1>1, <1>2 DEF Tried
<1>3. CASE c # n
  BY <1>1, <1>3 DEF Tried
<1> QED
  BY <1>2, <1>3

\* What is known of t while its announces do not overlap: a failure that has
\* moved the cursor and is still to be counted is one behind.
TriesAt(t) ==
    t \in clean /\ announcer[t] # NoAnnouncer =>
        /\ Calling(t) \subseteq alone
        /\ (\A k \in Calling(t) : call[k].stage = "awaiting") =>
              missed[t] = Tried(Len(Uris[t]), announcer[t].cursor, announcer[t].fails)
        /\ \A k \in Calling(t) : call[k].stage = "failed" =>
              /\ call[k].position \in 1..Len(Uris[t])
              /\ announcer[t].cursor = MoveToNext(t, call[k].position)
              /\ missed[t] = Tried(Len(Uris[t]), call[k].position, announcer[t].fails)

TriesInv ==
    /\ missed \in [Torrent -> SUBSET Nat] /\ clean \subseteq Torrent
    /\ \A t \in Torrent : TriesAt(t)

LEMMA LengthIs == \A t \in Torrent : Len(Uris[t]) \in Nat
BY UrisAssumption

\* A step that is about other torrents.
LEMMA TriesElsewhere ==
    ASSUME CursorInv, NEW u \in Torrent, TriesAt(u), u \in clean' => u \in clean,
           announcer'[u] = announcer[u], missed'[u] = missed[u],
           \A k \in Task : k \in Calling(u)' <=> k \in Calling(u),
           \A k \in Calling(u) : call'[k] = call[k] /\ (k \in alone => k \in alone')
    PROVE  TriesAt(u)'
<1>1. Calling(u)' = Calling(u)
  BY DEF Calling
<1> SUFFICES ASSUME u \in clean', announcer'[u] # NoAnnouncer
             PROVE  /\ Calling(u)' \subseteq alone'
                    /\ (\A k \in Calling(u)' : call'[k].stage = "awaiting") =>
                          missed'[u] = Tried(Len(Uris[u]), announcer'[u].cursor, announcer'[u].fails)
                    /\ \A k \in Calling(u)' : call'[k].stage = "failed" =>
                          /\ call'[k].position \in 1..Len(Uris[u])
                          /\ announcer'[u].cursor = MoveToNext(u, call'[k].position)
                          /\ missed'[u] = Tried(Len(Uris[u]), call'[k].position, announcer'[u].fails)
  BY DEF TriesAt, MoveToNext
<1> QED
  BY <1>1 DEF TriesAt

\* A torrent of which nothing has failed, and that nobody announces.
LEMMA TriesAfresh ==
    ASSUME NEW t \in Torrent, Calling(t)' = {},
           announcer'[t] # NoAnnouncer => announcer'[t].cursor \in 1..Len(Uris[t]),
           announcer'[t] # NoAnnouncer => announcer'[t].fails = 0,
           missed'[t] = {}
    PROVE  TriesAt(t)'
<1>1. announcer'[t] # NoAnnouncer =>
          Tried(Len(Uris[t]), announcer'[t].cursor, announcer'[t].fails) = {}
  BY LengthIs, NoneTried
<1> SUFFICES ASSUME announcer'[t] # NoAnnouncer
             PROVE  missed'[t] = Tried(Len(Uris[t]), announcer'[t].cursor, announcer'[t].fails)
  BY DEF TriesAt
<1> QED
  BY <1>1

LEMMA BuildKeepsTries ==
    ASSUME CursorInv, TriesInv, NEW k \in Task, NEW t \in Torrent, NEW event \in Event,
           BuildQuery(k, t, event)
    PROVE  TriesInv'
<1> DEFINE new == [stage |-> "awaiting", torrent |-> t, position |-> announcer[t].cursor]
<1>1. /\ announcer[t] # NoAnnouncer /\ call[k] = NoCall
      /\ call' = [call EXCEPT ![k] = new]
      /\ UNCHANGED <<announcer, missed>>
      /\ IF Calling(t) = {} THEN alone' = alone \cup {k} /\ UNCHANGED clean
                            ELSE alone' = alone \ Calling(t) /\ clean' = clean \ {t}
  BY DEF BuildQuery
<1>2. new # NoCall
  BY DEF NoCall
<1>3. \A u \in Torrent : Calling(u)' = IF u = t THEN Calling(u) \cup {k} ELSE Calling(u)
  BY <1>1, <1>2 DEF CursorInv, Typed, Calling
<1>4. clean' \subseteq clean
  BY <1>1
<1>5. ASSUME NEW u \in Torrent, u # t PROVE TriesAt(u)'
  <2>1. \A j \in Calling(u) : j # k /\ j \notin Calling(t)
    BY <1>1, <1>5 DEF Calling
  <2>2. \A j \in Calling(u) : call'[j] = call[j] /\ (j \in alone => j \in alone')
    BY <1>1, <2>1 DEF CursorInv, Typed, Calling
  <2> QED
    BY <1>1, <1>3, <1>4, <1>5, <2>2, TriesElsewhere DEF TriesInv
<1>6. TriesAt(t)'
  <2>1. CASE Calling(t) = {}
    <3>1. Calling(t)' = {k} /\ call'[k].stage = "awaiting" /\ k \in alone'
      BY <1>1, <1>3, <2>1 DEF CursorInv, Typed
    <3>2. t \in clean => missed[t] = Tried(Len(Uris[t]), announcer[t].cursor, announcer[t].fails)
      BY <1>1, <2>1 DEF TriesInv, TriesAt
    <3> QED
      BY <1>1, <1>4, <3>1, <3>2 DEF TriesAt
  <2>2. CASE Calling(t) # {}
    BY <1>1, <2>2 DEF TriesAt
  <2> QED
    BY <2>1, <2>2
<1> QED
  BY <1>1, <1>4, <1>5, <1>6 DEF TriesInv

\* The call k returns, moves or is dropped: what there is to show of it.
LEMMA CallStepElsewhere ==
    ASSUME CursorInv, TriesInv, NEW k \in Task, call[k] # NoCall,
           \A j \in Task \ {k} : call'[j] = call[j] /\ (j \in alone => j \in alone'),
           call'[k] = NoCall \/ call'[k].torrent = call[k].torrent,
           \A u \in Torrent \ {call[k].torrent} :
              /\ announcer'[u] = announcer[u] /\ missed'[u] = missed[u]
              /\ u \in clean' => u \in clean
    PROVE  \A u \in Torrent \ {call[k].torrent} : TriesAt(u)'
<1> SUFFICES ASSUME NEW u \in Torrent \ {call[k].torrent} PROVE TriesAt(u)'
  OBVIOUS
<1>1. \A j \in Calling(u) : j # k /\ j \in Task
  BY DEF Calling
<1>2. \A j \in Task : j \in Calling(u)' <=> j \in Calling(u)
  BY DEF Calling
<1> QED
  BY <1>1, <1>2, TriesElsewhere DEF TriesInv

LEMMA SucceedKeepsTries ==
    ASSUME CursorInv, TriesInv, NEW k \in Task, call[k] # NoCall, Succeed(k)
    PROVE  TriesInv'
<1>0. PICK t \in Torrent : t = call[k].torrent
  BY DEF CursorInv, Typed, Call
<1>1. /\ announcer' = [announcer EXCEPT ![t].fails = 0]
      /\ call' = [call EXCEPT ![k] = NoCall] /\ alone' = alone \ {k}
      /\ missed' = [missed EXCEPT ![t] = {}]
      /\ clean' = IF Calling(t) = {k} THEN clean \cup {t} ELSE clean
  BY <1>0 DEF Succeed, Return
<1>2. t \in Torrent /\ k \in Calling(t) /\ announcer[t] # NoAnnouncer
  BY <1>0 DEF CursorInv, Typed, Call, Calling
<1>3. missed' \in [Torrent -> SUBSET Nat] /\ clean' \subseteq Torrent
  BY <1>0, <1>1, <1>2 DEF TriesInv
<1>4. \A u \in Torrent \ {t} : TriesAt(u)'
  <2>1. call'[k] = NoCall /\ \A j \in Task \ {k} : call'[j] = call[j] /\ (j \in alone => j \in alone')
    BY <1>0, <1>1 DEF CursorInv, Typed
  <2>2. \A u \in Torrent \ {t} : /\ announcer'[u] = announcer[u] /\ missed'[u] = missed[u]
                                 /\ u \in clean' => u \in clean
    BY <1>0, <1>1 DEF CursorInv, Typed, TriesInv
  <2> QED
    BY <1>0, <2>1, <2>2, CallStepElsewhere
<1>5. TriesAt(t)'
  <2>1. CASE Calling(t) = {k}
    <3>1. Calling(t)' = {}
      BY <1>0, <1>1, <2>1 DEF CursorInv, Typed, Calling
    <3>2. announcer'[t].fails = 0 /\ announcer'[t].cursor = announcer[t].cursor /\ missed'[t] = {}
      BY <1>0, <1>1, <1>2 DEF CursorInv, Typed, TriesInv
    <3>3. announcer'[t].cursor \in 1..Len(Uris[t])
      BY <1>2, <3>2 DEF CursorInv, Typed
    <3> QED
      BY <1>2, <3>1, <3>2, <3>3, TriesAfresh
  <2>2. CASE Calling(t) # {k}
    <3>1. t \notin clean
      BY <1>0, <1>2, <2>2 DEF TriesInv, TriesAt, CursorInv, AloneInv
    <3>2. t \notin clean'
      BY <1>0, <1>1, <2>2, <3>1
    <3> QED
      BY <3>2 DEF TriesAt
  <2> QED
    BY <2>1, <2>2
<1> QED
  BY <1>2, <1>3, <1>4, <1>5 DEF TriesInv

LEMMA RotateKeepsTries ==
    ASSUME CursorInv, TriesInv, NEW k \in Task, call[k] # NoCall, Rotate(k)
    PROVE  TriesInv'
<1>0. PICK t \in Torrent : t = call[k].torrent
  BY DEF CursorInv, Typed, Call
<1> DEFINE moved == MoveToNext(t, announcer[t].cursor)
<1>1. /\ call[k].stage = "awaiting"
      /\ announcer' = [announcer EXCEPT ![t].cursor = moved]
      /\ call' = [call EXCEPT ![k].stage = "failed"]
      /\ UNCHANGED <<alone, missed, clean>>
  BY <1>0 DEF Rotate, history
<1>2. t \in Torrent /\ k \in Calling(t) /\ announcer[t] # NoAnnouncer /\ call[k] \in Call
  BY <1>0 DEF CursorInv, Typed, Call, Calling
<1>3. /\ call'[k].stage = "failed" /\ call'[k].torrent = t /\ call'[k].position = call[k].position
      /\ call'[k] # NoCall /\ \A j \in Task \ {k} : call'[j] = call[j]
  BY <1>0, <1>1, <1>2 DEF CursorInv, Typed, Call, NoCall
<1>4. /\ announcer'[t].cursor = moved /\ announcer'[t].fails = announcer[t].fails
      /\ \A u \in Torrent \ {t} : announcer'[u] = announcer[u]
  <2> HIDE DEF moved
  <2> QED
    BY <1>0, <1>1, <1>2 DEF CursorInv, Typed
<1>5. \A u \in Torrent \ {t} : TriesAt(u)'
  BY <1>0, <1>1, <1>3, <1>4, CallStepElsewhere
<1>6. TriesAt(t)'
  <2> SUFFICES ASSUME t \in clean PROVE TriesAt(t)'
    <3> QED
      BY <1>0, <1>1 DEF TriesAt
  <2>1. Calling(t) = {k} /\ k \in alone
    BY <1>0, <1>2 DEF TriesInv, TriesAt, CursorInv, AloneInv
  <2>2. /\ call[k].position = announcer[t].cursor
        /\ announcer[t].cursor \in 1..Len(Uris[t])
        /\ missed[t] = Tried(Len(Uris[t]), announcer[t].cursor, announcer[t].fails)
    BY <1>0, <1>1, <1>2, <2>1 DEF TriesInv, TriesAt, CursorInv, AloneInv, Typed
  <2>3. Calling(t)' = {k}
    BY <1>3, <2>1 DEF Calling
  <2>4. \A j \in Calling(t)' : /\ call'[j].stage = "failed" /\ j \in alone'
                               /\ call'[j].position = announcer[t].cursor
    BY <1>0, <1>1, <1>3, <2>1, <2>2, <2>3
  <2>5. missed'[t] = missed[t] /\ \E j \in Calling(t)' : call'[j].stage = "failed"
    BY <1>0, <1>1, <1>3, <2>3
  <2>6. /\ (\A j \in Calling(t)' : call'[j].stage = "awaiting") => FALSE
        /\ Calling(t)' \subseteq alone'
    BY <1>3, <2>3, <2>4
  <2>7. \A j \in Calling(t)' :
            /\ call'[j].position \in 1..Len(Uris[t])
            /\ announcer'[t].cursor = MoveToNext(t, call'[j].position)
            /\ missed'[t] = Tried(Len(Uris[t]), call'[j].position, announcer'[t].fails)
    BY <1>4, <2>2, <2>4, <2>5
  <2> QED
    BY <2>6, <2>7 DEF TriesAt, MoveToNext
<1> QED
  BY <1>0, <1>1, <1>2, <1>5, <1>6 DEF TriesInv

LEMMA CountKeepsTries ==
    ASSUME CursorInv, TriesInv, NEW k \in Task, call[k] # NoCall, CountFailure(k)
    PROVE  TriesInv'
<1>0. PICK t \in Torrent : t = call[k].torrent
  BY DEF CursorInv, Typed, Call
<1>1. /\ call[k].stage = "failed"
      /\ announcer' = [announcer EXCEPT ![t].fails = @ + 1]
      /\ call' = [call EXCEPT ![k] = NoCall] /\ alone' = alone \ {k}
      /\ missed' = [missed EXCEPT ![t] = @ \cup {call[k].position}]
      /\ clean' = clean
  BY <1>0 DEF CountFailure, Return
<1>2. /\ t \in Torrent /\ k \in Calling(t) /\ announcer[t] # NoAnnouncer
      /\ call[k].position \in Nat
  BY <1>0 DEF CursorInv, Typed, Call, Calling
<1>3. missed' \in [Torrent -> SUBSET Nat] /\ clean' \subseteq Torrent
  BY <1>0, <1>1, <1>2 DEF TriesInv
<1>4. /\ announcer'[t].cursor = announcer[t].cursor
      /\ announcer'[t].fails = announcer[t].fails + 1
      /\ missed'[t] = missed[t] \cup {call[k].position}
      /\ call'[k] = NoCall
      /\ \A j \in Task \ {k} : call'[j] = call[j] /\ (j \in alone => j \in alone')
      /\ \A u \in Torrent \ {t} : announcer'[u] = announcer[u] /\ missed'[u] = missed[u]
  <2> QED
    BY <1>0, <1>1, <1>2 DEF CursorInv, Typed, TriesInv
<1>5. \A u \in Torrent \ {t} : TriesAt(u)'
  BY <1>0, <1>1, <1>4, CallStepElsewhere
<1>6. TriesAt(t)'
  <2> SUFFICES ASSUME t \in clean PROVE TriesAt(t)'
    <3> QED
      BY <1>0, <1>1 DEF TriesAt
  <2> DEFINE n == Len(Uris[t])
             p == call[k].position
  <2>1. Calling(t) = {k}
    BY <1>0, <1>2 DEF TriesInv, TriesAt, CursorInv, AloneInv
  <2>2. /\ p \in 1..n /\ announcer[t].cursor = (p % n) + 1
        /\ missed[t] = Tried(n, p, announcer[t].fails)
    BY <1>0, <1>1, <1>2, <2>1 DEF TriesInv, TriesAt, MoveToNext
  <2>3. n \in Nat /\ announcer[t].fails \in Nat
    BY <1>2, LengthIs DEF CursorInv, Typed
  <2>4. Calling(t)' = {}
    BY <1>4, <2>1 DEF Calling
  <2> HIDE DEF p
  <2>5. missed'[t] = Tried(n, announcer'[t].cursor, announcer'[t].fails)
    <3>1. Tried(n, (p % n) + 1, announcer[t].fails + 1) = missed[t] \cup {p}
      <4> HIDE DEF n
      <4> QED
        BY <2>2, <2>3, OneMoreTried
    <3> QED
      BY <1>4, <2>2, <3>1 DEF p
  <2> QED
    BY <2>4, <2>5 DEF TriesAt
<1> QED
  BY <1>2, <1>3, <1>5, <1>6 DEF TriesInv

LEMMA AbortKeepsTries ==
    ASSUME CursorInv, TriesInv, NEW k \in Task, call[k] # NoCall, Abort(k)
    PROVE  TriesInv'
<1>0. PICK t \in Torrent : t = call[k].torrent
  BY DEF CursorInv, Typed, Call
<1>1. /\ call[k].stage = "awaiting"
      /\ call' = [call EXCEPT ![k] = NoCall] /\ alone' = alone \ {k}
      /\ UNCHANGED <<announcer, missed, clean>>
  BY <1>0 DEF Abort, Return
<1>2. t \in Torrent /\ k \in Calling(t) /\ announcer[t] # NoAnnouncer
  BY <1>0 DEF CursorInv, Typed, Call, Calling
<1>3. /\ call'[k] = NoCall
      /\ \A j \in Task \ {k} : call'[j] = call[j] /\ (j \in alone => j \in alone')
  BY <1>0, <1>1 DEF CursorInv, Typed
<1>4. \A u \in Torrent \ {t} : TriesAt(u)'
  BY <1>0, <1>1, <1>3, CallStepElsewhere
<1>5. TriesAt(t)'
  <2> SUFFICES ASSUME t \in clean PROVE TriesAt(t)'
    <3> QED
      BY <1>0, <1>1 DEF TriesAt
  <2>1. Calling(t) = {k}
    BY <1>0, <1>2 DEF TriesInv, TriesAt, CursorInv, AloneInv
  <2>2. missed[t] = Tried(Len(Uris[t]), announcer[t].cursor, announcer[t].fails)
    BY <1>0, <1>1, <1>2, <2>1 DEF TriesInv, TriesAt
  <2>3. Calling(t)' = {}
    BY <1>3, <2>1 DEF Calling
  <2> QED
    BY <1>0, <1>1, <2>2, <2>3 DEF TriesAt
<1> QED
  BY <1>0, <1>1, <1>2, <1>4, <1>5 DEF TriesInv

LEMMA RecreateKeepsTries ==
    ASSUME CursorInv, TriesInv, NEW t \in Torrent, Recreate(t)
    PROVE  TriesInv'
<1>1. /\ announcer' = [announcer EXCEPT ![t] = NewAnnouncer(t)]
      /\ call' = [k \in Task |-> IF k \in Calling(t) THEN NoCall ELSE call[k]]
      /\ alone' = alone \ Calling(t)
      /\ missed' = [missed EXCEPT ![t] = {}]
      /\ clean' = clean \cup {t}
  BY DEF Recreate
<1>2. missed' \in [Torrent -> SUBSET Nat] /\ clean' \subseteq Torrent
  BY <1>1 DEF TriesInv
<1>3. ASSUME NEW u \in Torrent, u # t PROVE TriesAt(u)'
  <2>1. \A j \in Calling(u) : j \in Task /\ j \notin Calling(t)
    BY <1>3 DEF Calling
  <2>2. \A j \in Task : j \in Calling(u)' <=> j \in Calling(u)
    BY <1>1, <2>1 DEF Calling
  <2>3. announcer'[u] = announcer[u] /\ missed'[u] = missed[u]
    BY <1>1, <1>3 DEF CursorInv, Typed, TriesInv
  <2> QED
    BY <1>1, <1>3, <2>1, <2>2, <2>3, TriesElsewhere DEF TriesInv
<1>4. TriesAt(t)'
  <2>1. Calling(t)' = {}
    BY <1>1 DEF Calling
  <2>2. announcer'[t] = NewAnnouncer(t) /\ missed'[t] = {}
    BY <1>1 DEF CursorInv, Typed, TriesInv
  <2>3. Len(Uris[t]) \in Nat /\ (Uris[t] # <<>> => Len(Uris[t]) >= 1)
    BY UrisAssumption
  <2>4. announcer'[t] # NoAnnouncer =>
            announcer'[t].cursor \in 1..Len(Uris[t]) /\ announcer'[t].fails = 0
    BY <2>2, <2>3 DEF NewAnnouncer
  <2> QED
    BY <2>1, <2>2, <2>4, TriesAfresh
<1> QED
  BY <1>2, <1>3, <1>4 DEF TriesInv

LEMMA StillKeepsTries ==
    ASSUME TriesInv, UNCHANGED <<announcer, call, alone, missed, clean>>
    PROVE  TriesInv'
BY DEF TriesInv, TriesAt, Calling, MoveToNext

LEMMA TriesStep == CursorInv /\ TriesInv /\ [Next]_vars => TriesInv'
<1> SUFFICES ASSUME CursorInv, TriesInv, [Next]_vars PROVE TriesInv'
  OBVIOUS
<1>1. CASE \E t \in Torrent, event \in Event, k \in Task : BuildQuery(k, t, event)
  BY <1>1, BuildKeepsTries
<1>2. CASE \E t \in Torrent, event \in Event : QueryFails(t, event)
  BY <1>2, StillKeepsTries DEF QueryFails
<1>3. CASE \E k \in Task : call[k] # NoCall /\ Succeed(k)
  BY <1>3, SucceedKeepsTries
<1>4. CASE \E k \in Task : call[k] # NoCall /\ Rotate(k)
  BY <1>4, RotateKeepsTries
<1>5. CASE \E k \in Task : call[k] # NoCall /\ CountFailure(k)
  BY <1>5, CountKeepsTries
<1>6. CASE \E k \in Task : call[k] # NoCall /\ Abort(k)
  BY <1>6, AbortKeepsTries
<1>7. CASE \E t \in Torrent : Recreate(t)
  BY <1>7, RecreateKeepsTries
<1>8. CASE Elapse
  BY <1>8, StillKeepsTries DEF Elapse, history
<1>9. CASE UNCHANGED vars
  BY <1>9, StillKeepsTries DEF vars, program, history
<1> QED
  BY <1>1, <1>2, <1>3, <1>4, <1>5, <1>6, <1>7, <1>8, <1>9 DEF Next

\* A torrent is given up only after every one of its trackers has failed since
\* the last success, as long as its announces did not overlap and there are no
\* more trackers than the threshold, for any lists of trackers and any
\* threshold (announcer/state.rs, MAX_CONSECUTIVE_FAILURES; tracker.rs).
THEOREM GivesUpLate == Spec => []GivesUpOnlyAfterTryingAll
<1>1. Init => TriesInv
  <2> SUFFICES ASSUME Init PROVE TriesInv
    OBVIOUS
  <2>1. /\ announcer = [t \in Torrent |-> NewAnnouncer(t)]
        /\ missed = [t \in Torrent |-> {}] /\ clean = Torrent
        /\ \A t \in Torrent : Calling(t) = {}
    BY DEF Init, Calling
  <2>2. ASSUME NEW t \in Torrent, announcer[t] # NoAnnouncer
        PROVE  missed[t] = Tried(Len(Uris[t]), announcer[t].cursor, announcer[t].fails)
    <3>1. Len(Uris[t]) \in Nat /\ Len(Uris[t]) >= 1
      BY <2>1, <2>2, UrisAssumption DEF NewAnnouncer
    <3>2. announcer[t].cursor = 1 /\ announcer[t].fails = 0
      BY <2>1, <2>2 DEF NewAnnouncer
    <3> QED
      BY <2>1, <3>1, <3>2, NoneTried
  <2> QED
    BY <2>1, <2>2 DEF TriesInv, TriesAt
<1>2. CursorInv /\ TriesInv => GivesUpOnlyAfterTryingAll
  <2> SUFFICES ASSUME CursorInv, TriesInv, NEW t \in clean, TooManyFailures(t),
                      Len(Uris[t]) <= MaxConsecutiveFailures
               PROVE  missed[t] = 1..Len(Uris[t])
    BY DEF GivesUpOnlyAfterTryingAll
  <2>1. t \in Torrent /\ Len(Uris[t]) \in Nat /\ announcer[t].fails \in Nat
    BY LengthIs DEF TriesInv, CursorInv, Typed
  <2>2. Len(Uris[t]) <= announcer[t].fails /\ announcer[t] # NoAnnouncer
    BY <2>1, AnnouncerAssumption DEF TooManyFailures, NoAnnouncer
  <2>3. announcer[t].cursor \in 1..Len(Uris[t])
    BY <2>1, <2>2 DEF CursorInv, Typed
  <2>4. CASE \A k \in Calling(t) : call[k].stage = "awaiting"
    BY <2>1, <2>2, <2>3, <2>4, AllTried DEF TriesInv, TriesAt
  <2>5. CASE ~\A k \in Calling(t) : call[k].stage = "awaiting"
    <3>1. PICK k \in Calling(t) : call[k].stage = "failed"
      BY <2>5 DEF Calling, CursorInv, Typed, Call
    <3>2. /\ call[k].position \in 1..Len(Uris[t])
          /\ missed[t] = Tried(Len(Uris[t]), call[k].position, announcer[t].fails)
      BY <2>1, <2>2, <3>1 DEF TriesInv, TriesAt
    <3> QED
      BY <2>1, <2>2, <3>2, AllTried
  <2> QED
    BY <2>4, <2>5
<1> QED
  BY <1>1, <1>2, CursorInit, CursorStep, TriesStep, PTL DEF Spec
-----------------------------------------------------------------------------
(* The peer ids.  g is the state of the generator, c what the last query of  *)
(* each torrent carried, n the time.  Draws are numbered, so that a new one  *)
(* differs from all that were carried.                                       *)

Sent(c) == {u \in Torrent : c[u] # Nothing}

Drawable(g, c, n) ==
    /\ g \in Generator /\ n \in Nat
    /\ g.value <= g.made /\ g.at <= n
    /\ \A u \in Torrent : /\ g.of[u].value <= g.made
                          /\ g.of[u] # NoEntry => g.of[u].value # 0
    /\ \A u \in Sent(c) : /\ c[u].peerId \in Nat /\ c[u].peerId <= g.made
                          /\ c[u].at \in Nat /\ c[u].at <= n

\* What cc records besides c: t's query with value v at time n.
Recorded(t, event, v, n, c, cc) ==
    /\ cc[t] # Nothing /\ cc[t].peerId = v /\ cc[t].at = n
    /\ cc[t].starts <=> event = "started"
    /\ cc[t].ends <=> event = "stopped"
    /\ \A u \in Torrent \ {t} : cc[u] = c[u]

\* What keeps the promise of each policy.
NeverInv(g, c) == \A u \in Sent(c) : g.value # 0 /\ c[u].peerId = g.value

TimedInv(g, c, n) ==
    \A u \in Sent(c) :
        /\ c[u].peerId = g.value => g.at <= c[u].at
        /\ c[u].at = n => c[u].peerId = g.value /\ ~Expired(g, n)

StartedInv(g, c) ==
    \A u \in Sent(c) : c[u].peerId = g.value => g.at <= c[u].at /\ ~c[u].starts

\* No torrent's value was ever another's.
OwnInv(g, c) ==
    \A t \in Torrent, u \in Torrent :
        t # u /\ g.of[t] # NoEntry =>
            /\ g.of[u] # NoEntry => g.of[t].value # g.of[u].value
            /\ u \in Sent(c) => g.of[t].value # c[u].peerId

VolatileInv(g, c) ==
    \A u \in Sent(c) : g.of[u] # NoEntry /\ c[u].ends => g.of[u].value # c[u].peerId

\* d: the torrents a stop of which drew a value and was not built.
SessionInv(g, c, d) ==
    \A u \in Sent(c) \ d : ~c[u].ends => g.of[u] # NoEntry /\ g.of[u].value = c[u].peerId

PersistentInv(g, c, n) ==
    \A u \in Sent(c) :
        n - c[u].at < Ttl =>
            g.of[u] # NoEntry /\ g.of[u].value = c[u].peerId /\ c[u].at <= g.of[u].at

-----------------------------------------------------------------------------
(* What one get() gives. *)

LEMMA RegeneratedIs ==
    ASSUME NEW g \in Generator, NEW n \in Nat
    PROVE  /\ Regenerated(g, n) \in Generator
           /\ Regenerated(g, n).value = g.made + 1 /\ Regenerated(g, n).at = n
           /\ Regenerated(g, n).of = g.of /\ Regenerated(g, n).made = g.made + 1
<1>1. /\ g.value \in Nat /\ g.at \in Nat /\ g.made \in Nat /\ g.of \in [Torrent -> Entry]
      /\ g = [value |-> g.value, at |-> g.at, of |-> g.of, made |-> g.made]
  BY DEF Generator
<1>2. Regenerated(g, n) = [value |-> g.made + 1, at |-> n, of |-> g.of, made |-> g.made + 1]
  <2> DEFINE h == Regenerated(g, n)
  <2>1. h = [g EXCEPT !.value = g.made + 1, !.at = n, !.made = g.made + 1]
    BY DEF Regenerated
  <2> QED
    BY <1>1, <2>1
<1>3. g.made + 1 \in Nat
  BY <1>1
<1> QED
  BY <1>1, <1>2, <1>3 DEF Generator

LEMMA SharedIs ==
    ASSUME NEW g \in Generator, NEW stale \in BOOLEAN, NEW n \in Nat,
           NEW o \in Shared(g, stale, n)
    PROVE  \/ stale /\ o.value = g.made + 1 /\ o.gen = Regenerated(g, n)
           \/ o.value = 0 /\ o.gen = g
           \/ ~stale /\ o.value = g.value /\ o.gen = g
BY RegeneratedIs DEF Shared, Answer, Error

LEMMA DrawnIs ==
    ASSUME NEW g \in Generator, NEW o \in Drawn(g)
    PROVE  /\ o.value = g.made + 1 \/ o.value = 0
           /\ o.gen \in Generator /\ o.gen.value = g.value /\ o.gen.at = g.at /\ o.gen.of = g.of
           /\ o.gen.made >= g.made /\ o.gen.made >= o.value
BY DEF Drawn, Answer, Error, Generator

LEMMA TimedOrStartedIs ==
    ASSUME NEW g \in Generator, NEW n \in Nat, NEW event,
           NEW o \in TimedOrStarted(g, event, n)
    PROVE  \E p \in Timed(g, n) :
              \/ event # "started" /\ o = p
              \/ o.value = 0 /\ o.gen = p.gen
              \/ event = "started" /\ o.value = p.value /\ o.gen = Regenerated(p.gen, n)
<1>1. CASE event # "started"
  BY <1>1 DEF TimedOrStarted
<1>2. CASE event = "started"
  <2>1. PICK p \in Timed(g, n) :
          o \in IF p.value = 0 THEN {p}
                ELSE {Answer(p.value, Regenerated(p.gen, n)), Error(p.gen)}
    BY <1>2 DEF TimedOrStarted
  <2>2. CASE o = p /\ p.value = 0
    BY <2>2
  <2>3. CASE o = Answer(p.value, Regenerated(p.gen, n))
    BY <1>2, <2>3 DEF Answer
  <2>4. CASE o = Error(p.gen)
    BY <2>4 DEF Error
  <2> QED
    BY <2>1, <2>2, <2>3, <2>4
<1> QED
  BY <1>1, <1>2

\* t's entry as it is found, or as it is drawn.
LEMMA WithEntryIs ==
    ASSUME NEW g \in Generator, NEW t \in Torrent, NEW n \in Nat,
           NEW h \in WithEntry(g, t, n)
    PROVE  /\ h \in Generator /\ h.value = g.value /\ h.at = g.at
           /\ \A u \in Torrent \ {t} : h.of[u] = g.of[u]
           /\ \/ g.of[t] # NoEntry /\ h = g
              \/ h.of[t] = [value |-> g.made + 1, at |-> n] /\ h.made = g.made + 1
<1>1. CASE g.of[t] # NoEntry
  BY <1>1 DEF WithEntry
<1>2. CASE g.of[t] = NoEntry
  <2> DEFINE e == [value |-> g.made + 1, at |-> n]
  <2>1. h = [g EXCEPT !.of[t] = e, !.made = @ + 1]
    BY <1>2 DEF WithEntry
  <2>2. e \in Entry
    BY DEF Generator, Entry
  <2> HIDE DEF e
  <2>3. h \in Generator /\ h.value = g.value /\ h.at = g.at /\ h.made = g.made + 1
        /\ h.of = [g.of EXCEPT ![t] = e]
    <3>1. /\ g.made + 1 \in Nat /\ g.of \in [Torrent -> Entry]
          /\ g.value \in Nat /\ g.at \in Nat
          /\ g = [value |-> g.value, at |-> g.at, of |-> g.of, made |-> g.made]
      BY DEF Generator
    <3>2. h = [value |-> g.value, at |-> g.at, of |-> [g.of EXCEPT ![t] = e], made |-> g.made + 1]
      BY <2>1, <3>1
    <3>3. [g.of EXCEPT ![t] = e] \in [Torrent -> Entry]
      BY <2>2, <3>1
    <3> QED
      BY <3>1, <3>2, <3>3 DEF Generator
  <2>4. h.of[t] = e /\ \A u \in Torrent \ {t} : h.of[u] = g.of[u]
    BY <2>3 DEF Generator
  <2> QED
    BY <2>3, <2>4 DEF e
<1> QED
  BY <1>1, <1>2

LEMMA VolatileIs ==
    ASSUME NEW g \in Generator, NEW t \in Torrent, NEW event,
           NEW o \in Volatile(g, t, event)
    PROVE  \/ o.value = 0 /\ o.gen = g
           \/ \E h \in WithEntry(g, t, 0) :
                 /\ o.value = h.of[t].value
                 /\ o.gen \in Generator /\ o.gen.value = g.value /\ o.gen.at = g.at
                 /\ o.gen.made = h.made
                 /\ \A u \in Torrent \ {t} : o.gen.of[u] = g.of[u]
                 /\ event # "stopped" => o.gen.of[t] = h.of[t]
                 /\ event = "stopped" => o.gen.of[t] = NoEntry
<1>1. CASE o \in DrawFails(g, t)
  BY <1>1 DEF DrawFails, Error
<1>2. ASSUME NEW h \in WithEntry(g, t, 0),
             o = Answer(h.of[t].value,
                        IF event = "stopped" THEN [h EXCEPT !.of[t] = NoEntry] ELSE h)
      PROVE  /\ o.value = h.of[t].value
             /\ o.gen \in Generator /\ o.gen.value = g.value /\ o.gen.at = g.at
             /\ o.gen.made = h.made
             /\ \A u \in Torrent \ {t} : o.gen.of[u] = g.of[u]
             /\ event # "stopped" => o.gen.of[t] = h.of[t]
             /\ event = "stopped" => o.gen.of[t] = NoEntry
  <2>1. /\ h \in Generator /\ h.value = g.value /\ h.at = g.at
        /\ \A u \in Torrent \ {t} : h.of[u] = g.of[u]
    <3>1. /\ h \in Generator /\ h.value = g.value /\ h.at = g.at
          /\ \A u \in Torrent \ {t} : h.of[u] = g.of[u]
          /\ \/ g.of[t] # NoEntry /\ h = g
             \/ h.of[t] = [value |-> g.made + 1, at |-> 0] /\ h.made = g.made + 1
      <4>1. h \in WithEntry(g, t, 0) /\ 0 \in Nat
        BY <1>2
      <4> QED
        BY <4>1, WithEntryIs
    <3> QED
      BY <3>1
  <2>2. o.value = h.of[t].value /\
        o.gen = IF event = "stopped" THEN [h EXCEPT !.of[t] = NoEntry] ELSE h
    BY <1>2 DEF Answer
  <2>3. CASE event # "stopped"
    BY <2>1, <2>2, <2>3
  <2>4. CASE event = "stopped"
    <3>1. NoEntry \in Entry
      BY DEF NoEntry, Entry
    <3>2. /\ o.gen \in Generator /\ o.gen.value = h.value /\ o.gen.at = h.at
          /\ o.gen.made = h.made /\ o.gen.of = [h.of EXCEPT ![t] = NoEntry]
      BY <2>1, <2>2, <2>4, <3>1 DEF Generator
    <3>3. o.gen.of[t] = NoEntry /\ \A u \in Torrent \ {t} : o.gen.of[u] = h.of[u]
      BY <2>1, <3>2 DEF Generator
    <3> QED
      BY <2>1, <2>2, <2>4, <3>2, <3>3
  <2> QED
    BY <2>3, <2>4
<1>3. CASE o \notin DrawFails(g, t)
  <2>1. PICK h \in WithEntry(g, t, 0) :
          o = Answer(h.of[t].value,
                     IF event = "stopped" THEN [h EXCEPT !.of[t] = NoEntry] ELSE h)
    BY <1>3 DEF Volatile
  <2> QED
    BY <1>2, <2>1
<1> QED
  BY <1>1, <1>3

LEMMA PersistentIs ==
    ASSUME NEW g \in Generator, NEW t \in Torrent, NEW n \in Nat,
           NEW o \in Persistent(g, t, n)
    PROVE  \/ o.value = 0 /\ o.gen = g
           \/ \E h \in WithEntry(g, t, n) :
                 /\ o.value = h.of[t].value
                 /\ o.gen \in Generator /\ o.gen.value = g.value /\ o.gen.at = g.at
                 /\ o.gen.made = h.made
                 /\ o.gen.of[t] = [value |-> h.of[t].value, at |-> n]
                 /\ \A u \in Torrent \ {t} :
                       o.gen.of[u] = IF n - g.of[u].at >= Ttl THEN NoEntry ELSE g.of[u]
<1>1. CASE o \in DrawFails(g, t)
  BY <1>1 DEF DrawFails, Error
<1>2. ASSUME NEW h \in WithEntry(g, t, n),
             o = Answer(h.of[t].value, [h EXCEPT !.of = Evict([@ EXCEPT ![t].at = n], n)])
      PROVE  /\ o.value = h.of[t].value
             /\ o.gen \in Generator /\ o.gen.value = g.value /\ o.gen.at = g.at
             /\ o.gen.made = h.made
             /\ o.gen.of[t] = [value |-> h.of[t].value, at |-> n]
             /\ \A u \in Torrent \ {t} :
                   o.gen.of[u] = IF n - g.of[u].at >= Ttl THEN NoEntry ELSE g.of[u]
  <2> DEFINE touched == [h.of EXCEPT ![t].at = n]
             left == Evict(touched, n)
  <2>1. /\ h \in Generator /\ h.value = g.value /\ h.at = g.at
        /\ \A u \in Torrent \ {t} : h.of[u] = g.of[u]
    <3>1. /\ h \in Generator /\ h.value = g.value /\ h.at = g.at
          /\ \A u \in Torrent \ {t} : h.of[u] = g.of[u]
          /\ \/ g.of[t] # NoEntry /\ h = g
             \/ h.of[t] = [value |-> g.made + 1, at |-> n] /\ h.made = g.made + 1
      <4>1. h \in WithEntry(g, t, n) /\ n \in Nat
        BY <1>2
      <4> QED
        BY <4>1, WithEntryIs
    <3> QED
      BY <3>1
  <2>2. o.value = h.of[t].value /\ o.gen = [h EXCEPT !.of = left]
    BY <1>2 DEF Answer
  <2>3. /\ touched \in [Torrent -> Entry]
        /\ touched[t] = [value |-> h.of[t].value, at |-> n]
        /\ \A u \in Torrent \ {t} : touched[u] = h.of[u]
    <3>1. h.of \in [Torrent -> Entry] /\ h.of[t] \in Entry
      BY <2>1 DEF Generator
    <3>2. [h.of[t] EXCEPT !.at = n] = [value |-> h.of[t].value, at |-> n]
      BY <3>1 DEF Entry
    <3>3. [value |-> h.of[t].value, at |-> n] \in Entry
      BY <3>1 DEF Entry
    <3> QED
      BY <3>1, <3>2, <3>3
  <2> HIDE DEF touched
  <2>4. /\ left \in [Torrent -> Entry]
        /\ left[t] = [value |-> h.of[t].value, at |-> n]
        /\ \A u \in Torrent \ {t} :
              left[u] = IF n - h.of[u].at >= Ttl THEN NoEntry ELSE h.of[u]
    <3>1. NoEntry \in Entry
      BY DEF NoEntry, Entry
    <3>2. left = [u \in Torrent |-> IF n - touched[u].at >= Ttl THEN NoEntry ELSE touched[u]]
      BY DEF Evict
    <3>3. touched[t].at = n /\ ~(n - n >= Ttl)
      BY <2>3, RefreshAssumption
    <3>4. left[t] = touched[t]
      BY <3>2, <3>3
    <3> QED
      BY <2>3, <3>1, <3>2, <3>4
  <2> HIDE DEF left
  <2>5. /\ o.gen \in Generator /\ o.gen.value = h.value /\ o.gen.at = h.at
        /\ o.gen.made = h.made /\ o.gen.of = left
    BY <2>1, <2>2, <2>4 DEF Generator
  <2> QED
    BY <2>1, <2>2, <2>4, <2>5
<1>3. CASE o \notin DrawFails(g, t)
  <2>1. PICK h \in WithEntry(g, t, n) :
          o = Answer(h.of[t].value, [h EXCEPT !.of = Evict([@ EXCEPT ![t].at = n], n)])
    BY <1>3 DEF Persistent
  <2> QED
    BY <1>2, <2>1
<1> QED
  BY <1>1, <1>3
-----------------------------------------------------------------------------
(* The promises, policy by policy: of any get(), and of one whose answer is  *)
(* sent.                                                                     *)

LEMMA RecordedIs ==
    ASSUME NEW t \in Torrent, NEW event, NEW v, NEW n, NEW c, NEW cc,
           Recorded(t, event, v, n, c, cc)
    PROVE  \A u \in Sent(cc) :
              \/ u = t /\ cc[u].peerId = v /\ cc[u].at = n
              \/ u # t /\ u \in Sent(c) /\ cc[u] = c[u]
BY DEF Recorded, Sent

LEMMA RecordedDrawable ==
    ASSUME NEW t \in Torrent, NEW event, NEW v \in Nat, NEW n, NEW g, NEW c, NEW cc,
           Drawable(g, c, n), v <= g.made, Recorded(t, event, v, n, c, cc)
    PROVE  Drawable(g, cc, n)
BY RecordedIs DEF Drawable

LEMMA RegeneratedDrawable ==
    ASSUME NEW g, NEW c, NEW n, Drawable(g, c, n)
    PROVE  Drawable(Regenerated(g, n), c, n)
<1>1. g \in Generator /\ n \in Nat /\ g.value \in Nat /\ g.made \in Nat
      /\ \A u \in Torrent : g.of[u].value \in Nat
  BY DEF Drawable, Generator, Entry
<1> DEFINE h == Regenerated(g, n)
<1>2. /\ h \in Generator /\ h.value = g.made + 1 /\ h.at = n
      /\ h.of = g.of /\ h.made = g.made + 1
  BY <1>1, RegeneratedIs
<1> HIDE DEF h
<1>3. Drawable(h, c, n)
  BY <1>1, <1>2 DEF Drawable
<1> QED
  BY <1>3 DEF h

\* The shared value, found or drawn.
LEMMA SharedDrawable ==
    ASSUME NEW g, NEW c, NEW n, Drawable(g, c, n), NEW stale \in BOOLEAN,
           NEW o \in Shared(g, stale, n)
    PROVE  Drawable(o.gen, c, n) /\ o.value \in Nat /\ o.value <= o.gen.made
<1>1. g \in Generator /\ n \in Nat /\ g.value \in Nat /\ g.made \in Nat
  BY DEF Drawable, Generator
<1>2. CASE o.gen = g /\ o.value \in {0, g.value}
  BY <1>1, <1>2 DEF Drawable
<1>3. CASE o.value = g.made + 1 /\ o.gen = Regenerated(g, n)
  <2>1. o.gen.made = g.made + 1
    BY <1>1, <1>3, RegeneratedIs
  <2> QED
    BY <1>1, <1>3, <2>1, RegeneratedDrawable
<1> QED
  BY <1>1, <1>2, <1>3, SharedIs

LEMMA CarriedAreOld ==
    ASSUME NEW g, NEW c, NEW n, Drawable(g, c, n)
    PROVE  \A u \in Sent(c) : c[u].peerId # g.made + 1 /\ c[u].at <= n
<1>1. g.made \in Nat
  BY DEF Drawable, Generator
<1>2. \A u \in Sent(c) : c[u].peerId \in Nat /\ c[u].peerId <= g.made /\ c[u].at <= n
  BY Zenon DEF Drawable
<1> QED
  BY <1>1, <1>2

LEMMA NeverKept ==
    ASSUME NEW g, NEW c, NEW n, Drawable(g, c, n), NeverInv(g, c),
           NEW o \in Cached(g, n)
    PROVE  NeverInv(o.gen, c)
<1>1. g \in Generator /\ n \in Nat
  BY DEF Drawable
<1>2. CASE Sent(c) = {}
  BY <1>2 DEF NeverInv
<1>3. CASE g.value # 0
  BY <1>1, <1>3, SharedIs DEF Cached
<1> QED
  BY <1>2, <1>3 DEF NeverInv

LEMMA NeverPromise ==
    ASSUME NEW g, NEW c, NEW n, Drawable(g, c, n), NeverInv(g, c),
           NEW t \in Torrent, NEW event, NEW o \in Cached(g, n), o.value # 0,
           NEW cc, Recorded(t, event, o.value, n, c, cc)
    PROVE  NeverInv(o.gen, cc) /\ \A u \in Sent(c) : cc[t].peerId = c[u].peerId
<1>1. g \in Generator /\ n \in Nat /\ g.made \in Nat
  BY DEF Drawable, Generator
<1>2. o.gen.value = o.value
  <2>1. Regenerated(g, n).value = g.made + 1
    BY <1>1, RegeneratedIs
  <2>2. \/ o.value = g.made + 1 /\ o.gen = Regenerated(g, n)
        \/ o.value = 0 /\ o.gen = g
        \/ o.value = g.value /\ o.gen = g
    BY <1>1, SharedIs DEF Cached
  <2> QED
    BY <2>1, <2>2
<1>3. NeverInv(o.gen, c)
  BY NeverKept
<1>4. cc[t].peerId = o.value
  BY DEF Recorded
<1> QED
  BY <1>2, <1>3, <1>4, RecordedIs DEF NeverInv

LEMMA AlwaysPromise ==
    ASSUME NEW g, NEW c, NEW n, Drawable(g, c, n), NEW o \in Drawn(g)
    PROVE  /\ Drawable(o.gen, c, n) /\ o.value \in Nat /\ o.value <= o.gen.made
           /\ o.value # 0 => \A u \in Sent(c) : o.value # c[u].peerId
<1>1. /\ g \in Generator /\ g.made \in Nat /\ g.value \in Nat
      /\ \A u \in Torrent : g.of[u].value \in Nat
  BY DEF Drawable, Generator, Entry
<1>2. /\ o.value = g.made + 1 \/ o.value = 0
      /\ o.gen \in Generator /\ o.gen.value = g.value /\ o.gen.at = g.at /\ o.gen.of = g.of
      /\ o.gen.made >= g.made /\ o.gen.made >= o.value /\ o.gen.made \in Nat
  BY <1>1, DrawnIs DEF Generator
<1> QED
  BY <1>1, <1>2 DEF Drawable

LEMMA TimedKept ==
    ASSUME NEW g, NEW c, NEW n, Drawable(g, c, n), TimedInv(g, c, n),
           NEW o \in Timed(g, n)
    PROVE  TimedInv(o.gen, c, n)
<1>1. g \in Generator /\ n \in Nat /\ g.made \in Nat
  BY DEF Drawable, Generator
<1>2. CASE o.gen = g
  BY <1>2
<1>3. CASE Expired(g, n) /\ o.gen = Regenerated(g, n)
  <2>1. o.gen.value = g.made + 1
    BY <1>1, <1>3, RegeneratedIs
  <2>2. \A u \in Sent(c) : c[u].peerId # o.gen.value
    BY <2>1, CarriedAreOld
  <2>3. \A u \in Sent(c) : c[u].at # n
    BY <1>3 DEF TimedInv
  <2> QED
    BY <2>2, <2>3 DEF TimedInv
<1>4. Expired(g, n) \in BOOLEAN
  BY DEF Expired
<1> QED
  BY <1>1, <1>2, <1>3, <1>4, SharedIs DEF Timed

\* A value lasts within one unit of time, and no longer than RefreshEvery.
Spaced(old, new) ==
    /\ new.at - old.at >= RefreshEvery => new.peerId # old.peerId
    /\ new.at = old.at => new.peerId = old.peerId

LEMMA TimedPromise ==
    ASSUME NEW g, NEW c, NEW n, Drawable(g, c, n), TimedInv(g, c, n),
           NEW t \in Torrent, NEW event, NEW o \in Timed(g, n), o.value # 0,
           NEW cc, Recorded(t, event, o.value, n, c, cc)
    PROVE  /\ TimedInv(o.gen, cc, n)
           /\ \A u \in Sent(c) : Spaced(c[u], cc[t])
<1>1. /\ g \in Generator /\ n \in Nat /\ g.made \in Nat /\ g.value \in Nat /\ g.at \in Nat
      /\ Expired(g, n) \in BOOLEAN /\ RefreshEvery \in Nat \ {0}
  BY RefreshAssumption DEF Drawable, Generator, Expired
<1>2. cc[t].peerId = o.value /\ cc[t].at = n
  BY DEF Recorded
<1>3. TimedInv(o.gen, c, n)
  BY TimedKept
<1>4. CASE ~Expired(g, n) /\ o.value = g.value /\ o.gen = g
  <2>1. n - g.at < RefreshEvery
    BY <1>1, <1>4 DEF Expired
  <2>2. ASSUME NEW u \in Sent(c)
        PROVE  /\ n - c[u].at >= RefreshEvery => o.value # c[u].peerId
               /\ n = c[u].at => o.value = c[u].peerId
    BY <1>1, <1>4, <2>1 DEF Drawable, TimedInv
  <2>3. TimedInv(o.gen, cc, n)
    <3>1. g.at <= n
      BY DEF Drawable
    <3>2. ASSUME NEW u \in Sent(cc)
          PROVE  /\ cc[u].peerId = o.gen.value => o.gen.at <= cc[u].at
                 /\ cc[u].at = n => cc[u].peerId = o.gen.value /\ ~Expired(o.gen, n)
      <4>1. CASE cc[u].peerId = o.value /\ cc[u].at = n
        BY <1>4, <3>1, <4>1
      <4>2. CASE u \in Sent(c) /\ cc[u] = c[u]
        BY <1>3, <4>2 DEF TimedInv
      <4> QED
        BY <4>1, <4>2, RecordedIs
    <3> QED
      BY <3>2 DEF TimedInv
  <2> QED
    BY <1>2, <2>2, <2>3 DEF Spaced
<1>5. CASE Expired(g, n) /\ o.value = g.made + 1 /\ o.gen = Regenerated(g, n)
  <2>1. o.gen.value = g.made + 1 /\ o.gen.at = n
    BY <1>1, <1>5, RegeneratedIs
  <2>2. \A u \in Sent(c) : c[u].peerId # o.value /\ c[u].at # n
    <3>1. \A u \in Sent(c) : c[u].peerId # o.value
      BY <1>5, CarriedAreOld
    <3>2. \A u \in Sent(c) : c[u].at # n
      BY <1>5 DEF TimedInv
    <3> QED
      BY <3>1, <3>2
  <2>3. ~Expired(o.gen, n)
    BY <1>1, <2>1 DEF Expired
  <2>4. TimedInv(o.gen, cc, n)
    BY <1>1, <1>3, <1>5, <2>1, <2>3, RecordedIs DEF TimedInv
  <2> QED
    BY <1>2, <2>2, <2>4 DEF Spaced
<1> QED
  BY <1>1, <1>4, <1>5, SharedIs DEF Timed

\* A later look at the clock.
LEMMA TimedWaits ==
    ASSUME NEW g, NEW c, NEW n, Drawable(g, c, n), TimedInv(g, c, n)
    PROVE  Drawable(g, c, n + 1) /\ TimedInv(g, c, n + 1)
<1>1. g \in Generator /\ n \in Nat /\ g.at \in Nat
  BY DEF Drawable, Generator
<1> QED
  BY <1>1 DEF Drawable, TimedInv

\* The first of the two draws of TIMED_OR_AFTER_STARTED_ANNOUNCE is that of TIMED.
LEMMA StartedDrawable ==
    ASSUME NEW g, NEW c, NEW n, Drawable(g, c, n), NEW event,
           NEW o \in TimedOrStarted(g, event, n)
    PROVE  Drawable(o.gen, c, n) /\ o.value \in Nat /\ o.value <= o.gen.made
<1>1. g \in Generator /\ n \in Nat /\ Expired(g, n) \in BOOLEAN
  BY DEF Drawable, Expired
<1>2. PICK p \in Timed(g, n) :
        \/ event # "started" /\ o = p
        \/ o.value = 0 /\ o.gen = p.gen
        \/ event = "started" /\ o.value = p.value /\ o.gen = Regenerated(p.gen, n)
  BY <1>1, TimedOrStartedIs
<1>3. Drawable(p.gen, c, n) /\ p.value \in Nat /\ p.value <= p.gen.made
  BY <1>1, SharedDrawable DEF Timed
<1>4. p.gen \in Generator /\ p.gen.made \in Nat
  BY <1>3 DEF Drawable, Generator
<1>5. CASE o = p \/ (o.value = 0 /\ o.gen = p.gen)
  BY <1>3, <1>4, <1>5
<1>6. CASE o.value = p.value /\ o.gen = Regenerated(p.gen, n)
  <2>1. Drawable(o.gen, c, n)
    BY <1>3, <1>6, RegeneratedDrawable
  <2>2. Regenerated(p.gen, n).made = p.gen.made + 1
    BY <1>1, <1>4, RegeneratedIs
  <2> QED
    BY <1>3, <1>4, <1>6, <2>1, <2>2
<1> QED
  BY <1>2, <1>5, <1>6

LEMMA RegeneratedStarted ==
    ASSUME NEW g, NEW c, NEW n, Drawable(g, c, n)
    PROVE  StartedInv(Regenerated(g, n), c)
<1>1. g \in Generator /\ n \in Nat
  BY DEF Drawable
<1>2. Regenerated(g, n).value = g.made + 1
  BY <1>1, RegeneratedIs
<1> QED
  BY <1>2, CarriedAreOld DEF StartedInv

\* What the first draw leaves.
LEMMA FirstDraw ==
    ASSUME NEW g, NEW c, NEW n, Drawable(g, c, n), StartedInv(g, c), NEW p \in Timed(g, n)
    PROVE  /\ StartedInv(p.gen, c) /\ Drawable(p.gen, c, n)
           /\ p.value # 0 =>
                /\ p.gen.value = p.value
                /\ \A u \in Sent(c) : c[u].starts \/ n - c[u].at >= RefreshEvery
                                         => p.value # c[u].peerId
<1>1. /\ g \in Generator /\ n \in Nat /\ g.at \in Nat /\ Expired(g, n) \in BOOLEAN
      /\ RefreshEvery \in Nat
  BY RefreshAssumption DEF Drawable, Generator, Expired
<1>2. \/ Expired(g, n) /\ p.value = g.made + 1 /\ p.gen = Regenerated(g, n)
      \/ p.value = 0 /\ p.gen = g
      \/ ~Expired(g, n) /\ p.value = g.value /\ p.gen = g
  BY <1>1, SharedIs DEF Timed
<1>3. Drawable(p.gen, c, n)
  BY <1>1, SharedDrawable DEF Timed
<1>4. CASE p.value = g.made + 1 /\ p.gen = Regenerated(g, n)
  <2>1. StartedInv(p.gen, c) /\ p.gen.value = p.value
    BY <1>1, <1>4, RegeneratedStarted, RegeneratedIs
  <2> QED
    BY <1>3, <1>4, <2>1, CarriedAreOld
<1>5. CASE p.value = 0 /\ p.gen = g
  BY <1>3, <1>5
<1>6. CASE ~Expired(g, n) /\ p.value = g.value /\ p.gen = g
  <2>1. n - g.at < RefreshEvery
    BY <1>1, <1>6 DEF Expired
  <2>2. ASSUME NEW u \in Sent(c), c[u].starts \/ n - c[u].at >= RefreshEvery
        PROVE  p.value # c[u].peerId
    <3>1. c[u].at \in Nat
      BY Zenon DEF Drawable
    <3>2. c[u].peerId = g.value => g.at <= c[u].at /\ ~c[u].starts
      BY DEF StartedInv
    <3> QED
      BY <1>1, <1>6, <2>1, <2>2, <3>1, <3>2
  <2> QED
    BY <1>3, <1>6, <2>2
<1> QED
  BY <1>2, <1>4, <1>5, <1>6

LEMMA StartedKept ==
    ASSUME NEW g, NEW c, NEW n, Drawable(g, c, n), StartedInv(g, c), NEW event,
           NEW o \in TimedOrStarted(g, event, n)
    PROVE  StartedInv(o.gen, c)
<1>1. g \in Generator /\ n \in Nat
  BY DEF Drawable
<1>2. PICK p \in Timed(g, n) :
        \/ event # "started" /\ o = p
        \/ o.value = 0 /\ o.gen = p.gen
        \/ event = "started" /\ o.value = p.value /\ o.gen = Regenerated(p.gen, n)
  BY <1>1, TimedOrStartedIs
<1>3. StartedInv(p.gen, c) /\ Drawable(p.gen, c, n)
  BY FirstDraw
<1>4. StartedInv(Regenerated(p.gen, n), c)
  BY <1>3, RegeneratedStarted
<1> QED
  BY <1>2, <1>3, <1>4

LEMMA StartedPromise ==
    ASSUME NEW g, NEW c, NEW n, Drawable(g, c, n), StartedInv(g, c), NEW event,
           NEW o \in TimedOrStarted(g, event, n), o.value # 0,
           NEW t \in Torrent, NEW cc, Recorded(t, event, o.value, n, c, cc)
    PROVE  /\ StartedInv(o.gen, cc)
           /\ \A u \in Sent(c) :
                 c[u].starts \/ cc[t].at - c[u].at >= RefreshEvery
                     => cc[t].peerId # c[u].peerId
<1>1. g \in Generator /\ n \in Nat
  BY DEF Drawable
<1>2. PICK p \in Timed(g, n) :
        \/ event # "started" /\ o = p
        \/ o.value = 0 /\ o.gen = p.gen
        \/ event = "started" /\ o.value = p.value /\ o.gen = Regenerated(p.gen, n)
  BY <1>1, TimedOrStartedIs
<1>3. /\ StartedInv(p.gen, c) /\ Drawable(p.gen, c, n) /\ p.value = o.value
      /\ p.gen.value = p.value
      /\ \A u \in Sent(c) : c[u].starts \/ n - c[u].at >= RefreshEvery
                               => p.value # c[u].peerId
  BY <1>2, FirstDraw
<1>4. cc[t].peerId = o.value /\ cc[t].at = n /\ (cc[t].starts => event = "started")
  BY DEF Recorded
<1>5. p.gen \in Generator /\ p.gen.at <= n /\ p.gen.made \in Nat /\ p.gen.value <= p.gen.made
      /\ p.gen.value \in Nat
  BY <1>3 DEF Drawable, Generator
<1>6. \A u \in Sent(cc) : u = t \/ (u \in Sent(c) /\ cc[u] = c[u])
  BY RecordedIs
<1>7. CASE event # "started" /\ o = p
  BY <1>3, <1>4, <1>5, <1>6, <1>7 DEF StartedInv
<1>8. CASE o.gen = Regenerated(p.gen, n)
  <2>1. StartedInv(o.gen, c)
    BY <1>3, <1>8, RegeneratedStarted
  <2>2. o.gen.value = p.gen.made + 1
    <3>1. Regenerated(p.gen, n).value = p.gen.made + 1
      BY <1>1, <1>5, RegeneratedIs
    <3> QED
      BY <1>8, <3>1
  <2>3. cc[t].peerId # o.gen.value
    BY <1>3, <1>4, <1>5, <2>2
  <2> QED
    BY <1>3, <1>4, <1>6, <2>1, <2>3 DEF StartedInv
<1> QED
  BY <1>2, <1>7, <1>8

-----------------------------------------------------------------------------
(* Values of one torrent: found in its entry, or drawn.                      *)

LEMMA FoundOrDrawn ==
    ASSUME NEW g, NEW c, NEW n, Drawable(g, c, n), NEW t \in Torrent, NEW m \in Nat,
           NEW h \in WithEntry(g, t, m)
    PROVE  /\ h.made \in Nat /\ h.made >= g.made
           /\ h.of[t].value \in Nat /\ h.of[t].value # 0 /\ h.of[t].value <= h.made
           /\ h.of[t] # NoEntry
           /\ \/ g.of[t] # NoEntry /\ h.of[t] = g.of[t] /\ h.made = g.made
              \/ h.of[t].value = g.made + 1 /\ h.made = g.made + 1
<1>1. /\ g \in Generator /\ g.made \in Nat /\ g.of[t].value \in Nat
      /\ g.of[t].value <= g.made /\ (g.of[t] # NoEntry => g.of[t].value # 0)
  BY DEF Drawable, Generator, Entry
<1>2. \/ g.of[t] # NoEntry /\ h = g
      \/ h.of[t] = [value |-> g.made + 1, at |-> m] /\ h.made = g.made + 1
  BY <1>1, WithEntryIs
<1>3. CASE g.of[t] # NoEntry /\ h = g
  BY <1>1, <1>3
<1>4. CASE h.of[t] = [value |-> g.made + 1, at |-> m] /\ h.made = g.made + 1
  <2>1. h.of[t].value = g.made + 1
    BY <1>4
  <2>2. h.of[t] # NoEntry
    BY <1>1, <2>1 DEF NoEntry
  <2> QED
    BY <1>1, <1>4, <2>1, <2>2
<1> QED
  BY <1>2, <1>3, <1>4

\* The value was nobody else's, and it is t's own or a new one.
LEMMA OwnValue ==
    ASSUME NEW g, NEW c, NEW n, Drawable(g, c, n), OwnInv(g, c),
           NEW t \in Torrent, NEW m \in Nat, NEW h \in WithEntry(g, t, m)
    PROVE  /\ \A u \in Torrent \ {t} : g.of[u] # NoEntry => h.of[t].value # g.of[u].value
           /\ \A u \in Sent(c) \ {t} : h.of[t].value # c[u].peerId
           /\ t \in Sent(c) /\ ~(g.of[t] # NoEntry /\ h.of[t] = g.of[t])
                  => h.of[t].value # c[t].peerId
<1>1. /\ g \in Generator /\ g.made \in Nat
      /\ \A u \in Torrent : g.of[u].value \in Nat /\ g.of[u].value <= g.made
  BY DEF Drawable, Generator, Entry
<1>2. \/ g.of[t] # NoEntry /\ h.of[t] = g.of[t]
      \/ h.of[t].value = g.made + 1
  BY FoundOrDrawn
<1>3. CASE g.of[t] # NoEntry /\ h.of[t] = g.of[t]
  BY <1>3 DEF OwnInv, Sent
<1>4. CASE h.of[t].value = g.made + 1
  BY <1>1, <1>4, CarriedAreOld
<1> QED
  BY <1>2, <1>3, <1>4

\* Entries of others stay or go; t's holds its value or goes.
LEMMA OwnKept ==
    ASSUME NEW g, NEW c, NEW n, Drawable(g, c, n), OwnInv(g, c),
           NEW t \in Torrent, NEW m \in Nat, NEW h \in WithEntry(g, t, m), NEW d,
           \A u \in Torrent \ {t} : d.of[u] # NoEntry => g.of[u] # NoEntry
                                        /\ d.of[u].value = g.of[u].value,
           d.of[t] # NoEntry => d.of[t].value = h.of[t].value
    PROVE  /\ OwnInv(d, c)
           /\ \A event, cc : Recorded(t, event, h.of[t].value, n, c, cc) => OwnInv(d, cc)
<1>1. /\ \A u \in Torrent \ {t} : g.of[u] # NoEntry => h.of[t].value # g.of[u].value
      /\ \A u \in Sent(c) \ {t} : h.of[t].value # c[u].peerId
  BY OwnValue
<1>2. ASSUME NEW a \in Torrent, NEW b \in Torrent, a # b, d.of[a] # NoEntry
      PROVE  /\ d.of[b] # NoEntry => d.of[a].value # d.of[b].value
             /\ b \in Sent(c) => d.of[a].value # c[b].peerId
  <2>1. CASE a = t
    BY <1>1, <1>2, <2>1
  <2>2. CASE a # t
    <3>1. g.of[a] # NoEntry /\ d.of[a].value = g.of[a].value
      BY <1>2, <2>2
    <3>2. b \in Sent(c) => g.of[a].value # c[b].peerId
      BY <1>2, <3>1 DEF OwnInv
    <3>3. CASE b = t
      BY <1>1, <2>2, <3>1, <3>2, <3>3
    <3>4. CASE b # t
      BY <1>2, <3>1, <3>2, <3>4 DEF OwnInv
    <3> QED
      BY <3>3, <3>4
  <2> QED
    BY <2>1, <2>2
<1>3. ASSUME NEW event, NEW cc, Recorded(t, event, h.of[t].value, n, c, cc),
             NEW a \in Torrent, NEW b \in Torrent, a # b, d.of[a] # NoEntry, b \in Sent(cc)
      PROVE  d.of[a].value # cc[b].peerId
  <2>1. \/ b = t /\ cc[b].peerId = h.of[t].value
        \/ b \in Sent(c) /\ cc[b] = c[b]
    BY <1>3, RecordedIs
  <2>2. CASE b \in Sent(c) /\ cc[b] = c[b]
    BY <1>2, <1>3, <2>2
  <2>3. CASE b = t /\ cc[b].peerId = h.of[t].value
    BY <1>1, <1>3, <2>3
  <2> QED
    BY <2>1, <2>2, <2>3
<1>4. OwnInv(d, c)
  BY <1>2 DEF OwnInv
<1>5. ASSUME NEW event, NEW cc, Recorded(t, event, h.of[t].value, n, c, cc)
      PROVE  OwnInv(d, cc)
  BY <1>2, <1>3, <1>5 DEF OwnInv
<1> QED
  BY <1>4, <1>5

\* Entries that stay keep what is known of the generator.
LEMMA EntriesDrawable ==
    ASSUME NEW g, NEW c, NEW n, Drawable(g, c, n),
           NEW t \in Torrent, NEW m \in Nat, NEW h \in WithEntry(g, t, m),
           NEW d \in Generator, d.value = g.value, d.at = g.at, d.made = h.made,
           \A u \in Torrent \ {t} : d.of[u] # NoEntry => d.of[u].value = g.of[u].value
                                        /\ g.of[u] # NoEntry,
           d.of[t] # NoEntry => d.of[t].value = h.of[t].value
    PROVE  Drawable(d, c, n)
<1>1. /\ n \in Nat /\ g.made \in Nat /\ g.value \in Nat /\ g.value <= g.made /\ g.at <= n
      /\ \A u \in Torrent : g.of[u].value \in Nat /\ g.of[u].value <= g.made
  BY DEF Drawable, Generator, Entry
<1>2. \A u \in Torrent : g.of[u] # NoEntry => g.of[u].value # 0
  BY DEF Drawable
<1>3. \A u \in Sent(c) : /\ c[u].peerId \in Nat /\ c[u].peerId <= g.made
                         /\ c[u].at \in Nat /\ c[u].at <= n
  BY Zenon DEF Drawable
<1>4. /\ h.made \in Nat /\ h.made >= g.made
      /\ h.of[t].value \in Nat /\ h.of[t].value # 0 /\ h.of[t].value <= h.made
  BY FoundOrDrawn
<1>5. \A u \in Torrent : d.of[u] # NoEntry => d.of[u].value <= d.made /\ d.of[u].value # 0
  <2> SUFFICES ASSUME NEW u \in Torrent, d.of[u] # NoEntry
               PROVE  d.of[u].value <= d.made /\ d.of[u].value # 0
    OBVIOUS
  <2>1. CASE u = t
    BY <1>4, <2>1
  <2>2. CASE u # t
    BY <1>1, <1>2, <1>4, <2>2
  <2> QED
    BY <2>1, <2>2
<1>6. \A u \in Torrent : d.of[u] = NoEntry => d.of[u].value <= d.made
  BY <1>4 DEF NoEntry
<1>7. \A u \in Torrent : /\ d.of[u].value <= d.made
                         /\ d.of[u] # NoEntry => d.of[u].value # 0
  BY <1>5, <1>6
<1>8. \A u \in Sent(c) : /\ c[u].peerId \in Nat /\ c[u].peerId <= d.made
                         /\ c[u].at \in Nat /\ c[u].at <= n
  <2>1. d.made \in Nat /\ g.made \in Nat /\ g.made <= d.made
    BY <1>1, <1>4
  <2>2. ASSUME NEW u \in Sent(c) PROVE c[u].peerId <= d.made
    BY <1>3, <2>1
  <2> QED
    BY <1>3, <2>2
<1>9. d.value <= d.made /\ d.at <= n /\ n \in Nat
  BY <1>1, <1>4
<1> QED
  BY <1>7, <1>8, <1>9, Zenon DEF Drawable

\* Of any get(): the generator, and no torrent's value becomes another's.
LEMMA VolatileKept ==
    ASSUME NEW g, NEW c, NEW n, Drawable(g, c, n), OwnInv(g, c), VolatileInv(g, c),
           NEW t \in Torrent, NEW event, NEW o \in Volatile(g, t, event),
           NEW d, NEW dd, d \subseteq dd, event = "stopped" /\ o.value # 0 => t \in dd
    PROVE  /\ Drawable(o.gen, c, n) /\ OwnInv(o.gen, c) /\ VolatileInv(o.gen, c)
           /\ o.value \in Nat /\ o.value <= o.gen.made
           /\ SessionInv(g, c, d) => SessionInv(o.gen, c, dd)
<1>1. g \in Generator /\ g.made \in Nat
  BY DEF Drawable, Generator
<1>2. CASE o.value = 0 /\ o.gen = g
  BY <1>1, <1>2 DEF SessionInv
<1>3. ASSUME NEW h \in WithEntry(g, t, 0), o.value = h.of[t].value,
             o.gen \in Generator, o.gen.value = g.value, o.gen.at = g.at,
             o.gen.made = h.made,
             \A u \in Torrent \ {t} : o.gen.of[u] = g.of[u],
             event # "stopped" => o.gen.of[t] = h.of[t],
             event = "stopped" => o.gen.of[t] = NoEntry
      PROVE  /\ Drawable(o.gen, c, n) /\ OwnInv(o.gen, c) /\ VolatileInv(o.gen, c)
             /\ o.value \in Nat /\ o.value <= o.gen.made
             /\ SessionInv(g, c, d) => SessionInv(o.gen, c, dd)
  <2>1. /\ h.of[t].value \in Nat /\ h.of[t].value # 0 /\ h.of[t].value <= h.made
        /\ h.of[t] # NoEntry
    BY <1>3, FoundOrDrawn
  <2>2. \A u \in Torrent \ {t} : o.gen.of[u] # NoEntry =>
            g.of[u] # NoEntry /\ o.gen.of[u].value = g.of[u].value
    BY <1>3
  <2>3. o.gen.of[t] # NoEntry => o.gen.of[t].value = h.of[t].value
    BY <1>3
  <2>4. Drawable(o.gen, c, n)
    BY <1>3, <2>2, <2>3, EntriesDrawable
  <2>5. OwnInv(o.gen, c)
    BY <1>3, <2>2, <2>3, OwnKept
  <2>6. VolatileInv(o.gen, c)
    <3> SUFFICES ASSUME NEW u \in Sent(c), o.gen.of[u] # NoEntry, c[u].ends
                 PROVE  o.gen.of[u].value # c[u].peerId
      BY DEF VolatileInv
    <3>1. CASE u # t
      BY <1>3, <2>2, <3>1 DEF VolatileInv, Sent
    <3>2. CASE u = t
      <4>1. CASE g.of[t] # NoEntry /\ h.of[t] = g.of[t]
        BY <2>3, <3>2, <4>1 DEF VolatileInv
      <4>2. CASE ~(g.of[t] # NoEntry /\ h.of[t] = g.of[t])
        BY <1>3, <2>3, <3>2, <4>2, OwnValue
      <4> QED
        BY <4>1, <4>2
    <3> QED
      BY <3>1, <3>2
  <2>7. ASSUME SessionInv(g, c, d) PROVE SessionInv(o.gen, c, dd)
    <3> SUFFICES ASSUME NEW u \in Sent(c) \ dd, ~c[u].ends
                 PROVE  o.gen.of[u] # NoEntry /\ o.gen.of[u].value = c[u].peerId
      BY DEF SessionInv
    <3>1. g.of[u] # NoEntry /\ g.of[u].value = c[u].peerId
      BY <2>7 DEF SessionInv
    <3>2. CASE u # t
      BY <1>3, <3>1, <3>2 DEF Sent
    <3>3. CASE u = t
      <4>1. h = g
        BY <1>1, <1>3, <3>1, <3>3 DEF WithEntry
      <4>2. event # "stopped"
        BY <1>3, <2>1, <3>3
      <4> QED
        BY <1>3, <3>1, <3>3, <4>1, <4>2
    <3> QED
      BY <3>2, <3>3
  <2> QED
    BY <1>3, <2>1, <2>4, <2>5, <2>6, <2>7
<1> QED
  BY <1>1, <1>2, <1>3, VolatileIs

LEMMA VolatilePromise ==
    ASSUME NEW g, NEW c, NEW n, Drawable(g, c, n), OwnInv(g, c), VolatileInv(g, c),
           NEW t \in Torrent, NEW event, NEW o \in Volatile(g, t, event), o.value # 0,
           NEW cc, Recorded(t, event, o.value, n, c, cc)
    PROVE  /\ OwnInv(o.gen, cc) /\ VolatileInv(o.gen, cc)
           /\ \A u \in Sent(c) \ {t} : cc[t].peerId # c[u].peerId
           /\ t \in Sent(c) /\ c[t].ends => cc[t].peerId # c[t].peerId
<1>1. g \in Generator /\ g.made \in Nat
  BY DEF Drawable, Generator
<1>2. PICK h \in WithEntry(g, t, 0) :
        /\ o.value = h.of[t].value
        /\ o.gen \in Generator /\ o.gen.value = g.value /\ o.gen.at = g.at
        /\ o.gen.made = h.made
        /\ \A u \in Torrent \ {t} : o.gen.of[u] = g.of[u]
        /\ event # "stopped" => o.gen.of[t] = h.of[t]
        /\ event = "stopped" => o.gen.of[t] = NoEntry
  BY <1>1, VolatileIs
<1>3. /\ cc[t].peerId = h.of[t].value /\ (cc[t].ends <=> event = "stopped")
      /\ Recorded(t, event, h.of[t].value, n, c, cc)
  BY <1>2 DEF Recorded
<1>4. \A u \in Sent(cc) : u = t \/ (u # t /\ u \in Torrent /\ u \in Sent(c) /\ cc[u] = c[u])
  BY RecordedIs DEF Sent
<1>5. /\ \A u \in Sent(c) \ {t} : h.of[t].value # c[u].peerId
      /\ t \in Sent(c) /\ ~(g.of[t] # NoEntry /\ h.of[t] = g.of[t])
             => h.of[t].value # c[t].peerId
  BY OwnValue
<1>6. OwnInv(o.gen, cc)
  <2>1. \A u \in Torrent \ {t} : o.gen.of[u] # NoEntry =>
            g.of[u] # NoEntry /\ o.gen.of[u].value = g.of[u].value
    BY <1>2
  <2>2. o.gen.of[t] # NoEntry => o.gen.of[t].value = h.of[t].value
    BY <1>2
  <2> QED
    BY <1>3, <2>1, <2>2, OwnKept, ZenonT(60)
<1>7. h.of[t] # NoEntry
  BY FoundOrDrawn
<1>8. VolatileInv(o.gen, cc)
  <2> SUFFICES ASSUME NEW u \in Sent(cc), o.gen.of[u] # NoEntry, cc[u].ends
               PROVE  o.gen.of[u].value # cc[u].peerId
    BY DEF VolatileInv
  <2>1. u # t
    BY <1>2, <1>3
  <2> QED
    BY <1>2, <1>4, <2>1 DEF VolatileInv
<1>9. ASSUME t \in Sent(c), c[t].ends PROVE h.of[t].value # c[t].peerId
  BY <1>5, <1>9 DEF VolatileInv
<1> QED
  BY <1>3, <1>5, <1>6, <1>8, <1>9

\* Within a session, the value is the one the torrent's last query carried.
LEMMA VolatileSame ==
    ASSUME NEW g \in Generator, NEW c, NEW d, SessionInv(g, c, d),
           NEW t \in Torrent, t \in Sent(c), t \notin d, ~c[t].ends,
           NEW event, NEW o \in Volatile(g, t, event), o.value # 0
    PROVE  o.value = c[t].peerId
<1>1. PICK h \in WithEntry(g, t, 0) : o.value = h.of[t].value
  BY VolatileIs
<1>2. g.of[t] # NoEntry /\ g.of[t].value = c[t].peerId
  BY DEF SessionInv
<1>3. h = g
  BY <1>1, <1>2 DEF WithEntry
<1> QED
  BY <1>1, <1>2, <1>3

LEMMA VolatileSession ==
    ASSUME NEW g, NEW c, NEW n, Drawable(g, c, n), NEW d, SessionInv(g, c, d),
           NEW t \in Torrent, NEW event, NEW o \in Volatile(g, t, event), o.value # 0,
           NEW cc, Recorded(t, event, o.value, n, c, cc)
    PROVE  SessionInv(o.gen, cc, d \ {t})
<1>1. g \in Generator /\ g.made \in Nat
  BY DEF Drawable, Generator
<1>2. PICK h \in WithEntry(g, t, 0) :
        /\ o.value = h.of[t].value
        /\ \A u \in Torrent \ {t} : o.gen.of[u] = g.of[u]
        /\ event # "stopped" => o.gen.of[t] = h.of[t]
  BY <1>1, VolatileIs
<1>3. h.of[t] # NoEntry
  BY FoundOrDrawn
<1> SUFFICES ASSUME NEW u \in Sent(cc) \ (d \ {t}), ~cc[u].ends
             PROVE  o.gen.of[u] # NoEntry /\ o.gen.of[u].value = cc[u].peerId
  BY DEF SessionInv
<1>4. /\ cc[t].peerId = h.of[t].value /\ (cc[t].ends <=> event = "stopped")
      /\ u = t \/ (u # t /\ u \in Torrent /\ u \in Sent(c) /\ cc[u] = c[u])
  BY <1>2, RecordedIs DEF Recorded, Sent
<1>5. CASE u = t
  BY <1>2, <1>3, <1>4, <1>5
<1>6. CASE u # t
  BY <1>2, <1>4, <1>6 DEF SessionInv
<1> QED
  BY <1>5, <1>6

\* An entry is dropped only after its time to live.
LEMMA PersistentKept ==
    ASSUME NEW g, NEW c, NEW n, Drawable(g, c, n), OwnInv(g, c), PersistentInv(g, c, n),
           NEW t \in Torrent, NEW o \in Persistent(g, t, n)
    PROVE  /\ Drawable(o.gen, c, n) /\ OwnInv(o.gen, c) /\ PersistentInv(o.gen, c, n)
           /\ o.value \in Nat /\ o.value <= o.gen.made
<1>1. /\ g \in Generator /\ g.made \in Nat /\ n \in Nat
      /\ \A u \in Torrent : g.of[u].at \in Nat
  BY DEF Drawable, Generator, Entry
<1>2. CASE o.value = 0 /\ o.gen = g
  BY <1>1, <1>2
<1>3. ASSUME NEW h \in WithEntry(g, t, n), o.value = h.of[t].value,
             o.gen \in Generator, o.gen.value = g.value, o.gen.at = g.at,
             o.gen.made = h.made,
             o.gen.of[t] = [value |-> h.of[t].value, at |-> n],
             \A u \in Torrent \ {t} :
                 o.gen.of[u] = IF n - g.of[u].at >= Ttl THEN NoEntry ELSE g.of[u]
      PROVE  /\ Drawable(o.gen, c, n) /\ OwnInv(o.gen, c) /\ PersistentInv(o.gen, c, n)
             /\ o.value \in Nat /\ o.value <= o.gen.made
  <2>1. /\ h.of[t].value \in Nat /\ h.of[t].value # 0 /\ h.of[t].value <= h.made
        /\ h.of[t] # NoEntry
    BY <1>1, <1>3, FoundOrDrawn
  <2>2. \A u \in Torrent \ {t} : o.gen.of[u] # NoEntry =>
            g.of[u] # NoEntry /\ o.gen.of[u].value = g.of[u].value
    BY <1>3
  <2>3. o.gen.of[t].value = h.of[t].value /\ o.gen.of[t].at = n /\ o.gen.of[t] # NoEntry
    BY <1>3, <2>1 DEF NoEntry
  <2>4. Drawable(o.gen, c, n)
    BY <1>1, <1>3, <2>2, <2>3, EntriesDrawable
  <2>5. OwnInv(o.gen, c)
    BY <1>1, <1>3, <2>2, <2>3, OwnKept
  <2>6. PersistentInv(o.gen, c, n)
    <3> SUFFICES ASSUME NEW u \in Sent(c), n - c[u].at < Ttl
                 PROVE  /\ o.gen.of[u] # NoEntry /\ o.gen.of[u].value = c[u].peerId
                        /\ c[u].at <= o.gen.of[u].at
      BY DEF PersistentInv
    <3>1. /\ g.of[u] # NoEntry /\ g.of[u].value = c[u].peerId /\ c[u].at <= g.of[u].at
          /\ u \in Torrent
      BY DEF PersistentInv, Sent
    <3>2. c[u].at \in Nat /\ c[u].at <= n
      BY Zenon DEF Drawable
    <3>3. CASE u # t
      <4>1. ~(n - g.of[u].at >= Ttl)
        BY <1>1, <3>1, <3>2, RefreshAssumption
      <4> QED
        BY <1>3, <3>1, <3>3, <4>1
    <3>4. CASE u = t
      <4>1. h = g
        BY <1>1, <3>1, <3>4 DEF WithEntry
      <4> QED
        BY <2>3, <3>1, <3>2, <3>4, <4>1
    <3> QED
      BY <3>3, <3>4
  <2> QED
    BY <1>3, <2>1, <2>4, <2>5, <2>6
<1> QED
  BY <1>1, <1>2, <1>3, PersistentIs, ZenonT(60)

LEMMA PersistentPromise ==
    ASSUME NEW g, NEW c, NEW n, Drawable(g, c, n), OwnInv(g, c), PersistentInv(g, c, n),
           NEW t \in Torrent, NEW event, NEW o \in Persistent(g, t, n), o.value # 0,
           NEW cc, Recorded(t, event, o.value, n, c, cc)
    PROVE  /\ OwnInv(o.gen, cc) /\ PersistentInv(o.gen, cc, n)
           /\ \A u \in Sent(c) \ {t} : cc[t].peerId # c[u].peerId
           /\ t \in Sent(c) /\ cc[t].at - c[t].at < Ttl => cc[t].peerId = c[t].peerId
<1>1. g \in Generator /\ g.made \in Nat /\ n \in Nat
  BY DEF Drawable, Generator
<1>2. PICK h \in WithEntry(g, t, n) :
        /\ o.value = h.of[t].value
        /\ o.gen \in Generator /\ o.gen.value = g.value /\ o.gen.at = g.at
        /\ o.gen.made = h.made
        /\ o.gen.of[t] = [value |-> h.of[t].value, at |-> n]
        /\ \A u \in Torrent \ {t} :
              o.gen.of[u] = IF n - g.of[u].at >= Ttl THEN NoEntry ELSE g.of[u]
  BY <1>1, PersistentIs, SMTT(30)
<1>3. /\ cc[t].peerId = h.of[t].value /\ cc[t].at = n
      /\ Recorded(t, event, h.of[t].value, n, c, cc)
  BY <1>2 DEF Recorded
<1>4. \A u \in Sent(cc) : u = t \/ (u # t /\ u \in Sent(c) /\ cc[u] = c[u])
  BY RecordedIs
<1>5. \A u \in Sent(c) \ {t} : h.of[t].value # c[u].peerId
  BY <1>1, OwnValue
<1>6. PersistentInv(o.gen, c, n)
  BY PersistentKept
<1>7. o.gen.of[t].value = h.of[t].value /\ o.gen.of[t].at = n /\ o.gen.of[t] # NoEntry
  BY <1>2 DEF NoEntry
<1>8. OwnInv(o.gen, cc)
  <2>1. \A u \in Torrent \ {t} : o.gen.of[u] # NoEntry =>
            g.of[u] # NoEntry /\ o.gen.of[u].value = g.of[u].value
    BY <1>2
  <2> QED
    BY <1>1, <1>3, <1>7, <2>1, OwnKept, ZenonT(60)
<1>9. PersistentInv(o.gen, cc, n)
  BY <1>1, <1>3, <1>4, <1>6, <1>7 DEF PersistentInv
<1>10. ASSUME t \in Sent(c), n - c[t].at < Ttl PROVE h.of[t].value = c[t].peerId
  <2>1. g.of[t] # NoEntry /\ g.of[t].value = c[t].peerId
    BY <1>10 DEF PersistentInv
  <2>2. h = g
    BY <1>1, <2>1 DEF WithEntry
  <2> QED
    BY <2>1, <2>2
<1> QED
  BY <1>3, <1>5, <1>8, <1>9, <1>10
-----------------------------------------------------------------------------
(* One get() of any policy.                                                  *)

PromiseInv(policy, g, c, n) ==
    /\ policy = "NEVER" => NeverInv(g, c)
    /\ policy = "TIMED" => TimedInv(g, c, n)
    /\ policy = "TIMED_OR_AFTER_STARTED_ANNOUNCE" => StartedInv(g, c)
    /\ policy = "TORRENT_VOLATILE" => OwnInv(g, c) /\ VolatileInv(g, c)
    /\ policy = "TORRENT_PERSISTENT" => OwnInv(g, c) /\ PersistentInv(g, c, n)

LEMMA GetKept ==
    ASSUME NEW g, NEW c, NEW n, Drawable(g, c, n), NEW policy \in Policies,
           PromiseInv(policy, g, c, n), NEW t \in Torrent, NEW event,
           NEW o \in Get(policy, g, t, event, n)
    PROVE  /\ Drawable(o.gen, c, n) /\ PromiseInv(policy, o.gen, c, n)
           /\ o.value \in Nat /\ o.value <= o.gen.made
<1>1. Expired(g, n) \in BOOLEAN /\ (g.value = 0) \in BOOLEAN
  BY DEF Expired
<1>2. CASE policy = "NEVER"
  <2>1. o \in Cached(g, n) /\ NeverInv(g, c)
    BY <1>2 DEF Get, PromiseInv
  <2>2. NeverInv(o.gen, c)
    BY <2>1, NeverKept
  <2>3. Drawable(o.gen, c, n) /\ o.value \in Nat /\ o.value <= o.gen.made
    BY <1>1, <2>1, SharedDrawable DEF Cached
  <2> QED
    BY <1>2, <2>2, <2>3 DEF PromiseInv
<1>3. CASE policy = "ALWAYS"
  <2>1. o \in Drawn(g)
    BY <1>3 DEF Get
  <2>2. Drawable(o.gen, c, n) /\ o.value \in Nat /\ o.value <= o.gen.made
    BY <2>1, AlwaysPromise
  <2> QED
    BY <1>3, <2>2 DEF PromiseInv
<1>4. CASE policy = "TIMED"
  <2>1. o \in Timed(g, n) /\ TimedInv(g, c, n)
    BY <1>4 DEF Get, PromiseInv
  <2>2. TimedInv(o.gen, c, n)
    BY <2>1, TimedKept
  <2>3. Drawable(o.gen, c, n) /\ o.value \in Nat /\ o.value <= o.gen.made
    BY <1>1, <2>1, SharedDrawable DEF Timed
  <2> QED
    BY <1>4, <2>2, <2>3 DEF PromiseInv
<1>5. CASE policy = "TIMED_OR_AFTER_STARTED_ANNOUNCE"
  <2>1. o \in TimedOrStarted(g, event, n) /\ StartedInv(g, c)
    BY <1>5 DEF Get, PromiseInv
  <2>2. StartedInv(o.gen, c)
    BY <2>1, StartedKept
  <2>3. Drawable(o.gen, c, n) /\ o.value \in Nat /\ o.value <= o.gen.made
    BY <2>1, StartedDrawable
  <2> QED
    BY <1>5, <2>2, <2>3 DEF PromiseInv
<1>6. CASE policy = "TORRENT_VOLATILE"
  <2>1. o \in Volatile(g, t, event) /\ OwnInv(g, c) /\ VolatileInv(g, c)
    BY <1>6 DEF Get, PromiseInv
  <2>2. /\ Drawable(o.gen, c, n) /\ OwnInv(o.gen, c) /\ VolatileInv(o.gen, c)
        /\ o.value \in Nat /\ o.value <= o.gen.made
    BY <2>1, VolatileKept
  <2> QED
    BY <1>6, <2>2 DEF PromiseInv
<1>7. CASE policy = "TORRENT_PERSISTENT"
  <2>1. o \in Persistent(g, t, n) /\ OwnInv(g, c) /\ PersistentInv(g, c, n)
    BY <1>7 DEF Get, PromiseInv
  <2>2. /\ Drawable(o.gen, c, n) /\ OwnInv(o.gen, c) /\ PersistentInv(o.gen, c, n)
        /\ o.value \in Nat /\ o.value <= o.gen.made
    BY <2>1, PersistentKept
  <2> QED
    BY <1>7, <2>2 DEF PromiseInv
<1> QED
  BY <1>2, <1>3, <1>4, <1>5, <1>6, <1>7 DEF Policies

LEMMA GetRecorded ==
    ASSUME NEW g, NEW c, NEW n, Drawable(g, c, n), NEW policy \in Policies,
           PromiseInv(policy, g, c, n), NEW t \in Torrent, NEW event,
           NEW o \in Get(policy, g, t, event, n), o.value # 0,
           NEW cc, Recorded(t, event, o.value, n, c, cc)
    PROVE  Drawable(o.gen, cc, n) /\ PromiseInv(policy, o.gen, cc, n)
<1>1. Drawable(o.gen, cc, n)
  <2>1. Drawable(o.gen, c, n) /\ o.value \in Nat /\ o.value <= o.gen.made
    BY GetKept
  <2> QED
    BY <2>1, RecordedDrawable
<1>2. ASSUME policy = "NEVER" PROVE NeverInv(o.gen, cc)
  <2>1. o \in Cached(g, n) /\ NeverInv(g, c)
    BY <1>2 DEF Get, PromiseInv
  <2> QED
    BY <2>1, NeverPromise
<1>3. ASSUME policy = "TIMED" PROVE TimedInv(o.gen, cc, n)
  <2>1. o \in Timed(g, n) /\ TimedInv(g, c, n)
    BY <1>3 DEF Get, PromiseInv
  <2> QED
    BY <2>1, TimedPromise
<1>4. ASSUME policy = "TIMED_OR_AFTER_STARTED_ANNOUNCE" PROVE StartedInv(o.gen, cc)
  <2>1. o \in TimedOrStarted(g, event, n) /\ StartedInv(g, c)
    BY <1>4 DEF Get, PromiseInv
  <2> QED
    BY <2>1, StartedPromise
<1>5. ASSUME policy = "TORRENT_VOLATILE" PROVE OwnInv(o.gen, cc) /\ VolatileInv(o.gen, cc)
  <2>1. o \in Volatile(g, t, event) /\ OwnInv(g, c) /\ VolatileInv(g, c)
    BY <1>5 DEF Get, PromiseInv
  <2> QED
    BY <2>1, VolatilePromise
<1>6. ASSUME policy = "TORRENT_PERSISTENT"
      PROVE  OwnInv(o.gen, cc) /\ PersistentInv(o.gen, cc, n)
  <2>1. o \in Persistent(g, t, n) /\ OwnInv(g, c) /\ PersistentInv(g, c, n)
    BY <1>6 DEF Get, PromiseInv
  <2> QED
    BY <2>1, PersistentPromise
<1> QED
  BY <1>1, <1>2, <1>3, <1>4, <1>5, <1>6 DEF PromiseInv

LEMMA PromiseWaits ==
    ASSUME NEW g, NEW c, NEW n, Drawable(g, c, n), NEW policy,
           PromiseInv(policy, g, c, n)
    PROVE  Drawable(g, c, n + 1) /\ PromiseInv(policy, g, c, n + 1)
<1>1. g \in Generator /\ n \in Nat /\ g.at \in Nat
  BY DEF Drawable, Generator
<1>2. Drawable(g, c, n + 1)
  <2>1. \A u \in Sent(c) : /\ c[u].peerId \in Nat /\ c[u].peerId <= g.made
                           /\ c[u].at \in Nat /\ c[u].at <= n
    BY Zenon DEF Drawable
  <2>2. \A u \in Sent(c) : c[u].at <= n + 1
    BY <1>1, <2>1
  <2>3. n + 1 \in Nat /\ g.at <= n + 1
    BY <1>1 DEF Drawable
  <2> QED
    BY <2>1, <2>2, <2>3, Zenon DEF Drawable
<1>3. ASSUME policy = "TIMED" PROVE TimedInv(g, c, n + 1)
  BY <1>3, TimedWaits DEF PromiseInv
<1>4. ASSUME policy = "TORRENT_PERSISTENT" PROVE PersistentInv(g, c, n + 1)
  <2>1. PersistentInv(g, c, n)
    BY <1>4 DEF PromiseInv
  <2>2. \A u \in Sent(c) : c[u].at \in Nat
    BY Zenon DEF Drawable
  <2>3. ASSUME NEW u \in Sent(c), (n + 1) - c[u].at < Ttl PROVE n - c[u].at < Ttl
    <3>1. c[u].at \in Nat
      BY <2>2
    <3> QED
      BY <1>1, <2>3, <3>1, RefreshAssumption
  <2> SUFFICES ASSUME NEW u \in Sent(c), (n + 1) - c[u].at < Ttl
               PROVE  /\ g.of[u] # NoEntry /\ g.of[u].value = c[u].peerId
                      /\ c[u].at <= g.of[u].at
    BY Zenon DEF PersistentInv
  <2>4. n - c[u].at < Ttl
    BY <2>3
  <2> QED
    BY <2>1, <2>4, Zenon DEF PersistentInv
<1> QED
  BY <1>2, <1>3, <1>4 DEF PromiseInv
-----------------------------------------------------------------------------
(* Any run of announces: a get() whose query fails changes the generator     *)
(* only; one whose query is sent is recorded with it.                        *)

PolicyInv ==
    /\ client \in Clients
    /\ carried = [u \in Torrent |-> carried[u]]
    /\ Drawable(peerId, carried, now)
    /\ PromiseInv(client.peerId, peerId, carried, now)
    /\ client.peerId = "TORRENT_VOLATILE" => SessionInv(peerId, carried, dropped)

LEMMA PolicyInit == Init => PolicyInv
<1> SUFFICES ASSUME Init PROVE PolicyInv
  OBVIOUS
<1>1. /\ client \in Clients /\ peerId = Fresh /\ now = 0
      /\ carried = [u \in Torrent |-> Nothing]
  BY DEF Init
<1>2. Sent(carried) = {}
  BY <1>1 DEF Sent
<1>3. /\ Fresh \in Generator /\ Fresh.value = 0 /\ Fresh.at = 0 /\ Fresh.made = 0
      /\ \A u \in Torrent : Fresh.of[u] = NoEntry /\ Fresh.of[u].value = 0
  BY DEF Fresh, Generator, Entry, NoEntry
<1>4. Drawable(peerId, carried, now)
  BY <1>1, <1>2, <1>3 DEF Drawable
<1>5. OwnInv(peerId, carried)
  BY <1>1, <1>3 DEF OwnInv
<1>6. /\ NeverInv(peerId, carried) /\ TimedInv(peerId, carried, now)
      /\ StartedInv(peerId, carried) /\ VolatileInv(peerId, carried)
      /\ SessionInv(peerId, carried, dropped) /\ PersistentInv(peerId, carried, now)
  BY <1>2 DEF NeverInv, TimedInv, StartedInv, VolatileInv, SessionInv, PersistentInv
<1> QED
  BY <1>1, <1>4, <1>5, <1>6 DEF PolicyInv, PromiseInv

\* The policy of a client's peer ids is one of those there are.
LEMMA PolicyKnown == PolicyInv => client.peerId \in Policies
BY ClientsAssumption DEF PolicyInv

LEMMA FailureKeepsPolicy ==
    ASSUME PolicyInv, NEW t \in Torrent, NEW event \in Event, QueryFails(t, event)
    PROVE  PolicyInv'
<1>1. PICK p \in Get(client.peerId, peerId, t, event, now) :
        /\ peerId' = p.gen
        /\ dropped \subseteq dropped'
        /\ event = "stopped" /\ p.value # 0 => t \in dropped'
  BY DEF QueryFails, PeerIdOutcomes
<1>2. client' = client /\ carried' = carried /\ now' = now
  BY DEF QueryFails
<1>3. Drawable(p.gen, carried, now) /\ PromiseInv(client.peerId, p.gen, carried, now)
  <2>1. client.peerId \in Policies
    BY PolicyKnown
  <2> QED
    BY <2>1, GetKept DEF PolicyInv
<1>4. ASSUME client.peerId = "TORRENT_VOLATILE"
      PROVE  SessionInv(p.gen, carried, dropped')
  <2>1. /\ p \in Volatile(peerId, t, event) /\ Drawable(peerId, carried, now)
        /\ OwnInv(peerId, carried) /\ VolatileInv(peerId, carried)
        /\ SessionInv(peerId, carried, dropped)
    BY <1>4 DEF PolicyInv, PromiseInv, Get
  <2> QED
    BY <1>1, <2>1, VolatileKept
<1> QED
  BY <1>1, <1>2, <1>3, <1>4 DEF PolicyInv

\* What BuildQuery() records.
LEMMA QueryRecorded ==
    ASSUME PolicyInv, NEW k \in Task, NEW t \in Torrent, NEW event \in Event,
           BuildQuery(k, t, event)
    PROVE  \E p \in Get(client.peerId, peerId, t, event, now) :
              /\ p.value # 0 /\ peerId' = p.gen
              /\ Recorded(t, event, p.value, now, carried, carried')
              /\ carried' = [u \in Torrent |-> carried'[u]]
<1>1. PICK p \in Get(client.peerId, peerId, t, event, now), q \in KeyOutcomes(t, event) :
        /\ p.value # 0 /\ q.value # 0
        /\ peerId' = p.gen
        /\ carried' = [carried EXCEPT ![t] =
               [starts |-> event = "started", ends |-> event = "stopped",
                peerId |-> p.value, key |-> q.value, at |-> now]]
  BY DEF BuildQuery, PeerIdOutcomes
<1> DEFINE sent == [starts |-> event = "started", ends |-> event = "stopped",
                    peerId |-> p.value, key |-> q.value, at |-> now]
<1>2. /\ carried'[t] = sent /\ \A u \in Torrent \ {t} : carried'[u] = carried[u]
      /\ carried' = [u \in Torrent |-> carried'[u]]
  <2>1. carried = [u \in Torrent |-> carried[u]]
    BY DEF PolicyInv
  <2> QED
    BY <1>1, <2>1
<1>3. /\ sent.peerId = p.value /\ sent.at = now
      /\ sent.starts = (event = "started") /\ sent.ends = (event = "stopped")
  OBVIOUS
<1>4. Nothing.peerId = 0
  BY DEF Nothing
<1>5. sent # Nothing
  BY <1>1, <1>3, <1>4
<1>6. Recorded(t, event, p.value, now, carried, carried')
  BY <1>2, <1>3, <1>5, Zenon DEF Recorded
<1> QED
  BY <1>1, <1>2, <1>6

LEMMA BuildKeepsPolicy ==
    ASSUME PolicyInv, NEW k \in Task, NEW t \in Torrent, NEW event \in Event,
           BuildQuery(k, t, event)
    PROVE  PolicyInv'
<1>1. PICK p \in Get(client.peerId, peerId, t, event, now) :
        /\ p.value # 0 /\ peerId' = p.gen
        /\ Recorded(t, event, p.value, now, carried, carried')
        /\ carried' = [u \in Torrent |-> carried'[u]]
  BY QueryRecorded
<1>2. client' = client /\ now' = now /\ dropped' = dropped \ {t}
  BY DEF BuildQuery
<1>3. Drawable(p.gen, carried', now) /\ PromiseInv(client.peerId, p.gen, carried', now)
  <2>1. client.peerId \in Policies
    BY PolicyKnown
  <2> QED
    BY <1>1, <2>1, GetRecorded DEF PolicyInv
<1>4. ASSUME client.peerId = "TORRENT_VOLATILE"
      PROVE  SessionInv(p.gen, carried', dropped \ {t})
  <2>1. /\ p \in Volatile(peerId, t, event) /\ Drawable(peerId, carried, now)
        /\ OwnInv(peerId, carried) /\ VolatileInv(peerId, carried)
        /\ SessionInv(peerId, carried, dropped)
    BY <1>4 DEF PolicyInv, PromiseInv, Get
  <2> QED
    BY <1>1, <2>1, VolatileSession
<1> QED
  BY <1>1, <1>2, <1>3, <1>4 DEF PolicyInv

LEMMA PolicyStep == PolicyInv /\ [Next]_vars => PolicyInv'
<1> SUFFICES ASSUME PolicyInv, [Next]_vars PROVE PolicyInv'
  OBVIOUS
<1>1. ASSUME UNCHANGED <<client, peerId, now, carried, dropped>> PROVE PolicyInv'
  BY <1>1 DEF PolicyInv
<1>2. CASE \E t \in Torrent, event \in Event : QueryFails(t, event)
  BY <1>2, FailureKeepsPolicy
<1>3. CASE \E t \in Torrent, event \in Event, k \in Task : BuildQuery(k, t, event)
  BY <1>3, BuildKeepsPolicy
<1>4. CASE \E k \in Task : Succeed(k) \/ Rotate(k) \/ CountFailure(k) \/ Abort(k)
  BY <1>1, <1>4 DEF Succeed, Rotate, CountFailure, Abort, history
<1>5. CASE \E t \in Torrent : Recreate(t)
  BY <1>1, <1>5 DEF Recreate
<1>6. CASE Elapse
  <2>1. client' = client /\ peerId' = peerId /\ carried' = carried /\ now' = now + 1
        /\ dropped' = dropped
    BY <1>6 DEF Elapse, history
  <2>2. Drawable(peerId, carried, now + 1)
        /\ PromiseInv(client.peerId, peerId, carried, now + 1)
    BY PromiseWaits DEF PolicyInv
  <2> QED
    BY <2>1, <2>2 DEF PolicyInv
<1>7. CASE UNCHANGED vars
  BY <1>1, <1>7 DEF vars, program, history
<1> QED
  BY <1>2, <1>3, <1>4, <1>5, <1>6, <1>7 DEF Next
\* What a query that is sent carries beside the earlier ones.
LEMMA PromiseGiven ==
    ASSUME PolicyInv, NEW k \in Task, NEW t \in Torrent, NEW event \in Event,
           BuildQuery(k, t, event)
    PROVE  Kept(t, carried[t], carried'[t])
<1>1. PICK p \in Get(client.peerId, peerId, t, event, now) :
        /\ p.value # 0
        /\ Recorded(t, event, p.value, now, carried, carried')
  BY QueryRecorded
<1>2. Drawable(peerId, carried, now) /\ PromiseInv(client.peerId, peerId, carried, now)
  BY DEF PolicyInv
<1> DEFINE new == carried'[t]
<1>3. Sent(carried) = {u \in Torrent : carried[u] # Nothing}
  BY DEF Sent
<1>4. new.peerId = p.value /\ new.at = now
  BY <1>1 DEF Recorded
<1> HIDE DEF new
<1>5. CASE client.peerId = "NEVER"
  <2>1. p \in Cached(peerId, now) /\ NeverInv(peerId, carried)
    BY <1>2, <1>5 DEF Get, PromiseInv
  <2>2. \A u \in Sent(carried) : new.peerId = carried[u].peerId
    <3>1. Drawable(peerId, carried, now)
      BY <1>2
    <3>2. p \in Cached(peerId, now) /\ NeverInv(peerId, carried)
      BY <2>1
    <3>3. p.value # 0 /\ Recorded(t, event, p.value, now, carried, carried')
      BY <1>1
    <3>4. /\ NeverInv(p.gen, carried')
          /\ \A u \in Sent(carried) : carried'[t].peerId = carried[u].peerId
      BY <3>1, <3>2, <3>3, NeverPromise, SMTT(30)
    <3> QED
      BY <3>4 DEF new
  <2>3. Kept(t, carried[t], new)
    BY <1>3, <1>5, <2>2 DEF Kept
  <2> QED
    BY <2>3 DEF new
<1>6. CASE client.peerId = "ALWAYS"
  <2>1. p \in Drawn(peerId)
    BY <1>6 DEF Get
  <2>2. \A u \in Sent(carried) : new.peerId # carried[u].peerId
    BY <1>1, <1>2, <1>4, <2>1, AlwaysPromise
  <2>3. Kept(t, carried[t], new)
    BY <1>3, <1>6, <2>2 DEF Kept
  <2> QED
    BY <2>3 DEF new
<1>7. CASE client.peerId = "TIMED"
  <2>1. p \in Timed(peerId, now) /\ TimedInv(peerId, carried, now)
    BY <1>2, <1>7 DEF Get, PromiseInv
  <2>2. \A u \in Sent(carried) :
           /\ new.at - carried[u].at >= RefreshEvery => new.peerId # carried[u].peerId
           /\ new.at = carried[u].at => new.peerId = carried[u].peerId
    <3>1. Drawable(peerId, carried, now)
      BY <1>2
    <3>2. p \in Timed(peerId, now) /\ TimedInv(peerId, carried, now)
      BY <2>1
    <3>3. p.value # 0 /\ Recorded(t, event, p.value, now, carried, carried')
      BY <1>1
    <3>4. /\ TimedInv(p.gen, carried', now)
          /\ \A u \in Sent(carried) : Spaced(carried[u], carried'[t])
      BY <3>1, <3>2, <3>3, TimedPromise
    <3> QED
      BY <3>4 DEF new, Spaced
  <2>3. Kept(t, carried[t], new)
    BY <1>3, <1>7, <2>2 DEF Kept
  <2> QED
    BY <2>3 DEF new
<1>8. CASE client.peerId = "TIMED_OR_AFTER_STARTED_ANNOUNCE"
  <2>1. p \in TimedOrStarted(peerId, event, now) /\ StartedInv(peerId, carried)
    BY <1>2, <1>8 DEF Get, PromiseInv
  <2>2. \A u \in Sent(carried) :
           carried[u].starts \/ new.at - carried[u].at >= RefreshEvery
               => new.peerId # carried[u].peerId
    BY <1>1, <1>2, <2>1, StartedPromise DEF new
  <2>3. Kept(t, carried[t], new)
    BY <1>3, <1>8, <2>2, Zenon DEF Kept
  <2> QED
    BY <2>3 DEF new
<1>9. CASE client.peerId = "TORRENT_VOLATILE"
  <2>1. p \in Volatile(peerId, t, event) /\ OwnInv(peerId, carried)
        /\ VolatileInv(peerId, carried)
    BY <1>2, <1>9 DEF Get, PromiseInv
  <2>2. SessionInv(peerId, carried, dropped)
    BY <1>9 DEF PolicyInv
  <2>3. /\ \A u \in Sent(carried) \ {t} : new.peerId # carried[u].peerId
        /\ t \in Sent(carried) /\ carried[t].ends => new.peerId # carried[t].peerId
    BY <1>1, <1>2, <2>1, VolatilePromise DEF new
  <2>4. ASSUME t \in Sent(carried), t \notin dropped, ~carried[t].ends
        PROVE  new.peerId = carried[t].peerId
    <3>1. peerId \in Generator /\ p \in Volatile(peerId, t, event) /\ p.value # 0
      BY <1>1, <1>2, <2>1 DEF Drawable
    <3>2. p.value = carried[t].peerId
      BY <2>2, <2>4, <3>1, VolatileSame
    <3> QED
      BY <1>4, <3>2
  <2>5. Kept(t, carried[t], new)
    BY <1>3, <1>9, <2>3, <2>4 DEF Kept
  <2> QED
    BY <2>5 DEF new
<1>10. CASE client.peerId = "TORRENT_PERSISTENT"
  <2>1. p \in Persistent(peerId, t, now) /\ OwnInv(peerId, carried)
        /\ PersistentInv(peerId, carried, now)
    BY <1>2, <1>10 DEF Get, PromiseInv
  <2>2. /\ \A u \in Sent(carried) \ {t} : new.peerId # carried[u].peerId
        /\ t \in Sent(carried) /\ new.at - carried[t].at < Ttl
               => new.peerId = carried[t].peerId
    BY <1>1, <1>2, <2>1, PersistentPromise, SMTT(30) DEF new
  <2>3. Kept(t, carried[t], new)
    BY <1>3, <1>10, <2>2 DEF Kept
  <2> QED
    BY <2>3 DEF new
<1> QED
  BY <1>5, <1>6, <1>7, <1>8, <1>9, <1>10, PolicyKnown DEF Policies

LEMMA SentKept ==
    ASSUME CursorInv, PolicyInv, [Next]_vars, NEW k \in Task, Sends(k)
    PROVE  Kept(call'[k].torrent, carried[call'[k].torrent], carried'[call'[k].torrent])
<1>1. ASSUME NEW t \in Torrent, NEW event \in Event, NEW j \in Task, BuildQuery(j, t, event)
      PROVE  Kept(call'[k].torrent, carried[call'[k].torrent], carried'[call'[k].torrent])
  <2>1. call' = [call EXCEPT ![j] = [stage |-> "awaiting", torrent |-> t,
                                     position |-> announcer[t].cursor]]
    BY <1>1 DEF BuildQuery
  <2>2. j = k
    BY <2>1 DEF Sends, CursorInv, Typed
  <2>3. call'[k].torrent = t
    BY <2>1, <2>2 DEF CursorInv, Typed
  <2>4. Kept(t, carried[t], carried'[t])
    BY <1>1, PromiseGiven
  <2> QED
    BY <2>3, <2>4
<1>2. ASSUME \A j \in Task : call'[j] = NoCall \/ call[j] # NoCall PROVE FALSE
  BY <1>2 DEF Sends
<1>3. ASSUME NEW j \in Task, call[j] # NoCall,
             Succeed(j) \/ Rotate(j) \/ CountFailure(j) \/ Abort(j)
      PROVE  FALSE
  BY <1>2, <1>3 DEF Succeed, Rotate, CountFailure, Abort, Return, CursorInv, Typed
<1>4. ASSUME NEW t \in Torrent, Recreate(t) PROVE FALSE
  BY <1>2, <1>4 DEF Recreate, Calling
<1>5. ASSUME call' = call PROVE FALSE
  BY <1>2, <1>5
<1>6. (\E t \in Torrent, event \in Event : QueryFails(t, event)) \/ Elapse \/ UNCHANGED vars
          => call' = call
  BY DEF QueryFails, Elapse, vars, program
<1> QED
  BY <1>1, <1>3, <1>4, <1>5, <1>6 DEF Next

\* Whatever the profile, the trackers, the announces of any number of torrents
\* and the draws and queries that fail between them, the peer ids trackers see
\* are those the refresh policy of the .client file promises
\* (client/generator/refresh_policy.rs, through bit_torrent_client.rs).
THEOREM PolicyIsKept == Spec => PolicyKept
<1> DEFINE IInv == CursorInv /\ PolicyInv
<1>1. Init => IInv
  BY CursorInit, PolicyInit
<1>2. IInv /\ [Next]_vars => IInv'
  BY CursorStep, PolicyStep
<1>3. IInv /\ [Next]_vars =>
        [ \A k \in Task : Sends(k) =>
            LET t == call'[k].torrent IN Kept(t, carried[t], carried'[t]) ]_vars
  BY SentKept
<1> QED
  BY <1>1, <1>2, <1>3, PTL DEF Spec, PolicyKept
=============================================================================
