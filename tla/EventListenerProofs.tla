------------------------ MODULE EventListenerProofs -------------------------
(***************************************************************************)
(* Proofs about EventListener, for every number of processes and events,   *)
(* every page limit and every length of the chain.                         *)
(***************************************************************************)
EXTENDS EventListener, TLAPS

USE ListenerAssumption DEF Events, Ledgers

\* Every event up to a ledger was taken or skipped, or is in a set.
Covered(l, set) == \A e \in Emitted : chain[e] <= l => e \in marked \cup passed \cup set

\* What a loop may rely on at each await, whatever the other loops do.
Sound(p) ==
    /\ loop[p].pc \in {"fetch", "apply", "dispatch"} => Covered(loop[p].read, {})
    /\ loop[p].pc \in {"apply", "dispatch"} =>
           Covered(loop[p].target, loop[p].queue \cup loop[p].skips)
    /\ loop[p].pc = "save" => Covered(loop[p].target, loop[p].skips)
    /\ loop[p].target <= latest /\ loop[p].read <= latest
    /\ loop[p].queue \cup loop[p].skips \subseteq Emitted
    /\ loop[p].pc = "dispatch" => loop[p].event \in Events

CursorInv ==
    /\ TypeOK
    /\ NothingMissed
    /\ \A p \in Processes : Sound(p)

LEMMA IdleFacts ==
    /\ Idle \in LoopState /\ Idle.pc = "idle" /\ Idle.read = 0 /\ Idle.target = 0
    /\ Idle.queue = {} /\ Idle.skips = {} /\ Idle.event = 0
BY DEF Idle, LoopState

LEMMA TypeInit == Init => TypeOK
BY DEF Init, TypeOK, Emitted, LoopState, Idle

\* A batch lies within what was emitted.
LEMMA PageFacts == \A l \in Ledgers : Page(l) \subseteq After(l) /\ After(l) \subseteq Emitted
BY DEF Page, After

\* Replacing one loop's state.
LEMMA GotoType ==
    ASSUME TypeOK, NEW p \in Processes, NEW state \in LoopState, Goto(p, state)
    PROVE  /\ loop' \in [Processes -> LoopState]
           /\ loop'[p] = state
           /\ \A q \in Processes \ {p} : loop'[q] = loop[q]
BY DEF TypeOK, Goto

\* A step that only adds to what is marked or passed keeps every claim a loop
\* made, if the loop's own state is as before.
LEMMA SoundStays ==
    ASSUME TypeOK, NEW q \in Processes, Sound(q), loop'[q] = loop[q],
           chain' = chain, latest' = latest,
           marked \subseteq marked', passed \subseteq passed'
    PROVE  Sound(q)'
BY DEF Sound, Covered, Emitted

\* The loop state a step of one process leaves behind; the others are untouched.
LEMMA LoopStep ==
    ASSUME CursorInv, NEW p \in Processes, NEW state \in LoopState, Goto(p, state),
           chain' = chain, latest' = latest, oldest' = oldest,
           marked \subseteq marked', passed \subseteq passed',
           marked' \subseteq Emitted, passed' \subseteq Emitted,
           cursor' \in 0 .. latest, dispatched' \in [Events -> Nat],
           NothingMissed', Sound(p)'
    PROVE  CursorInv'
<1>1. TypeOK'
  BY GotoType DEF CursorInv, TypeOK, Emitted
<1>2. ASSUME NEW q \in Processes PROVE Sound(q)'
  <2>1. CASE q = p
    BY <2>1
  <2>2. CASE q # p
    BY <2>2, GotoType, SoundStays DEF CursorInv
  <2> QED
    BY <2>1, <2>2
<1> QED
  BY <1>1, <1>2 DEF CursorInv

\* NothingMissed survives a step that leaves the cursor where it is.
LEMMA MissedStays ==
    ASSUME NothingMissed, chain' = chain, cursor' = cursor,
           marked \subseteq marked', passed \subseteq passed'
    PROVE  NothingMissed'
BY DEF NothingMissed, Emitted

-----------------------------------------------------------------------------
(* The cursor's invariant, one lemma per action.                           *)

LEMMA InitCursor == Init => CursorInv
<1> SUFFICES ASSUME Init PROVE CursorInv
  OBVIOUS
<1>1. NothingMissed
  BY DEF Init, NothingMissed, Emitted
<1>2. ASSUME NEW p \in Processes PROVE Sound(p)
  BY DEF Init, Sound, Idle
<1> QED
  BY <1>1, <1>2, TypeInit DEF CursorInv

LEMMA CloseLedgerCursor ==
    ASSUME CursorInv, NEW new \in SUBSET Events, CloseLedger(new)
    PROVE  CursorInv'
<1>0. TypeOK /\ NothingMissed
  BY DEF CursorInv
<1>1. /\ latest' = latest + 1 /\ latest' \in 1 .. MaxLedger
      /\ chain' = [e \in Events |-> IF e \in new THEN latest + 1 ELSE chain[e]]
      /\ UNCHANGED <<oldest, cursor, marked, dispatched, loop, passed>>
  BY <1>0 DEF CloseLedger, TypeOK
<1>2. /\ chain' \in [Events -> 0 .. latest']
      /\ \A e \in Events : chain[e] # 0 => chain'[e] = chain[e]
      /\ \A e \in Events : chain'[e] # 0 => chain'[e] = chain[e] \/ chain'[e] > latest
  <2>1. \A e \in new : chain[e] = 0
    BY DEF CloseLedger
  <2> QED
    BY <1>0, <1>1, <2>1 DEF TypeOK
<1>3. Emitted \subseteq Emitted'
  BY <1>2 DEF Emitted
<1>4. TypeOK'
  BY <1>0, <1>1, <1>2, <1>3 DEF TypeOK
<1>5. ASSUME NEW l \in Nat, l <= latest
      PROVE  \A e \in Emitted' : chain'[e] <= l => chain'[e] = chain[e] /\ e \in Emitted
  BY <1>0, <1>1, <1>2, <1>5 DEF Emitted, TypeOK
<1>6. NothingMissed'
  <2>1. Covered(cursor, {})
    BY <1>0 DEF NothingMissed, Covered
  <2>2. cursor \in Nat /\ cursor <= latest
    BY <1>0 DEF TypeOK
  <2> QED
    BY <1>1, <1>5, <2>1, <2>2 DEF NothingMissed, Covered
<1>7. ASSUME NEW p \in Processes PROVE Sound(p)'
  <2>1. Sound(p) /\ loop[p] \in LoopState
    BY <1>0 DEF CursorInv, TypeOK
  <2>2. loop[p].read \in Nat /\ loop[p].target \in Nat /\ latest \in Nat
    BY <1>0, <2>1 DEF LoopState, TypeOK
  <2>3. loop'[p] = loop[p]
    BY <1>1
  <2>3a. \A e \in Emitted' :
            /\ chain'[e] <= loop[p].read => chain'[e] = chain[e] /\ e \in Emitted
            /\ chain'[e] <= loop[p].target => chain'[e] = chain[e] /\ e \in Emitted
    BY <1>5, <2>1, <2>2 DEF Sound
  <2>4. loop[p].pc \in {"fetch", "apply", "dispatch"} => Covered(loop[p].read, {})'
    BY <1>1, <2>1, <2>3, <2>3a DEF Sound, Covered
  <2>5. loop[p].pc \in {"apply", "dispatch"} =>
            Covered(loop[p].target, loop[p].queue \cup loop[p].skips)'
    BY <1>1, <2>1, <2>3, <2>3a DEF Sound, Covered
  <2>6. loop[p].pc = "save" => Covered(loop[p].target, loop[p].skips)'
    BY <1>1, <2>1, <2>3, <2>3a DEF Sound, Covered
  <2>7. /\ loop[p].target <= latest' /\ loop[p].read <= latest'
        /\ loop[p].queue \cup loop[p].skips \subseteq Emitted'
        /\ loop[p].pc = "dispatch" => loop[p].event \in Events
    BY <1>1, <1>3, <2>1, <2>2 DEF Sound
  <2> QED
    BY <1>1, <2>3, <2>4, <2>5, <2>6, <2>7 DEF Sound, Covered
<1> QED
  BY <1>4, <1>6, <1>7 DEF CursorInv

LEMMA PollCursor == ASSUME CursorInv, NEW p \in Processes, Poll(p) PROVE CursorInv'
<1> DEFINE state == [Idle EXCEPT !.pc = IF cursor = 0 THEN "anchor" ELSE "fetch", !.read = cursor]
<1>0. TypeOK /\ NothingMissed
  BY DEF CursorInv
<1>1. Goto(p, state) /\ UNCHANGED <<chain, latest, oldest, cursor, marked, dispatched, passed>>
  BY DEF Poll
<1>2. /\ state \in LoopState /\ state.pc \in {"anchor", "fetch"} /\ state.read = cursor
      /\ state.target = 0 /\ state.queue = {} /\ state.skips = {}
  <2>1. cursor \in Ledgers
    BY <1>0 DEF TypeOK
  <2> QED
    BY <2>1, IdleFacts DEF LoopState
<1> HIDE DEF state
<1>3. loop'[p] = state
  BY <1>0, <1>1, <1>2, GotoType
<1>4. Covered(cursor, {})'
  BY <1>0, <1>1 DEF NothingMissed, Covered, Emitted
<1>5. Sound(p)'
  BY <1>0, <1>1, <1>2, <1>3, <1>4 DEF Sound, TypeOK, Covered
<1> QED
  BY <1>0, <1>1, <1>2, <1>5, LoopStep, MissedStays DEF TypeOK

LEMMA AnchorCursor == ASSUME CursorInv, NEW p \in Processes, Anchor(p) PROVE CursorInv'
<1> DEFINE state == [Idle EXCEPT !.pc = "save", !.target = latest, !.skips = Emitted \ marked]
<1>0. TypeOK /\ NothingMissed
  BY DEF CursorInv
<1>1. Goto(p, state) /\ UNCHANGED <<chain, latest, oldest, cursor, marked, dispatched, passed>>
  BY DEF Anchor
<1>2. /\ state \in LoopState /\ state.pc = "save" /\ state.read = 0
      /\ state.target = latest /\ state.queue = {} /\ state.skips = Emitted \ marked
  <2>1. latest \in Ledgers /\ Emitted \ marked \in SUBSET Events
    BY <1>0 DEF TypeOK, Emitted
  <2> QED
    BY <2>1, IdleFacts DEF LoopState
<1> HIDE DEF state
<1>3. loop'[p] = state
  BY <1>0, <1>1, <1>2, GotoType
<1>4. Covered(latest, Emitted \ marked)'
  BY <1>1 DEF Covered, Emitted
<1>5. Sound(p)'
  <2>1. latest \in Nat /\ latest' = latest
    BY <1>0, <1>1 DEF TypeOK
  <2>2. Emitted' = Emitted
    BY <1>1 DEF Emitted
  <2>3. \A e \in Emitted : e \in marked \cup state.skips
    BY <1>2
  <2> QED
    BY <1>1, <1>2, <1>3, <2>1, <2>2, <2>3 DEF Sound, Covered
<1> QED
  BY <1>0, <1>1, <1>2, <1>5, LoopStep, MissedStays DEF TypeOK

LEMMA FetchCursor == ASSUME CursorInv, NEW p \in Processes, Fetch(p) PROVE CursorInv'
<1> DEFINE l == loop[p].read
           state == [loop[p] EXCEPT !.pc = "apply", !.target = latest,
                                    !.queue = Page(l), !.skips = After(l) \ Page(l)]
<1>0. /\ TypeOK /\ NothingMissed /\ Sound(p) /\ loop[p] \in LoopState
      /\ loop[p].pc = "fetch"
  BY DEF CursorInv, TypeOK, Fetch
<1>1. Goto(p, state) /\ UNCHANGED <<chain, latest, oldest, cursor, marked, dispatched, passed>>
  BY DEF Fetch
<1>2. l \in Ledgers /\ l <= latest /\ Covered(l, {})
  BY <1>0 DEF LoopState, Sound
<1>3. Page(l) \subseteq After(l) /\ After(l) \subseteq Emitted /\ Emitted \subseteq Events
  BY <1>2, PageFacts DEF Emitted
<1>4. /\ state \in LoopState /\ state.pc = "apply" /\ state.read = l
      /\ state.target = latest /\ state.queue = Page(l) /\ state.skips = After(l) \ Page(l)
  <2>1. latest \in Ledgers
    BY <1>0 DEF TypeOK
  <2>2. Page(l) \in SUBSET Events /\ After(l) \ Page(l) \in SUBSET Events
    BY <1>3
  <2> QED
    BY <1>0, <2>1, <2>2 DEF LoopState
<1> HIDE DEF state
<1>5. loop'[p] = state
  BY <1>0, <1>1, <1>4, GotoType
<1>6. Covered(latest, Page(l) \cup (After(l) \ Page(l)))
  <2>1. \A e \in Emitted : chain[e] \in Nat /\ l \in Nat
    BY <1>0, <1>2 DEF TypeOK, Emitted
  <2> QED
    BY <1>2, <2>1 DEF Covered, After
<1>7. Sound(p)'
  BY <1>0, <1>1, <1>2, <1>3, <1>4, <1>5, <1>6 DEF Sound, TypeOK, Covered, Emitted
<1> QED
  BY <1>0, <1>1, <1>4, <1>7, LoopStep, MissedStays DEF TypeOK

LEMMA FetchTooOldCursor ==
    ASSUME CursorInv, NEW p \in Processes, FetchTooOld(p) PROVE CursorInv'
<1> DEFINE state == [Idle EXCEPT !.pc = "save"]
<1>0. TypeOK /\ NothingMissed
  BY DEF CursorInv
<1>1. Goto(p, state) /\ UNCHANGED <<chain, latest, oldest, cursor, marked, dispatched, passed>>
  BY DEF FetchTooOld
<1>2. /\ state \in LoopState /\ state.pc = "save" /\ state.read = 0
      /\ state.target = 0 /\ state.queue = {} /\ state.skips = {}
  BY <1>0 DEF Idle, LoopState
<1> HIDE DEF state
<1>3. loop'[p] = state
  BY <1>0, <1>1, <1>2, GotoType
<1>4. Covered(0, {})'
  BY <1>0, <1>1 DEF Covered, Emitted, TypeOK
<1>5. Sound(p)'
  BY <1>0, <1>1, <1>2, <1>3, <1>4 DEF Sound, TypeOK, Covered
<1> QED
  BY <1>0, <1>1, <1>2, <1>5, LoopStep, MissedStays DEF TypeOK

\* Mark and SkipDuplicate: an event leaves the queue once it is marked.
LEMMA TakeCursor ==
    ASSUME CursorInv, NEW p \in Processes, NEW e \in Events,
           Mark(p, e) \/ SkipDuplicate(p, e)
    PROVE  CursorInv'
<1> DEFINE taken == [loop[p] EXCEPT !.pc = "dispatch", !.event = e, !.queue = @ \ {e}]
           skipped == [loop[p] EXCEPT !.queue = @ \ {e}]
<1>0. /\ TypeOK /\ NothingMissed /\ Sound(p) /\ loop[p] \in LoopState
      /\ loop[p].pc = "apply" /\ e \in loop[p].queue
  BY DEF CursorInv, TypeOK, Mark, SkipDuplicate, Front
<1>1. PICK state \in {taken, skipped} : Goto(p, state)
  BY DEF Mark, SkipDuplicate
<1>2. /\ UNCHANGED <<chain, latest, oldest, cursor, dispatched, passed>>
      /\ marked' = marked \cup {e}
  BY DEF Mark, SkipDuplicate
<1>3. /\ state \in LoopState /\ state.pc \in {"apply", "dispatch"}
      /\ state.read = loop[p].read /\ state.target = loop[p].target
      /\ state.queue = loop[p].queue \ {e} /\ state.skips = loop[p].skips
      /\ state.pc = "dispatch" => state.event \in Events
  <2>1. /\ taken \in LoopState /\ taken.pc = "dispatch" /\ taken.event = e
        /\ taken.read = loop[p].read /\ taken.target = loop[p].target
        /\ taken.queue = loop[p].queue \ {e} /\ taken.skips = loop[p].skips
    BY <1>0 DEF LoopState
  <2>2. /\ skipped \in LoopState /\ skipped.pc = "apply"
        /\ skipped.read = loop[p].read /\ skipped.target = loop[p].target
        /\ skipped.queue = loop[p].queue \ {e} /\ skipped.skips = loop[p].skips
    BY <1>0 DEF LoopState
  <2> HIDE DEF taken, skipped
  <2> QED
    BY <1>1, <2>1, <2>2
<1> HIDE DEF taken, skipped
<1>4. loop'[p] = state
  BY <1>0, <1>1, <1>3, GotoType
<1>5. e \in Emitted
  BY <1>0 DEF Sound
<1>6. \A o \in Emitted' : chain'[o] <= loop[p].target =>
          o \in marked' \cup passed' \cup (state.queue \cup state.skips)
  <2>1. Covered(loop[p].target, loop[p].queue \cup loop[p].skips)
    BY <1>0 DEF Sound
  <2> QED
    BY <1>2, <1>3, <2>1 DEF Covered, Emitted
<1>7. Sound(p)'
  BY <1>0, <1>2, <1>3, <1>4, <1>6 DEF Sound, Covered, Emitted
<1> QED
  BY <1>0, <1>1, <1>2, <1>3, <1>5, <1>7, LoopStep, MissedStays DEF TypeOK

\* A loop that goes on with its batch, or saves it, or gives it up.
LEMMA ContinueCursor ==
    ASSUME CursorInv, NEW p \in Processes, Dispatch(p) \/ BatchDone(p) \/ Abandon(p)
    PROVE  CursorInv'
<1> DEFINE next == [loop[p] EXCEPT !.pc = "apply", !.event = 0]
           done == [loop[p] EXCEPT !.pc = "save"]
<1>0. TypeOK /\ NothingMissed /\ Sound(p) /\ loop[p] \in LoopState
  BY DEF CursorInv, TypeOK
<1>1. \/ loop[p].pc = "dispatch" /\ Goto(p, next)
      \/ loop[p].pc = "apply" /\ loop[p].queue = {} /\ Goto(p, done)
      \/ Goto(p, Idle)
  BY DEF Dispatch, BatchDone, Abandon
<1>2. /\ UNCHANGED <<chain, latest, oldest, cursor, marked, passed>>
      /\ dispatched' \in [Events -> Nat]
  <2>1. CASE Dispatch(p)
    <3>1. loop[p].event \in Events
      BY <1>0, <2>1 DEF Dispatch, Sound
    <3> QED
      BY <1>0, <2>1, <3>1 DEF Dispatch, TypeOK
  <2>2. CASE BatchDone(p) \/ Abandon(p)
    BY <1>0, <2>2 DEF BatchDone, Abandon, TypeOK
  <2> QED
    BY <2>1, <2>2
<1>3. CASE loop[p].pc = "dispatch" /\ Goto(p, next)
  <2>1. /\ next \in LoopState /\ next.pc = "apply" /\ next.read = loop[p].read
        /\ next.target = loop[p].target /\ next.queue = loop[p].queue
        /\ next.skips = loop[p].skips
    BY <1>0 DEF LoopState
  <2> HIDE DEF next
  <2>2. loop'[p] = next
    BY <1>0, <1>3, <2>1, GotoType
  <2>3. Sound(p)'
    BY <1>0, <1>2, <1>3, <2>1, <2>2 DEF Sound, Covered, Emitted
  <2> QED
    BY <1>0, <1>2, <1>3, <2>1, <2>3, LoopStep, MissedStays DEF TypeOK
<1>4. CASE loop[p].pc = "apply" /\ loop[p].queue = {} /\ Goto(p, done)
  <2>1. /\ done \in LoopState /\ done.pc = "save" /\ done.read = loop[p].read
        /\ done.target = loop[p].target /\ done.queue = loop[p].queue
        /\ done.skips = loop[p].skips
    BY <1>0 DEF LoopState
  <2> HIDE DEF done
  <2>2. loop'[p] = done
    BY <1>0, <1>4, <2>1, GotoType
  <2>3. Sound(p)'
    BY <1>0, <1>2, <1>4, <2>1, <2>2 DEF Sound, Covered, Emitted
  <2> QED
    BY <1>0, <1>2, <1>4, <2>1, <2>3, LoopStep, MissedStays DEF TypeOK
<1>5. CASE Goto(p, Idle)
  <2>1. Idle \in LoopState
    BY DEF Idle, LoopState
  <2>2. loop'[p] = Idle
    BY <1>0, <1>5, <2>1, GotoType
  <2>3. Sound(p)'
    BY <1>0, <1>2, <2>2 DEF Sound, Idle, TypeOK
  <2> QED
    BY <1>0, <1>2, <1>5, <2>1, <2>3, LoopStep, MissedStays DEF TypeOK
<1> QED
  BY <1>1, <1>3, <1>4, <1>5

LEMMA SaveCursor == ASSUME CursorInv, NEW p \in Processes, Save(p) PROVE CursorInv'
<1>0. TypeOK /\ NothingMissed /\ Sound(p) /\ loop[p] \in LoopState /\ loop[p].pc = "save"
  BY DEF CursorInv, TypeOK, Save
<1>1. /\ cursor' = loop[p].target /\ passed' = passed \cup loop[p].skips
      /\ Goto(p, Idle)
      /\ UNCHANGED <<chain, latest, oldest, marked, dispatched>>
  BY DEF Save
<1>2. cursor' \in 0 .. latest /\ passed' \subseteq Emitted
  BY <1>0, <1>1 DEF Sound, LoopState, TypeOK
<1>3. NothingMissed'
  BY <1>0, <1>1 DEF Sound, Covered, NothingMissed, Emitted
<1>4. Idle \in LoopState
  BY DEF Idle, LoopState
<1>5. loop'[p] = Idle
  BY <1>0, <1>1, <1>4, GotoType
<1>6. Sound(p)'
  BY <1>0, <1>1, <1>5 DEF Sound, Idle, TypeOK
<1> QED
  BY <1>0, <1>1, <1>2, <1>3, <1>4, <1>6, LoopStep DEF TypeOK

LEMMA StepCursor == CursorInv /\ [Next]_vars => CursorInv'
<1> SUFFICES ASSUME CursorInv, [Next]_vars PROVE CursorInv'
  OBVIOUS
<1>1. CASE Forget \/ UNCHANGED vars
  <2>1. /\ UNCHANGED <<chain, latest, cursor, marked, dispatched, loop, passed>>
        /\ oldest' \in 1 .. latest
    BY <1>1 DEF Forget, vars, CursorInv, TypeOK
  <2>2. TypeOK'
    BY <2>1 DEF CursorInv, TypeOK, Emitted
  <2>3. \A p \in Processes : Sound(p)'
    BY <2>1, SoundStays DEF CursorInv
  <2> QED
    BY <2>1, <2>2, <2>3, MissedStays DEF CursorInv
<1>2. ASSUME NEW p \in Processes, Step(p) \/ Abandon(p) PROVE CursorInv'
  BY <1>2, PollCursor, AnchorCursor, FetchCursor, FetchTooOldCursor, TakeCursor,
     ContinueCursor, SaveCursor DEF Step
<1> QED
  BY <1>1, <1>2, CloseLedgerCursor DEF Next

\* The cursor never passes an event that was neither marked nor knowingly
\* skipped, with any number of overlapping and dying processes.
THEOREM NothingMissedHolds == Spec => []NothingMissed
<1>1. CursorInv => NothingMissed
  BY DEF CursorInv
<1> QED
  BY <1>1, InitCursor, StepCursor, PTL DEF Spec

THEOREM TypeCorrect == Spec => []TypeOK
<1>1. CursorInv => TypeOK
  BY DEF CursorInv
<1> QED
  BY <1>1, InitCursor, StepCursor, PTL DEF Spec

-----------------------------------------------------------------------------
(* Refinement: at most one dispatch of each event.                         *)

OnceInv ==
    /\ CursorInv
    /\ \A e \in Events : dispatched[e] \in {0, 1} /\ (dispatched[e] = 1 => e \in marked)
    /\ \A p \in Processes : loop[p].pc = "dispatch" =>
           /\ loop[p].event \in marked
           /\ dispatched[loop[p].event] = 0
    /\ \A p, q \in Processes :
           loop[p].pc = "dispatch" /\ loop[q].pc = "dispatch" /\ p # q =>
               loop[p].event # loop[q].event

\* What a step does to the process that takes it: into a dispatch, out of one,
\* or neither.
LEMMA DispatchSteps ==
    ASSUME OnceInv, [Next]_vars
    PROVE  \/ /\ UNCHANGED <<marked, dispatched>>
              /\ \A p \in Processes : \/ loop'[p] = loop[p]
                                      \/ /\ loop[p].pc # "dispatch"
                                         /\ loop'[p].pc # "dispatch"
           \/ \E p \in Processes, e \in Events :
                 /\ e \in Emitted /\ e \notin marked
                 /\ marked' = marked \cup {e}
                 /\ UNCHANGED <<chain, dispatched>>
                 /\ loop[p].pc # "dispatch"
                 /\ loop'[p].pc = "dispatch" /\ loop'[p].event = e
                 /\ \A q \in Processes \ {p} : loop'[q] = loop[q]
           \/ \E p \in Processes :
                 /\ loop[p].pc = "dispatch" /\ loop'[p].pc # "dispatch"
                 /\ \A q \in Processes \ {p} : loop'[q] = loop[q]
                 /\ UNCHANGED <<chain, marked>>
                 /\ \/ dispatched' = [dispatched EXCEPT ![loop[p].event] = @ + 1]
                    \/ dispatched' = dispatched
<1>0. TypeOK /\ \A p \in Processes : Sound(p) /\ loop[p] \in LoopState
  BY DEF OnceInv, CursorInv, TypeOK
<1>1. ASSUME NEW p \in Processes, NEW state, Goto(p, state)
      PROVE  loop'[p] = state /\ \A q \in Processes \ {p} : loop'[q] = loop[q]
  BY <1>0, <1>1 DEF Goto, TypeOK
<1>2. CASE (\E new \in SUBSET Events : CloseLedger(new)) \/ Forget \/ UNCHANGED vars
  BY <1>2 DEF CloseLedger, Forget, vars
<1>3. ASSUME NEW p \in Processes,
             Poll(p) \/ Anchor(p) \/ Fetch(p) \/ FetchTooOld(p) \/ Save(p) \/ BatchDone(p)
      PROVE  /\ UNCHANGED <<marked, dispatched>>
             /\ \A q \in Processes \ {p} : loop'[q] = loop[q]
             /\ loop[p].pc # "dispatch" /\ loop'[p].pc # "dispatch"
  <2>1. loop[p] \in LoopState
    BY <1>0
  <2>2. CASE Poll(p)
    <3> DEFINE state == [Idle EXCEPT !.pc = IF cursor = 0 THEN "anchor" ELSE "fetch",
                                     !.read = cursor]
    <3>1. state.pc # "dispatch"
      BY IdleFacts DEF LoopState
    <3>2. Goto(p, state)
      BY <2>2 DEF Poll
    <3> HIDE DEF state
    <3> QED
      BY <1>1, <2>2, <3>1, <3>2 DEF Poll
  <2>3. CASE Anchor(p)
    <3> DEFINE state == [Idle EXCEPT !.pc = "save", !.target = latest,
                                     !.skips = Emitted \ marked]
    <3>1. state.pc # "dispatch"
      BY IdleFacts DEF LoopState
    <3>2. Goto(p, state)
      BY <2>3 DEF Anchor
    <3> HIDE DEF state
    <3> QED
      BY <1>1, <2>3, <3>1, <3>2 DEF Anchor
  <2>4. CASE Fetch(p)
    <3> DEFINE l == loop[p].read
               state == [loop[p] EXCEPT !.pc = "apply", !.target = latest,
                                        !.queue = Page(l), !.skips = After(l) \ Page(l)]
    <3>1. state.pc # "dispatch"
      BY <2>1 DEF LoopState
    <3>2. Goto(p, state)
      BY <2>4 DEF Fetch
    <3> HIDE DEF state
    <3> QED
      BY <1>1, <2>4, <3>1, <3>2 DEF Fetch
  <2>5. CASE FetchTooOld(p)
    <3> DEFINE state == [Idle EXCEPT !.pc = "save"]
    <3>1. state.pc # "dispatch"
      BY IdleFacts DEF LoopState
    <3>2. Goto(p, state)
      BY <2>5 DEF FetchTooOld
    <3> HIDE DEF state
    <3> QED
      BY <1>1, <2>5, <3>1, <3>2 DEF FetchTooOld
  <2>6. CASE Save(p)
    BY <1>1, <2>6, IdleFacts DEF Save
  <2>7. CASE BatchDone(p)
    <3> DEFINE done == [loop[p] EXCEPT !.pc = "save"]
    <3>1. done.pc # "dispatch"
      BY <2>1 DEF LoopState
    <3>2. Goto(p, done) \/ Goto(p, Idle)
      BY <2>7 DEF BatchDone
    <3> HIDE DEF done
    <3> QED
      BY <1>1, <2>7, <3>1, <3>2, IdleFacts DEF BatchDone
  <2> QED
    BY <1>3, <2>2, <2>3, <2>4, <2>5, <2>6, <2>7
<1>4. ASSUME NEW p \in Processes, NEW e \in Events, Mark(p, e)
      PROVE  /\ e \in Emitted /\ e \notin marked
             /\ marked' = marked \cup {e}
             /\ UNCHANGED <<chain, dispatched>>
             /\ loop[p].pc # "dispatch"
             /\ loop'[p].pc = "dispatch" /\ loop'[p].event = e
             /\ \A q \in Processes \ {p} : loop'[q] = loop[q]
  <2> DEFINE state == [loop[p] EXCEPT !.pc = "dispatch", !.event = e, !.queue = @ \ {e}]
  <2>1. state.pc = "dispatch" /\ state.event = e
    BY <1>0 DEF LoopState
  <2>2. Goto(p, state)
    BY <1>4 DEF Mark
  <2>3. e \in Emitted
    BY <1>0, <1>4 DEF Mark, Front, Sound
  <2> HIDE DEF state
  <2> QED
    BY <1>1, <1>4, <2>1, <2>2, <2>3 DEF Mark
<1>5. ASSUME NEW p \in Processes, NEW e \in Events, SkipDuplicate(p, e)
      PROVE  /\ UNCHANGED <<marked, dispatched>>
             /\ \A q \in Processes \ {p} : loop'[q] = loop[q]
             /\ loop[p].pc # "dispatch" /\ loop'[p].pc # "dispatch"
  <2> DEFINE state == [loop[p] EXCEPT !.queue = @ \ {e}]
  <2>1. state.pc = loop[p].pc
    BY <1>0 DEF LoopState
  <2>2. Goto(p, state)
    BY <1>5 DEF SkipDuplicate
  <2> HIDE DEF state
  <2> QED
    BY <1>1, <1>5, <2>1, <2>2 DEF SkipDuplicate
<1>6. ASSUME NEW p \in Processes, Dispatch(p)
      PROVE  /\ loop[p].pc = "dispatch" /\ loop'[p].pc # "dispatch"
             /\ \A q \in Processes \ {p} : loop'[q] = loop[q]
             /\ UNCHANGED <<chain, marked>>
             /\ dispatched' = [dispatched EXCEPT ![loop[p].event] = @ + 1]
  <2> DEFINE next == [loop[p] EXCEPT !.pc = "apply", !.event = 0]
  <2>1. next.pc # "dispatch"
    BY <1>0 DEF LoopState
  <2>2. Goto(p, next) \/ Goto(p, Idle)
    BY <1>6 DEF Dispatch
  <2> HIDE DEF next
  <2> QED
    BY <1>1, <1>6, <2>1, <2>2, IdleFacts DEF Dispatch
<1>7. ASSUME NEW p \in Processes, Abandon(p)
      PROVE  /\ loop'[p].pc # "dispatch"
             /\ \A q \in Processes \ {p} : loop'[q] = loop[q]
             /\ UNCHANGED <<chain, marked, dispatched>>
  BY <1>1, <1>7, IdleFacts DEF Abandon
<1>8. ASSUME NEW p \in Processes, Step(p) \/ Abandon(p)
      PROVE  \/ /\ UNCHANGED <<marked, dispatched>>
                /\ \A q \in Processes \ {p} : loop'[q] = loop[q]
                /\ loop[p].pc # "dispatch" /\ loop'[p].pc # "dispatch"
             \/ \E e \in Events : Mark(p, e)
             \/ Dispatch(p)
             \/ loop[p].pc = "dispatch" /\ Abandon(p)
  BY <1>3, <1>5, <1>7, <1>8 DEF Step
<1> QED
  BY <1>2, <1>4, <1>6, <1>7, <1>8 DEF Next

LEMMA OnceInit == Init => OnceInv
BY InitCursor DEF Init, OnceInv, Idle

LEMMA OnceStep == OnceInv /\ [Next]_vars => OnceInv'
<1> SUFFICES ASSUME OnceInv, [Next]_vars PROVE OnceInv'
  OBVIOUS
<1>0. CursorInv /\ CursorInv' /\ TypeOK
  BY StepCursor DEF OnceInv, CursorInv
<1>1. CASE /\ UNCHANGED <<marked, dispatched>>
           /\ \A p \in Processes : \/ loop'[p] = loop[p]
                                   \/ loop[p].pc # "dispatch" /\ loop'[p].pc # "dispatch"
  BY <1>0, <1>1 DEF OnceInv
<1>2. ASSUME NEW p \in Processes, NEW e \in Events,
             e \notin marked, marked' = marked \cup {e}, UNCHANGED dispatched,
             loop'[p].pc = "dispatch", loop'[p].event = e,
             \A q \in Processes \ {p} : loop'[q] = loop[q]
      PROVE  OnceInv'
  <2>1. dispatched[e] = 0
    BY <1>2 DEF OnceInv
  <2> QED
    BY <1>0, <1>2, <2>1 DEF OnceInv
<1>3. ASSUME NEW p \in Processes, loop[p].pc = "dispatch", loop'[p].pc # "dispatch",
             \A q \in Processes \ {p} : loop'[q] = loop[q], UNCHANGED marked,
             \/ dispatched' = [dispatched EXCEPT ![loop[p].event] = @ + 1]
             \/ dispatched' = dispatched
      PROVE  OnceInv'
  <2>1. loop[p].event \in Events /\ dispatched \in [Events -> Nat]
    BY <1>0, <1>3 DEF CursorInv, Sound, TypeOK
  <2>2. loop[p].event \in marked /\ dispatched[loop[p].event] = 0
    BY <1>3 DEF OnceInv
  <2>3. \A o \in Events :
            \/ dispatched'[o] = dispatched[o]
            \/ o = loop[p].event /\ dispatched'[o] = 1
    <3>1. CASE dispatched' = dispatched
      BY <3>1
    <3>2. CASE dispatched' = [dispatched EXCEPT ![loop[p].event] = @ + 1]
      BY <2>1, <2>2, <3>2
    <3> QED
      BY <1>3, <3>1, <3>2
  <2>4. \A q \in Processes \ {p} : loop'[q].pc = "dispatch" =>
            loop[q].event # loop[p].event /\ loop[q].event \in Events
    BY <1>0, <1>3 DEF OnceInv, CursorInv, Sound
  <2> QED
    BY <1>0, <1>3, <2>1, <2>2, <2>3, <2>4 DEF OnceInv
<1> QED
  BY <1>1, <1>2, <1>3, DispatchSteps

\* The fates only look at the chain, the marks, the counts and the dispatches.
LEMMA FateFacts ==
    ASSUME OnceInv, NEW e \in Events
    PROVE  /\ dispatched[e] = 1 => Fate(e) = "delivered"
           /\ dispatched[e] = 0 /\ chain[e] = 0 => Fate(e) = "none"
           /\ dispatched[e] = 0 /\ chain[e] # 0 /\ e \in marked /\ ~ InDispatch(e) =>
                  Fate(e) = "lost"
           /\ dispatched[e] = 0 /\ chain[e] # 0 /\ (e \notin marked \/ InDispatch(e)) =>
                  Fate(e) = "emitted"
           /\ e \in marked => chain[e] # 0
<1>1. dispatched[e] \in {0, 1} /\ (e \in marked => chain[e] # 0)
  BY DEF OnceInv, CursorInv, TypeOK, Emitted
<1> QED
  BY <1>1 DEF Fate

FateMap == [e \in Events |-> Fate(e)]

LEMMA StepDelivers == OnceInv /\ [Next]_vars => [Delivery!Next]_(Delivery!vars)
<1> SUFFICES ASSUME OnceInv, [Next]_vars PROVE [Delivery!Next]_(Delivery!vars)
  OBVIOUS
<1>0. OnceInv' /\ TypeOK /\ \A p \in Processes : Sound(p)
  BY OnceStep DEF OnceInv, CursorInv
<1>1. ASSUME NEW new \in SUBSET Events, CloseLedger(new)
      PROVE  Delivery!Next
  <2>1. /\ \A e \in new : chain[e] = 0
        /\ chain' = [e \in Events |-> IF e \in new THEN latest + 1 ELSE chain[e]]
        /\ UNCHANGED <<marked, dispatched, loop>>
        /\ latest + 1 # 0
    BY <1>0, <1>1 DEF CloseLedger, TypeOK
  <2>2. \A e \in Events : InDispatch(e)' = InDispatch(e)
    BY <2>1 DEF InDispatch
  <2>3. \A e \in new : dispatched[e] = 0 /\ e \notin marked
    BY <2>1, FateFacts DEF OnceInv
  <2>4. \A e \in new : Fate(e) = "none" /\ Fate(e)' = "emitted"
    <3> SUFFICES ASSUME NEW e \in new PROVE Fate(e) = "none" /\ Fate(e)' = "emitted"
      OBVIOUS
    <3>1. Fate(e) = "none"
      BY <2>1, <2>3, FateFacts
    <3>2. Fate(e)' = "emitted"
      BY <2>1, <2>3 DEF Fate
    <3> QED
      BY <3>1, <3>2
  <2>5. \A e \in Events \ new : Fate(e)' = Fate(e)
    BY <2>1, <2>2 DEF Fate
  <2>6. FateMap' = [e \in Events |-> IF e \in new THEN "emitted" ELSE FateMap[e]]
    BY <2>4, <2>5 DEF FateMap
  <2>7. Delivery!Emit(new)
    BY <2>4, <2>6 DEF Delivery!Emit, FateMap
  <2> QED
    BY <2>7 DEF Delivery!Next
<1>2. CASE UNCHANGED chain
  <2>1. CASE /\ UNCHANGED <<marked, dispatched>>
             /\ \A p \in Processes : \/ loop'[p] = loop[p]
                                     \/ loop[p].pc # "dispatch" /\ loop'[p].pc # "dispatch"
    <3>1. \A e \in Events : InDispatch(e)' = InDispatch(e)
      BY <2>1 DEF InDispatch
    <3>2. \A e \in Events : Fate(e)' = Fate(e)
      BY <1>2, <2>1, <3>1 DEF Fate
    <3> QED
      BY <3>2 DEF Delivery!vars
  <2>2. ASSUME NEW p \in Processes, NEW e \in Events,
               e \in Emitted, e \notin marked, marked' = marked \cup {e},
               UNCHANGED dispatched, loop[p].pc # "dispatch",
               loop'[p].pc = "dispatch", loop'[p].event = e,
               \A q \in Processes \ {p} : loop'[q] = loop[q]
        PROVE  UNCHANGED Delivery!vars
    <3>1. \A o \in Events \ {e} : InDispatch(o)' = InDispatch(o)
      BY <2>2 DEF InDispatch
    <3>2. \A o \in Events \ {e} : Fate(o)' = Fate(o)
      BY <1>2, <2>2, <3>1 DEF Fate
    <3>3. dispatched[e] = 0 /\ chain[e] # 0
      BY <2>2 DEF OnceInv, Emitted
    <3>4. Fate(e) = "emitted"
      BY <2>2, <3>3, FateFacts
    <3>5. InDispatch(e)'
      BY <2>2 DEF InDispatch
    <3>6. Fate(e)' = "emitted"
      BY <1>2, <2>2, <3>3, <3>5 DEF Fate
    <3>7. \A o \in Events : Fate(o)' = Fate(o)
      BY <3>2, <3>4, <3>6
    <3> QED
      BY <3>7 DEF Delivery!vars
  <2>3. ASSUME NEW p \in Processes, loop[p].pc = "dispatch", loop'[p].pc # "dispatch",
               \A q \in Processes \ {p} : loop'[q] = loop[q], UNCHANGED marked,
               \/ dispatched' = [dispatched EXCEPT ![loop[p].event] = @ + 1]
               \/ dispatched' = dispatched
        PROVE  Delivery!Next
    <3> DEFINE e == loop[p].event
    <3>1. /\ e \in Events /\ dispatched \in [Events -> Nat]
          /\ e \in marked /\ dispatched[e] = 0
      BY <1>0, <2>3 DEF OnceInv, Sound, TypeOK
    <3>2. chain[e] # 0 /\ InDispatch(e)
      BY <2>3, <3>1, FateFacts DEF InDispatch
    <3>3. Fate(e) = "emitted"
      BY <3>1, <3>2, FateFacts
    <3>4. \A q \in Processes : ~ (loop'[q].pc = "dispatch" /\ loop'[q].event = e)
      BY <2>3 DEF OnceInv
    <3> HIDE DEF e
    <3>6. \A o \in Events \ {e} : InDispatch(o)' = InDispatch(o)
      BY <2>3 DEF InDispatch, e
    <3>7. CASE dispatched' = dispatched
      <4>1. \A o \in Events \ {e} : Fate(o)' = Fate(o)
        BY <1>2, <2>3, <3>6, <3>7 DEF Fate
      <4>2. \A o \in {e} : dispatched'[o] = 0 /\ chain'[o] # 0 /\ o \in marked'
                           /\ \A q \in Processes : ~ (loop'[q].pc = "dispatch" /\ loop'[q].event = o)
        BY <1>2, <2>3, <3>1, <3>2, <3>4, <3>7
      <4>3. \A o \in {e} : Fate(o)' = "lost"
        BY <4>2 DEF Fate, InDispatch
      <4>4. FateMap' = [FateMap EXCEPT ![e] = "lost"]
        BY <3>1, <4>1, <4>3 DEF FateMap
      <4>5. Delivery!Lose(e)
        BY <3>1, <3>3, <4>4 DEF Delivery!Lose, FateMap
      <4> QED
        BY <3>1, <4>5 DEF Delivery!Next
    <3>8. CASE dispatched' = [dispatched EXCEPT ![e] = @ + 1]
      <4>0. dispatched'[e] = 1 /\ \A o \in Events \ {e} : dispatched'[o] = dispatched[o]
        BY <3>1, <3>8
      <4>1. \A o \in Events \ {e} : Fate(o)' = Fate(o)
        BY <1>2, <2>3, <3>6, <4>0 DEF Fate
      <4>3. \A o \in {e} : Fate(o)' = "delivered"
        BY <4>0 DEF Fate
      <4>4. FateMap' = [FateMap EXCEPT ![e] = "delivered"]
        BY <3>1, <4>1, <4>3 DEF FateMap
      <4>5. Delivery!Deliver(e)
        BY <3>1, <3>3, <4>4 DEF Delivery!Deliver, FateMap
      <4> QED
        BY <3>1, <4>5 DEF Delivery!Next
    <3> QED
      BY <2>3, <3>7, <3>8 DEF e
  <2> QED
    BY <2>1, <2>2, <2>3, DispatchSteps
<1>3. (\E new \in SUBSET Events : CloseLedger(new)) \/ UNCHANGED chain
  BY DEF Next, vars, Forget, Step, Poll, Anchor, Fetch, FetchTooOld, Mark, SkipDuplicate,
         Dispatch, BatchDone, Save, Abandon
<1> QED
  BY <1>1, <1>2, <1>3

\* No event is dispatched twice, by any number of overlapping, failing and
\* restarted loops.
THEOREM DeliversOnceHolds == Spec => DeliversOnce
<1>1. Init => Delivery!Init
  BY DEF Init, Delivery!Init, Fate
<1> QED
  BY <1>1, OnceInit, OnceStep, StepDelivers, PTL DEF Spec, DeliversOnce, Delivery!Spec
=============================================================================
