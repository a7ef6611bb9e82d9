---------------------------- MODULE EngineProofs ----------------------------
(***************************************************************************)
(* Proofs about MatchingEngine.  EInv says whose a processor is while      *)
(* calls of all kinds overlap, and what a call may rely on whose symbol    *)
(* no other call has interfered with.                                      *)
(***************************************************************************)
EXTENDS MatchingEngine, FiniteSetTheorems, SequenceTheorems, TLAPS

Calls == { Idle } \union
  [ at : Requesting \union Changing, symbol : Symbols, processor : Processors, node : Nat ]

(* Processor p is known to somebody under symbol s.                        *)
Of(p, s) ==
  \/ processors_[s] = p
  \/ \E c \in Clients : call[c].processor = p /\ call[c].symbol = s

(* A processor is known under one symbol, and only if it was created.      *)
OneSymbolEach ==
  \A p \in Processors : \A s \in Symbols : Of(p, s) =>
    /\ object[p] # "none"
    /\ \A t \in Symbols : Of(p, t) => s = t

Destroys(c, p) == call[c].at \in {"replace", "join"} /\ call[c].processor = p

(* A new processor is its maker's alone; one that is being destroyed is in *)
(* no entry, and one client destroys it.                                   *)
OneOwner ==
  \A c \in Clients :
    /\ call[c].at = "put" =>
         /\ object[call[c].processor] = "created"
         /\ \A s \in Symbols : processors_[s] # call[c].processor
         /\ \A d \in Clients : c # d => call[d].processor # call[c].processor
    /\ call[c].at \in {"replace", "join"} =>
         /\ Exists(call[c].processor)
         /\ \A s \in Symbols : processors_[s] # call[c].processor
         /\ \A d \in Clients : c # d => ~ Destroys(d, call[c].processor)

(* Entries lead to processors that exist; an iterator to one that was      *)
(* erased is known to dangle.                                              *)
EntriesSound ==
  /\ \A s \in Symbols : processors_[s] # Null => Exists(processors_[s])
  /\ \A c \in Clients : call[c].at \in {"stop", "erase"} => processors_[call[c].symbol] # Null

(* A processor without an entry is in its maker's hands or is destroyed;   *)
(* the latter with a running worker only after a race.                     *)
NoneLost ==
  \A p \in Processors :
    /\ object[p] = "created" =>
         \/ \E s \in Symbols : processors_[s] = p
         \/ \E c \in Clients : call[c].at = "put" /\ call[c].processor = p
         \/ \E c \in Clients : Destroys(c, p)
    /\ object[p] = "running" =>
         \/ \E s \in Symbols : processors_[s] = p
         \/ \E c \in Clients : Destroys(c, p) /\ call[c].symbol \in raced

(* Two calls for a symbol, of which one creates or removes it, have raced. *)
Exclusive ==
  \A c, d \in Clients :
    c # d /\ call[c].at \in Changing /\ call[c].symbol = call[d].symbol =>
      call[c].symbol \in raced

(* What a call for a symbol without a race relies on.                      *)
Sound(k) ==
  /\ k.at \in Requesting \union {"again", "start", "return", "stop", "erase"} =>
       processors_[k.symbol] = k.processor
  /\ k.at = "put" => processors_[k.symbol] = Null
  /\ k.at \in {"again", "start"} => object[k.processor] = "created"
  /\ k.at = "join" => object[k.processor] # "running"
  /\ k.at \notin {"replace", "dangling"}
CallsSound == \A c \in Clients : call[c].symbol \notin raced => Sound(call[c])

(* An id's counter is one the client has found or inserted.                *)
NodesSound ==
  \A c \in Clients : call[c].at = "add" =>
    call[c].node \in DOMAIN market_counters_[market_id[call[c].processor]]

OwnersInv == OneSymbolEach /\ OneOwner /\ EntriesSound /\ NoneLost /\ Exclusive /\ CallsSound

EInv == EngineTypeOK /\ call \in [Clients -> Calls] /\ OwnersInv /\ NodesSound /\ OnlyRacesCrash

----------------------------------------------------------------------------
LEMMA EngineInitInv == EngineInit => EInv
<1> SUFFICES ASSUME EngineInit PROVE EInv
  OBVIOUS
<1> USE DEF EngineInit
<1>1. call \in [Clients -> Calls] /\ \A c \in Clients : call[c] = Idle
  BY DEF Calls
<1>2. EngineTypeOK
  <2>1. <<>> \in Seq(Nat) /\ <<>> \in Seq(MarketIds \X (0 .. CounterSize - 1))
    OBVIOUS
  <2>2. market_counters_ \in [MarketIds -> Seq(Nat)]
    BY <2>1
  <2> QED
    BY <1>1, <2>1, <2>2 DEF EngineTypeOK, ObjectStates
<1>3. \A p \in Processors, s \in Symbols : ~ Of(p, s)
  BY <1>1, EngineAssumption DEF Of, Idle, At
<1>4. OwnersInv
  <2> USE <1>1 DEF Idle, At, Requesting, Changing, Creating, Removing
  <2>1. OneSymbolEach /\ OneOwner /\ EntriesSound /\ NoneLost
    BY <1>3 DEF OneSymbolEach, OneOwner, EntriesSound, NoneLost
  <2>2. Exclusive /\ CallsSound
    BY DEF Exclusive, CallsSound, Sound
  <2> QED
    BY <2>1, <2>2 DEF OwnersInv
<1>5. NodesSound /\ OnlyRacesCrash
  BY <1>1 DEF NodesSound, OnlyRacesCrash, Idle, At
<1> QED
  BY <1>1, <1>2, <1>4, <1>5 DEF EInv

(* What a client inside a call has in its hands.                           *)
LEMMA InCall ==
  ASSUME EInv, NEW c \in Clients, call[c].at # "idle"
  PROVE  /\ call[c].symbol \in Symbols /\ call[c].processor \in Processors
         /\ call[c].node \in Nat /\ call[c].at \in Requesting \union Changing
         /\ call[c].symbol # Null /\ Of(call[c].processor, call[c].symbol)
BY EngineAssumption DEF EInv, Calls, Idle, At, Of

LEMMA GoOnCall ==
  ASSUME EInv, NEW c \in Clients, call[c].at # "idle", NEW p \in Processors,
         NEW l \in Requesting \union Changing, NEW n \in Nat
  PROVE  At(l, call[c].symbol, p, n) \in Calls
BY InCall DEF Calls, At

(* A client steps on in its call, or returns, and leaves the entries and   *)
(* the processors as they are.                                             *)
LEMMA MoveInv ==
  ASSUME EInv, NEW c \in Clients, NEW k \in Calls,
         call' = [call EXCEPT ![c] = k],
         UNCHANGED << processors_, object, raced >>,
         call[c].at \notin {"put", "replace", "join"},
         k.at \notin {"put", "replace", "join", "stop", "erase"},
         k.at # "idle" => /\ k.symbol = call[c].symbol
                           /\ k.processor \in {call[c].processor, processors_[k.symbol]},
         k.at \in Changing => call[c].at \in Changing,
         k.symbol \notin raced => Sound(k)
  PROVE  OwnersInv'
<1> USE DEF Requesting, Changing, Creating, Removing
<1>1. /\ call'[c] = k /\ \A d \in Clients : d # c => call'[d] = call[d]
      /\ call \in [Clients -> Calls] /\ call' \in [Clients -> Calls]
  BY DEF EInv
<1>2. k.at = "idle" => k = Idle
  BY DEF Calls
<1>3. \A p \in Processors, s \in Symbols : Of(p, s)' => Of(p, s)
  BY <1>1, <1>2, EngineAssumption DEF Of, Idle, At
<1>4. OneSymbolEach'
  BY <1>3 DEF EInv, OwnersInv, OneSymbolEach
<1>5. OneOwner'
  <2>1. k.at # "idle" => k.processor \in Processors
    BY DEF Calls, Idle, At
  <2>2. ASSUME NEW d \in Clients, call[d].at = "put", d # c
        PROVE  k.processor # call[d].processor
    <3>1. call[d].processor \in Processors
      BY <2>2, InCall
    <3>2. CASE k.at = "idle"
      BY <1>2, <3>1, <3>2, EngineAssumption DEF Idle, At
    <3>3. CASE k.at # "idle"
      <4>1. /\ \A s \in Symbols : processors_[s] # call[d].processor
            /\ call[c].processor # call[d].processor /\ k.symbol \in Symbols
        BY <2>2, <3>3 DEF EInv, OwnersInv, OneOwner, Calls, Idle, At
      <4> QED
        BY <3>3, <4>1
    <3> QED
      BY <3>2, <3>3
  <2> QED
    BY <1>1, <2>2 DEF EInv, OwnersInv, OneOwner, Destroys, Exists
<1>6. EntriesSound'
  BY <1>1 DEF EInv, OwnersInv, EntriesSound, Exists
<1>7. NoneLost'
  <2>1. \A d \in Clients, p \in Processors :
          /\ Destroys(d, p) => Destroys(d, p)' /\ call'[d] = call[d]
          /\ call[d].at = "put" => call'[d] = call[d]
    BY <1>1 DEF Destroys
  <2> QED
    BY <2>1 DEF EInv, OwnersInv, NoneLost
<1>8. Exclusive'
  BY <1>1, <1>2, EngineAssumption DEF EInv, OwnersInv, Exclusive, Idle, At, Calls
<1>9. CallsSound'
  BY <1>1 DEF EInv, OwnersInv, CallsSound, Sound
<1> QED
  BY <1>4, <1>5, <1>6, <1>7, <1>8, <1>9 DEF OwnersInv

(* What a step that leaves the counters alone has to show besides.         *)
LEMMA FrameInv ==
  ASSUME EInv, call' \in [Clients -> Calls], UNCHANGED Counting,
         processors_' \in [Symbols -> Processors \union {Null}],
         object' \in [Processors -> ObjectStates], raced' \subseteq Symbols,
         raced \subseteq raced', crashed' = crashed \/ crashed' \in raced,
         \A d \in Clients : call'[d].at = "add" => call'[d] = call[d],
         OwnersInv'
  PROVE  EInv'
<1>1. \A d \in Clients :
        \/ call'[d] = Idle
        \/ /\ call'[d].at \in Requesting \union Changing
           /\ call'[d].symbol \in Symbols /\ call'[d].processor \in Processors
           /\ call'[d].node \in Nat
  BY DEF Calls
<1>2. EngineTypeOK'
  BY <1>1 DEF EInv, EngineTypeOK, Counting
<1>3. NodesSound' /\ OnlyRacesCrash'
  BY DEF EInv, NodesSound, OnlyRacesCrash, Counting, EngineTypeOK
<1> QED
  BY <1>2, <1>3 DEF EInv

(* A step that moves nobody.                                               *)
LEMMA NothingMoved ==
  ASSUME EInv, UNCHANGED << processors_, object, call, raced, Counting >>,
         crashed' = crashed \/ crashed' \in raced
  PROVE  EInv'
<1>1. OneSymbolEach'
  BY DEF EInv, OwnersInv, OneSymbolEach, Of
<1>2. OneOwner' /\ EntriesSound'
  BY DEF EInv, OwnersInv, OneOwner, EntriesSound, Destroys, Exists
<1>3. NoneLost'
  BY DEF EInv, OwnersInv, NoneLost, Destroys
<1>4. Exclusive' /\ CallsSound'
  BY DEF EInv, OwnersInv, Exclusive, CallsSound, Sound
<1>5. OwnersInv'
  BY <1>1, <1>2, <1>3, <1>4 DEF OwnersInv
<1> QED
  BY <1>5, FrameInv DEF EInv, EngineTypeOK

(* A call that finds the symbol's processor begins.                        *)
LEMMA BeginInv ==
  ASSUME EInv, NEW c \in Clients, NEW s \in Symbols,
         remove_market(c, s) \/ LookUp(c, s) \/ cancel_order(c, s)
  PROVE  EInv'
<1> DEFINE p == processors_[s]
<1> USE DEF Requesting, Changing, Creating, Removing
<1>1. PICK l \in {"stop", "read", "enqueue"} : Begin(c, l, s, p)
  BY DEF remove_market, LookUp, cancel_order, get_market_processor
<1>2. /\ p \in Processors /\ p # Null /\ p = processors_[s]
      /\ UNCHANGED << processors_, object, Counting, crashed >>
  BY DEF remove_market, LookUp, cancel_order, get_market_processor, EInv, EngineTypeOK,
         Counting
<1> HIDE DEF p
<1>3. /\ call[c] = Idle /\ call[c].at = "idle"
      /\ call'[c] = At(l, s, p, 0) /\ \A d \in Clients : d # c => call'[d] = call[d]
      /\ raced \subseteq raced' /\ raced' \subseteq Symbols
  BY <1>1 DEF Begin, EInv, EngineTypeOK, Idle, At
<1>4. /\ call'[c].at = l /\ call'[c].symbol = s /\ call'[c].processor = p
  BY <1>3 DEF At
<1>5. call' \in [Clients -> Calls]
  <2>1. At(l, s, p, 0) \in Calls
    BY <1>2 DEF Calls, At
  <2> QED
    BY <1>1, <2>1 DEF Begin, EInv
<1>6. \A q \in Processors, t \in Symbols : Of(q, t)' => Of(q, t)
  BY <1>2, <1>3, <1>4 DEF Of
<1>7. OneSymbolEach'
  BY <1>2, <1>6 DEF EInv, OwnersInv, OneSymbolEach
<1>8. OneOwner'
  BY <1>2, <1>3, <1>4 DEF EInv, OwnersInv, OneOwner, Destroys, Exists
<1>9. EntriesSound'
  BY <1>2, <1>3, <1>4 DEF EInv, OwnersInv, EntriesSound, Exists
<1>10. NoneLost'
  <2>1. \A d \in Clients, q \in Processors :
          /\ Destroys(d, q) => Destroys(d, q)' /\ call'[d] = call[d]
          /\ call[d].at = "put" => call'[d] = call[d]
    BY <1>3 DEF Destroys
  <2> QED
    BY <1>2, <1>3, <2>1 DEF EInv, OwnersInv, NoneLost
<1>11. Exclusive'
  <2> SUFFICES ASSUME NEW d \in Clients, NEW e \in Clients, d # e, call'[d].at \in Changing,
                      call'[d].symbol = call'[e].symbol
               PROVE  call'[d].symbol \in raced'
    BY DEF Exclusive
  <2>1. raced' = raced \union { t \in {s} : \E f \in Clients :
          call[f].symbol = s /\ (l \in Changing \/ call[f].at \in Changing) }
    BY <1>1 DEF Begin
  <2>2. CASE d = c
    BY <1>3, <1>4, <2>1, <2>2
  <2>3. CASE e = c
    BY <1>3, <1>4, <2>1, <2>3
  <2>4. CASE d # c /\ e # c
    BY <1>3, <2>4 DEF EInv, OwnersInv, Exclusive
  <2> QED
    BY <2>2, <2>3, <2>4
<1>12. CallsSound'
  BY <1>2, <1>3, <1>4 DEF EInv, OwnersInv, CallsSound, Sound
<1>13. OwnersInv'
  BY <1>7, <1>8, <1>9, <1>10, <1>11, <1>12 DEF OwnersInv
<1> QED
  BY <1>2, <1>3, <1>4, <1>5, <1>13, FrameInv DEF EInv, EngineTypeOK

(* create_market makes a processor, which only its maker knows.            *)
LEMMA CreateInv ==
  ASSUME EInv, NEW c \in Clients, NEW s \in Symbols, create_market(c, s)
  PROVE  EInv'
<1> USE DEF Requesting, Changing, Creating, Removing
<1>1. PICK p \in Processors : /\ object[p] = "none" /\ Begin(c, "put", s, p)
                              /\ object' = [object EXCEPT ![p] = "created"]
  BY DEF create_market
<1>2. /\ processors_[s] = Null /\ p # Null
      /\ UNCHANGED << processors_, Counting, crashed >>
  BY EngineAssumption DEF create_market, get_market_processor, Counting
<1>3. /\ call[c] = Idle /\ call[c].at = "idle"
      /\ call'[c] = At("put", s, p, 0) /\ \A d \in Clients : d # c => call'[d] = call[d]
      /\ raced \subseteq raced' /\ raced' \subseteq Symbols
  BY <1>1 DEF Begin, EInv, EngineTypeOK, Idle, At
<1>4. /\ call'[c].at = "put" /\ call'[c].symbol = s /\ call'[c].processor = p
  BY <1>3 DEF At
<1>5. call' \in [Clients -> Calls]
  <2>1. At("put", s, p, 0) \in Calls
    BY <1>2 DEF Calls, At
  <2> QED
    BY <1>1, <2>1 DEF Begin, EInv
<1>6. /\ object'[p] = "created" /\ object' \in [Processors -> ObjectStates]
      /\ \A q \in Processors : q # p => object'[q] = object[q]
  BY <1>1 DEF EInv, EngineTypeOK, ObjectStates
<1>7. /\ \A t \in Symbols : processors_[t] # p
      /\ \A d \in Clients : call[d].processor # p
  <2>1. \A t \in Symbols : ~ Of(p, t)
    BY <1>1 DEF EInv, OwnersInv, OneSymbolEach
  <2>2. \A d \in Clients : call[d].at = "idle" => call[d].processor # p
    BY <1>2 DEF EInv, Calls, Idle, At, Requesting, Changing, Creating, Removing
  <2> QED
    BY <2>1, <2>2, InCall DEF Of
<1>8. \A q \in Processors, t \in Symbols : Of(q, t)' => (q = p /\ t = s) \/ (q # p /\ Of(q, t))
  BY <1>2, <1>3, <1>4, <1>7 DEF Of
<1>9. OneSymbolEach'
  BY <1>6, <1>8 DEF EInv, OwnersInv, OneSymbolEach
<1>10. OneOwner'
  <2>1. \A d \in Clients : call[d].at # "idle" => object'[call[d].processor] = object[call[d].processor]
    BY <1>6, <1>7, InCall
  <2> QED
    BY <1>2, <1>3, <1>4, <1>6, <1>7, <2>1 DEF EInv, OwnersInv, OneOwner, Destroys, Exists
<1>11. EntriesSound'
  BY <1>2, <1>3, <1>4, <1>6, <1>7 DEF EInv, EngineTypeOK, OwnersInv, EntriesSound, Exists
<1>12. NoneLost'
  <2>1. \A d \in Clients, q \in Processors :
          /\ Destroys(d, q) => Destroys(d, q)' /\ call'[d] = call[d]
          /\ call[d].at = "put" => call'[d] = call[d]
    BY <1>3 DEF Destroys
  <2> QED
    BY <1>2, <1>3, <1>4, <1>6, <2>1 DEF EInv, OwnersInv, NoneLost
<1>13. Exclusive'
  <2> SUFFICES ASSUME NEW d \in Clients, NEW e \in Clients, d # e, call'[d].at \in Changing,
                      call'[d].symbol = call'[e].symbol
               PROVE  call'[d].symbol \in raced'
    BY DEF Exclusive
  <2>1. raced' = raced \union { t \in {s} : \E f \in Clients : call[f].symbol = s }
    BY <1>1 DEF Begin
  <2>2. CASE d = c
    BY <1>3, <1>4, <2>1, <2>2
  <2>3. CASE e = c
    BY <1>3, <1>4, <2>1, <2>3
  <2>4. CASE d # c /\ e # c
    BY <1>3, <2>4 DEF EInv, OwnersInv, Exclusive
  <2> QED
    BY <2>2, <2>3, <2>4
<1>14. CallsSound'
  <2>1. \A d \in Clients : call[d].at # "idle" => object'[call[d].processor] = object[call[d].processor]
    BY <1>6, <1>7, InCall
  <2> QED
    BY <1>2, <1>3, <1>4, <2>1 DEF EInv, OwnersInv, CallsSound, Sound
<1>15. OwnersInv'
  BY <1>9, <1>10, <1>11, <1>12, <1>13, <1>14 DEF OwnersInv
<1> QED
  BY <1>2, <1>3, <1>4, <1>5, <1>6, <1>15, FrameInv DEF EInv, EngineTypeOK

(* The steps of a call that leave the entries and the processors alone.    *)
LEMMA RequestInv ==
  ASSUME EInv, NEW c \in Clients,
         get_market_id(c) \/ submit_event(c) \/ FindAgain(c) \/ ReturnMarket(c) \/ UseIterator(c)
  PROVE  EInv'
<1> DEFINE s == call[c].symbol
           p == call[c].processor
<1> USE DEF Requesting, Changing, Creating, Removing
<1>1. /\ call[c].at \in {"read", "enqueue", "again", "return", "dangling"}
      /\ UNCHANGED << processors_, object, Counting, raced >>
  BY DEF get_market_id, submit_event, FindAgain, ReturnMarket, UseIterator
<1>2. /\ s \in Symbols /\ p \in Processors /\ p # Null
      /\ call[c].at \in {"read", "enqueue", "again", "return"} /\ s \notin raced =>
           processors_[s] = p /\ (call[c].at = "again" => object[p] = "created")
      /\ s \notin raced => call[c].at # "dangling"
  BY <1>1, InCall, EngineAssumption DEF EInv, OwnersInv, CallsSound, Sound
<1>3. \/ /\ \E k \in Calls : /\ call' = [call EXCEPT ![c] = k] /\ k.at \in {"idle", "find", "start"}
                             /\ k.at # "idle" =>
                                  k.symbol = s /\ k.processor \in {p, processors_[s]}
                             /\ k.at = "find" => call[c].at = "read" /\ k.processor = p
                             /\ k.at = "start" =>
                                  call[c].at = "again" /\ k.processor = processors_[s]
         /\ crashed' = crashed
      \/ call' = call /\ crashed' = s /\ s \in raced
  <2>1. CASE get_market_id(c)
    <3>1. At("find", s, p, 0) \in Calls
      BY <1>2 DEF Calls, At
    <3>2. s \notin raced => Exists(p)
      BY <1>2, <2>1 DEF get_market_id, EInv, OwnersInv, EntriesSound
    <3> QED
      BY <2>1, <3>1, <3>2 DEF get_market_id, GoOn, Crash, At
  <2>2. CASE submit_event(c)
    <3>1. s \notin raced => Exists(p)
      BY <1>2, <2>2 DEF submit_event, EInv, OwnersInv, EntriesSound
    <3> QED
      BY <2>2, <3>1 DEF submit_event, Leave, Crash, Calls, Idle, At
  <2>3. CASE FindAgain(c)
    <3>1. CASE processors_[s] = Null
      BY <1>2, <2>3, <3>1 DEF FindAgain, Crash
    <3>2. CASE processors_[s] # Null
      <4>1. processors_[s] \in Processors /\ call[c] \in Calls /\ call[c].node \in Nat
        BY <1>1, <1>2, <3>2, InCall DEF EInv, EngineTypeOK
      <4> DEFINE k == [call[c] EXCEPT !.at = "start", !.processor = processors_[s]]
      <4>2. call[c] \in [ at : Requesting \union Changing, symbol : Symbols,
                          processor : Processors, node : Nat ]
        BY <1>1, <4>1 DEF Calls, Idle, At
      <4>3. /\ k \in Calls /\ k.at = "start" /\ k.symbol = s /\ k.processor = processors_[s]
        BY <4>1, <4>2 DEF Calls
      <4>4. call' = [call EXCEPT ![c] = k] /\ crashed' = crashed /\ call[c].at = "again"
        BY <2>3, <3>2 DEF FindAgain, EInv
      <4> HIDE DEF k
      <4> QED
        BY <4>3, <4>4
    <3> QED
      BY <3>1, <3>2
  <2>4. CASE ReturnMarket(c)
    BY <1>2, <2>4 DEF ReturnMarket, Leave, Crash, Calls, Idle, At
  <2>5. CASE UseIterator(c)
    BY <1>2, <2>5 DEF UseIterator, Crash
  <2> QED
    BY <2>1, <2>2, <2>3, <2>4, <2>5
<1> HIDE DEF s, p
<1>4. CASE call' = call /\ (crashed' = crashed \/ (crashed' = s /\ s \in raced))
  BY <1>1, <1>4, NothingMoved
<1>5. CASE crashed' = crashed /\ call' # call
  <2>1. PICK k \in Calls : /\ call' = [call EXCEPT ![c] = k] /\ k.at \in {"idle", "find", "start"}
                           /\ k.at # "idle" =>
                                k.symbol = s /\ k.processor \in {p, processors_[s]}
                           /\ k.at = "find" => call[c].at = "read" /\ k.processor = p
                           /\ k.at = "start" =>
                                call[c].at = "again" /\ k.processor = processors_[s]
    BY <1>3, <1>5
  <2>2. k.symbol \notin raced => Sound(k)
    BY <1>1, <1>2, <2>1 DEF Sound
  <2>3. OwnersInv'
    BY <1>1, <2>1, <2>2, MoveInv DEF s, p
  <2>4. /\ call' \in [Clients -> Calls]
        /\ \A d \in Clients : call'[d].at = "add" => call'[d] = call[d]
    BY <2>1 DEF EInv
  <2> QED
    BY <1>1, <1>5, <2>3, <2>4, FrameInv DEF EInv, EngineTypeOK
<1> QED
  BY <1>3, <1>4, <1>5

(* A step of a submit that goes on to place l with node n of its counter.  *)
LEMMA CounterStep ==
  ASSUME EInv, NEW c \in Clients, call[c].at \in {"find", "insert", "add"},
         NEW l \in {"insert", "add", "enqueue"}, NEW n \in Nat, GoOn(c, l, n),
         UNCHANGED << processors_, object, market_id, raced, crashed >>,
         market_counters_' \in [MarketIds -> Seq(Nat)],
         \A m \in MarketIds : DOMAIN market_counters_[m] \subseteq DOMAIN market_counters_'[m],
         l = "add" => n \in DOMAIN market_counters_'[market_id[call[c].processor]],
         ids' \in Seq(MarketIds \X (0 .. CounterSize - 1))
  PROVE  EInv'
<1> DEFINE k == At(l, call[c].symbol, call[c].processor, n)
<1>1. /\ call[c].at # "idle" /\ call[c].processor \in Processors
      /\ k \in Calls /\ k.at = l /\ k.symbol = call[c].symbol
      /\ k.processor = call[c].processor /\ k.node = n
  BY InCall, GoOnCall DEF At, Requesting
<1>2. call' = [call EXCEPT ![c] = k]
  BY DEF GoOn
<1> HIDE DEF k
<1>3. /\ call' \in [Clients -> Calls]
      /\ call'[c] = k /\ \A d \in Clients : d # c => call'[d] = call[d]
  BY <1>1, <1>2 DEF EInv
<1>4. k.symbol \notin raced => Sound(k)
  BY <1>1 DEF EInv, OwnersInv, CallsSound, Sound, Requesting
<1>5. OwnersInv'
  BY <1>1, <1>2, <1>4, MoveInv DEF Changing, Creating, Removing
<1>6. EngineTypeOK'
  <2>1. \A d \in Clients :
          \/ call'[d] = Idle
          \/ /\ call'[d].at \in Requesting \union Changing
             /\ call'[d].symbol \in Symbols /\ call'[d].processor \in Processors
             /\ call'[d].node \in Nat
    BY <1>3 DEF Calls
  <2> QED
    BY <2>1 DEF EInv, EngineTypeOK
<1>7. NodesSound'
  <2> SUFFICES ASSUME NEW d \in Clients, call'[d].at = "add"
               PROVE  call'[d].node \in
                        DOMAIN market_counters_'[market_id'[call'[d].processor]]
    BY DEF NodesSound
  <2>1. CASE d = c
    BY <1>1, <1>3, <2>1
  <2>2. CASE d # c
    <3>1. call'[d] = call[d] /\ call[d].at = "add" /\ call[d].processor \in Processors
      BY <1>3, <2>2, InCall
    <3>2. market_id[call[d].processor] \in MarketIds
      BY <3>1 DEF EInv, EngineTypeOK
    <3> QED
      BY <3>1, <3>2 DEF EInv, NodesSound
  <2> QED
    BY <2>1, <2>2
<1>8. OnlyRacesCrash'
  BY DEF EInv, OnlyRacesCrash
<1> QED
  BY <1>3, <1>5, <1>6, <1>7, <1>8 DEF EInv

(* The steps of a submit from the search for the counter to the id.        *)
LEMMA CounterInv ==
  ASSUME EInv, NEW c \in Clients, FindCounter(c) \/ InsertCounter(c) \/ FetchAdd(c)
  PROVE  EInv'
<1> DEFINE k == market_id[call[c].processor]
           counters == market_counters_[k]
<1>1. /\ call[c].at \in {"find", "insert", "add"} /\ call[c].processor \in Processors
      /\ UNCHANGED << processors_, object, market_id, raced, crashed >>
  <2>1. /\ call[c].at \in {"find", "insert", "add"}
        /\ UNCHANGED << processors_, object, market_id, raced, crashed >>
    BY DEF FindCounter, InsertCounter, FetchAdd, Counting
  <2> QED
    BY <2>1, InCall
<1>2. /\ k \in MarketIds /\ counters \in Seq(Nat) /\ Len(counters) \in Nat
      /\ DOMAIN counters = 1 .. Len(counters)
  BY <1>1, LenProperties DEF EInv, EngineTypeOK
<1>3. CASE FetchAdd(c)
  <2>1. /\ GoOn(c, "enqueue", 0) /\ call[c].node \in DOMAIN counters
        /\ ids' = Append(ids, << k, Mask(counters[call[c].node]) >>)
        /\ market_counters_' = [market_counters_ EXCEPT ![k][call[c].node] = @ + 1]
    BY <1>3 DEF FetchAdd, EInv, NodesSound, Key
  <2> DEFINE q == [counters EXCEPT ![call[c].node] = counters[call[c].node] + 1]
  <2>2. counters[call[c].node] \in Nat
    BY <1>2, <2>1
  <2> HIDE DEF counters
  <2>3. counters[call[c].node] + 1 \in Nat
    BY <2>2
  <2> USE DEF counters
  <2>4. q \in Seq(Nat) /\ DOMAIN q = DOMAIN counters
    BY <1>2, <2>1, <2>3, ExceptSeq, LenProperties
  <2>5. market_counters_' = [market_counters_ EXCEPT ![k] = q]
    BY <2>1
  <2> HIDE DEF q
  <2>6. /\ market_counters_' \in [MarketIds -> Seq(Nat)]
        /\ \A m \in MarketIds : DOMAIN market_counters_[m] = DOMAIN market_counters_'[m]
    BY <1>2, <2>4, <2>5 DEF EInv, EngineTypeOK
  <2>7. ids' \in Seq(MarketIds \X (0 .. CounterSize - 1))
    <3>1. Mask(counters[call[c].node]) \in 0 .. CounterSize - 1
      BY <2>2, EngineAssumption DEF Mask
    <3> QED
      BY <1>2, <2>1, <3>1, AppendProperties DEF EInv, EngineTypeOK
  <2> QED
    BY <1>1, <2>1, <2>6, <2>7, CounterStep
<1>4. CASE InsertCounter(c)
  <2>1. /\ GoOn(c, "add", Len(counters) + 1)
        /\ market_counters_' = [market_counters_ EXCEPT ![k] = Append(@, 0)]
        /\ ids' = ids
    BY <1>4 DEF InsertCounter, Key
  <2> DEFINE q == Append(counters, 0)
  <2>2. q \in Seq(Nat) /\ Len(q) = Len(counters) + 1
    BY <1>2, AppendProperties
  <2>3. DOMAIN q = 1 .. Len(counters) + 1
    BY <2>2, LenProperties
  <2>4. market_counters_' = [market_counters_ EXCEPT ![k] = q]
    BY <2>1
  <2> HIDE DEF q
  <2>5. /\ market_counters_' \in [MarketIds -> Seq(Nat)]
        /\ \A m \in MarketIds : DOMAIN market_counters_[m] \subseteq DOMAIN market_counters_'[m]
        /\ Len(counters) + 1 \in DOMAIN market_counters_'[k]
    <3>1. DOMAIN counters \subseteq DOMAIN q /\ Len(counters) + 1 \in DOMAIN q
      BY <1>2, <2>3
    <3>2. market_counters_ \in [MarketIds -> Seq(Nat)]
      BY DEF EInv, EngineTypeOK
    <3>3. counters = market_counters_[k]
      OBVIOUS
    <3> HIDE DEF counters, k
    <3> QED
      BY <1>2, <2>2, <2>4, <3>1, <3>2, <3>3
  <2>6. ids' \in Seq(MarketIds \X (0 .. CounterSize - 1)) /\ Len(counters) + 1 \in Nat
    BY <1>2, <2>1 DEF EInv, EngineTypeOK
  <2> QED
    BY <1>1, <2>1, <2>5, <2>6, CounterStep
<1>5. CASE FindCounter(c)
  <2>1. /\ ids' = ids /\ market_counters_' = market_counters_
        /\ market_counters_ \in [MarketIds -> Seq(Nat)]
        /\ ids \in Seq(MarketIds \X (0 .. CounterSize - 1))
    BY <1>5 DEF FindCounter, Counting, EInv, EngineTypeOK
  <2>2. CASE GoOn(c, "insert", 0)
    BY <1>1, <2>1, <2>2, CounterStep
  <2>3. CASE \E n \in DOMAIN counters : GoOn(c, "add", n)
    <3>1. PICK n \in DOMAIN counters : GoOn(c, "add", n)
      BY <2>3
    <3>2. n \in Nat
      BY <1>2, <3>1
    <3> QED
      BY <1>1, <2>1, <3>1, <3>2, CounterStep
  <2> QED
    BY <1>5, <2>2, <2>3 DEF FindCounter, Key
<1> QED
  BY <1>3, <1>4, <1>5

(* stop() ends a worker and nothing else.                                  *)
LEMMA StoppedOnly ==
  ASSUME EInv, NEW q \in Processors, object' = Stopped(q)
  PROVE  /\ object' \in [Processors -> ObjectStates]
         /\ \A p \in Processors :
              /\ object'[p] \in {"none", "created"} <=> object[p] \in {"none", "created"}
              /\ object'[p] \in {"none", "created"} => object'[p] = object[p]
              /\ object'[p] = "running" <=> object[p] = "running" /\ p # q
              /\ Exists(p)' <=> Exists(p)
BY DEF EInv, EngineTypeOK, ObjectStates, Stopped, Exists

(* The worker is started; the processor is an entry or raced.              *)
LEMMA StartInv ==
  ASSUME EInv, NEW c \in Clients, start(c)
  PROVE  EInv'
<1> DEFINE s == call[c].symbol
           p == call[c].processor
           k == At("return", s, p, 0)
<1> USE DEF Requesting, Changing, Creating, Removing
<1>1. /\ call[c].at = "start" /\ s \in Symbols /\ p \in Processors /\ Of(p, s)
      /\ UNCHANGED << processors_, Counting, raced >>
  BY InCall DEF start
<1>2. CASE object[p] # "created"
  <2>1. UNCHANGED << object, call >> /\ crashed' = s
    BY <1>2 DEF start, Crash
  <2>2. s \in raced
    BY <1>1, <1>2 DEF EInv, OwnersInv, CallsSound, Sound
  <2> QED
    BY <1>1, <2>1, <2>2, NothingMoved
<1>3. CASE object[p] = "created"
  <2>1. /\ object' = [object EXCEPT ![p] = "running"] /\ call' = [call EXCEPT ![c] = k]
        /\ crashed' = crashed /\ k \in Calls
        /\ k.at = "return" /\ k.symbol = s /\ k.processor = p
    BY <1>1, <1>3 DEF start, GoOn, Calls, At
  <2> HIDE DEF k
  <2>2. /\ call' \in [Clients -> Calls]
        /\ call'[c] = k /\ \A d \in Clients : d # c => call'[d] = call[d]
        /\ object' \in [Processors -> ObjectStates]
        /\ object'[p] = "running" /\ \A q \in Processors : q # p => object'[q] = object[q]
    BY <1>1, <2>1 DEF EInv, EngineTypeOK, ObjectStates
  <2>3. \A q \in Processors, t \in Symbols : Of(q, t)' => Of(q, t)
    BY <1>1, <2>1, <2>2 DEF Of
  <2>4. OneSymbolEach'
    BY <1>1, <1>3, <2>2, <2>3 DEF EInv, OwnersInv, OneSymbolEach
  <2>5. \A d \in Clients : call[d].at = "put" => call[d].processor # p /\ d # c
    BY <1>1, <1>3 DEF EInv, OwnersInv, OneOwner
  <2>6. OneOwner'
    <3>1. \A d \in Clients : call[d].at \in {"put", "replace", "join"} =>
            call[d].processor \in Processors /\ d # c /\ call'[d] = call[d]
      BY <1>1, <2>2, InCall
    <3>2. ASSUME NEW d \in Clients, call'[d].at = "put"
          PROVE  /\ object'[call'[d].processor] = "created"
                 /\ \A t \in Symbols : processors_'[t] # call'[d].processor
                 /\ \A e \in Clients : d # e => call'[e].processor # call'[d].processor
      BY <1>1, <2>1, <2>2, <2>5, <3>1, <3>2 DEF EInv, OwnersInv, OneOwner
    <3>3. ASSUME NEW d \in Clients, call'[d].at \in {"replace", "join"}
          PROVE  /\ Exists(call[d].processor)'
                 /\ \A t \in Symbols : processors_'[t] # call'[d].processor
                 /\ \A e \in Clients : d # e => ~ Destroys(e, call[d].processor)'
      BY <1>1, <2>1, <2>2, <3>1, <3>3 DEF EInv, OwnersInv, OneOwner, Exists, Destroys
    <3> QED
      BY <3>2, <3>3 DEF OneOwner
  <2>7. EntriesSound'
    BY <1>1, <2>1, <2>2 DEF EInv, EngineTypeOK, OwnersInv, EntriesSound, Exists
  <2>8. NoneLost'
    <3>1. \A d \in Clients, q \in Processors :
            /\ Destroys(d, q) => Destroys(d, q)' /\ call'[d] = call[d]
            /\ call[d].at = "put" => call'[d] = call[d]
      BY <1>1, <2>2 DEF Destroys
    <3>2. \A d \in Clients : Destroys(d, p) => call[d].symbol \in raced
      <4> SUFFICES ASSUME NEW d \in Clients, Destroys(d, p) PROVE call[d].symbol \in raced
        OBVIOUS
      <4>1. /\ call[d].at # "idle" /\ call[d].processor = p /\ d # c
        BY <1>1 DEF Destroys
      <4>2. call[d].symbol \in Symbols /\ Of(p, call[d].symbol)
        BY <4>1, InCall
      <4>3. call[d].symbol = s
        BY <1>1, <4>2 DEF EInv, OwnersInv, OneSymbolEach
      <4> QED
        BY <1>1, <4>1, <4>3 DEF EInv, OwnersInv, Exclusive
    <3>3. \/ \E t \in Symbols : processors_[t] = p
          \/ \E d \in Clients : Destroys(d, p) /\ call[d].symbol \in raced
      BY <1>1, <1>3, <2>5, <3>2 DEF EInv, OwnersInv, NoneLost
    <3> QED
      BY <1>1, <2>2, <3>1, <3>3 DEF EInv, OwnersInv, NoneLost
  <2>9. Exclusive'
    BY <1>1, <2>1, <2>2 DEF EInv, OwnersInv, Exclusive
  <2>10. CallsSound'
    <3> SUFFICES ASSUME NEW d \in Clients, call'[d].symbol \notin raced PROVE Sound(call[d])'
      BY <1>1 DEF CallsSound
    <3>1. CASE d = c
      BY <1>1, <2>1, <2>2, <3>1 DEF EInv, OwnersInv, CallsSound, Sound
    <3>2. CASE d # c
      <4>1. call'[d] = call[d] /\ Sound(call[d])
        BY <2>2, <3>2 DEF EInv, OwnersInv, CallsSound
      <4>2. ASSUME call[d].at \in {"again", "start", "join"}
            PROVE  call[d].processor \in Processors /\ call[d].processor # p
        <5>1. /\ call[d].symbol \in Symbols /\ call[d].processor \in Processors
              /\ Of(call[d].processor, call[d].symbol)
          BY <4>2, InCall
        <5>2. call[d].symbol # s
          BY <1>1, <3>2, <4>1, <4>2 DEF EInv, OwnersInv, Exclusive
        <5> QED
          BY <1>1, <5>1, <5>2 DEF EInv, OwnersInv, OneSymbolEach
      <4> QED
        BY <1>1, <2>2, <4>1, <4>2 DEF Sound
    <3> QED
      BY <3>1, <3>2
  <2>11. OwnersInv'
    BY <2>4, <2>6, <2>7, <2>8, <2>9, <2>10 DEF OwnersInv
  <2>12. \A d \in Clients : call'[d].at = "add" => call'[d] = call[d]
    BY <2>1, <2>2
  <2> QED
    BY <1>1, <2>1, <2>2, <2>11, <2>12, FrameInv DEF EInv, EngineTypeOK
<1> QED
  BY <1>2, <1>3

(* remove_market stops the entry's worker.                                 *)
LEMMA StopInv ==
  ASSUME EInv, NEW c \in Clients, StopProcessor(c)
  PROVE  EInv'
<1> DEFINE s == call[c].symbol
           q == processors_[s]
           k == At("erase", s, call[c].processor, 0)
<1> USE DEF Requesting, Changing, Creating, Removing
<1>1. /\ call[c].at = "stop" /\ s \in Symbols /\ q \in Processors
      /\ UNCHANGED << processors_, Counting, raced, crashed >> /\ object' = Stopped(q)
  BY InCall DEF StopProcessor, EInv, EngineTypeOK, OwnersInv, EntriesSound
<1>2. /\ call' = [call EXCEPT ![c] = k] /\ k \in Calls
      /\ k.at = "erase" /\ k.symbol = s /\ k.processor = call[c].processor
  BY <1>1, InCall, GoOnCall DEF StopProcessor, GoOn, At
<1> HIDE DEF q, k
<1>3. /\ call' \in [Clients -> Calls]
      /\ call'[c] = k /\ \A d \in Clients : d # c => call'[d] = call[d]
  BY <1>2 DEF EInv
<1>4. /\ object' \in [Processors -> ObjectStates]
      /\ \A p \in Processors :
           /\ object'[p] \in {"none", "created"} <=> object[p] \in {"none", "created"}
           /\ object'[p] \in {"none", "created"} => object'[p] = object[p]
           /\ object'[p] = "running" <=> object[p] = "running" /\ p # q
           /\ Exists(p)' <=> Exists(p)
  BY <1>1, StoppedOnly
<1>5. \A d \in Clients : call[d].at # "idle" => call[d].processor \in Processors
  BY InCall
<1>6. OneSymbolEach'
  <2>1. \A p \in Processors, t \in Symbols : Of(p, t)' => Of(p, t)
    BY <1>1, <1>2, <1>3 DEF Of
  <2> QED
    BY <1>4, <2>1 DEF EInv, OwnersInv, OneSymbolEach
<1>7. OneOwner'
  BY <1>1, <1>2, <1>3, <1>4, <1>5 DEF EInv, OwnersInv, OneOwner, Destroys
<1>8. EntriesSound'
  BY <1>1, <1>2, <1>3, <1>4 DEF EInv, EngineTypeOK, OwnersInv, EntriesSound
<1>9. NoneLost'
  <2>1. \A d \in Clients, p \in Processors :
          /\ Destroys(d, p) => Destroys(d, p)' /\ call'[d] = call[d]
          /\ call[d].at = "put" => call'[d] = call[d]
    BY <1>1, <1>3 DEF Destroys
  <2> QED
    BY <1>1, <1>4, <2>1 DEF EInv, OwnersInv, NoneLost
<1>10. Exclusive'
  BY <1>1, <1>2, <1>3 DEF EInv, OwnersInv, Exclusive
<1>11. CallsSound'
  <2>1. ASSUME NEW d \in Clients, call'[d].symbol \notin raced PROVE Sound(call[d])'
    <3>1. Sound(call[d]) /\ call'[d].symbol = call[d].symbol
          /\ call'[d].processor = call[d].processor
          /\ (call'[d].at # call[d].at => call[d].at = "stop" /\ call'[d].at = "erase")
      BY <1>1, <1>2, <1>3, <2>1 DEF EInv, OwnersInv, CallsSound
    <3> QED
      BY <1>1, <1>4, <1>5, <3>1 DEF Sound
  <2> QED
    BY <1>1, <2>1 DEF CallsSound
<1>12. OwnersInv'
  BY <1>6, <1>7, <1>8, <1>9, <1>10, <1>11 DEF OwnersInv
<1>13. \A d \in Clients : call'[d].at = "add" => call'[d] = call[d]
  BY <1>2, <1>3
<1> QED
  BY <1>1, <1>3, <1>4, <1>12, <1>13, FrameInv DEF EInv, EngineTypeOK

(* remove_market erases the entry, and joins the worker of the processor   *)
(* that was in it.                                                         *)
LEMMA EraseInv ==
  ASSUME EInv, NEW c \in Clients, EraseEntry(c)
  PROVE  EInv'
<1> DEFINE s == call[c].symbol
<1> USE DEF Requesting, Changing, Creating, Removing
<1>0. PICK q \in Processors : q = processors_[s]
  BY InCall DEF EraseEntry, EInv, EngineTypeOK, OwnersInv, EntriesSound
<1> DEFINE k == At("join", s, q, 0)
<1>1. /\ call[c].at = "erase" /\ s \in Symbols /\ q # Null
      /\ q = processors_[s] /\ Of(q, s)
      /\ UNCHANGED << Counting, raced, crashed >> /\ object' = Stopped(q)
      /\ processors_' = [processors_ EXCEPT ![s] = Null]
  BY <1>0, InCall, EngineAssumption DEF EraseEntry, EInv, EngineTypeOK, Of
<1>2. /\ k \in Calls /\ k.at = "join" /\ k.symbol = s /\ k.processor = q
  BY <1>1 DEF Calls, At
<1>3. call' = [d \in Clients |->
         IF d = c THEN k
         ELSE IF call[d].symbol = s /\ call[d].at \in {"stop", "erase"}
              THEN [call[d] EXCEPT !.at = "dangling"]
              ELSE call[d]]
  BY <1>0 DEF EraseEntry
<1> HIDE DEF k
<1>4. \A d \in Clients : call[d].at # "idle" =>
        call[d] \in [ at : Requesting \union Changing, symbol : Symbols,
                      processor : Processors, node : Nat ]
  BY DEF EInv, Calls, Idle, At
<1>5. /\ call'[c] = k
      /\ \A d \in Clients : d # c =>
           /\ call'[d].symbol = call[d].symbol /\ call'[d].processor = call[d].processor
           /\ \/ call'[d] = call[d] /\ ~ (call[d].symbol = s /\ call[d].at \in {"stop", "erase"})
              \/ call[d].symbol = s /\ call[d].at \in {"stop", "erase"} /\ call'[d].at = "dangling"
  BY <1>3, <1>4
<1>6. call' \in [Clients -> Calls]
  <2>1. \A d \in Clients : call[d].symbol = s /\ call[d].at \in {"stop", "erase"} =>
          [call[d] EXCEPT !.at = "dangling"] \in Calls
    BY <1>4 DEF Calls
  <2> QED
    BY <1>2, <1>3, <2>1 DEF EInv
<1>7. /\ object' \in [Processors -> ObjectStates]
      /\ \A p \in Processors :
           /\ object'[p] \in {"none", "created"} <=> object[p] \in {"none", "created"}
           /\ object'[p] \in {"none", "created"} => object'[p] = object[p]
           /\ object'[p] = "running" <=> object[p] = "running" /\ p # q
           /\ Exists(p)' <=> Exists(p)
  BY <1>1, StoppedOnly
<1>8. /\ processors_' \in [Symbols -> Processors \union {Null}]
      /\ processors_'[s] = Null
      /\ \A t \in Symbols : t # s => processors_'[t] = processors_[t] /\ processors_[t] # q
  BY <1>1 DEF EInv, EngineTypeOK, OwnersInv, OneSymbolEach, Of
<1>9. \A t \in Symbols : processors_'[t] # Null => t # s /\ processors_'[t] = processors_[t]
  BY <1>8
<1>10. \A d \in Clients : call[d].at # "idle" => call[d].processor \in Processors
  BY <1>4
<1>11. OneSymbolEach'
  <2>1. \A p \in Processors, t \in Symbols : Of(p, t)' => Of(p, t)
    BY <1>1, <1>2, <1>5, <1>9, EngineAssumption DEF Of
  <2> QED
    BY <1>7, <2>1 DEF EInv, OwnersInv, OneSymbolEach
<1>12. \A d \in Clients : call[d].at \in {"put", "replace", "join"} =>
         /\ call[d].processor \in Processors /\ d # c /\ call'[d] = call[d]
         /\ call[d].processor # q /\ call[d].processor # Null
         /\ \A t \in Symbols : processors_'[t] # call[d].processor
  BY <1>1, <1>5, <1>9, <1>10, EngineAssumption DEF EInv, OwnersInv, OneOwner
<1>13. OneOwner'
  <2>1. ASSUME NEW d \in Clients, call'[d].at = "put"
        PROVE  /\ object'[call'[d].processor] = "created"
               /\ \A t \in Symbols : processors_'[t] # call'[d].processor
               /\ \A e \in Clients : d # e => call'[e].processor # call'[d].processor
    BY <1>2, <1>5, <1>7, <1>12, <2>1 DEF EInv, OwnersInv, OneOwner
  <2>2. ASSUME NEW d \in Clients, d # c, call'[d].at \in {"replace", "join"}
        PROVE  /\ Exists(call[d].processor)' /\ call'[d].processor = call[d].processor
               /\ \A t \in Symbols : processors_'[t] # call'[d].processor
               /\ \A e \in Clients : d # e => ~ Destroys(e, call[d].processor)'
    BY <1>2, <1>5, <1>7, <1>12, <2>2 DEF EInv, OwnersInv, OneOwner, Destroys
  <2>3. /\ Exists(q)' /\ \A t \in Symbols : processors_'[t] # q
        /\ \A e \in Clients : c # e => ~ Destroys(e, q)'
    BY <1>1, <1>5, <1>7, <1>8, <1>9, <1>12 DEF EInv, OwnersInv, EntriesSound, Destroys
  <2> QED
    BY <1>2, <1>5, <2>1, <2>2, <2>3 DEF OneOwner, Exists, Destroys
<1>14. EntriesSound'
  <2>1. \A d \in Clients : call'[d].at \in {"stop", "erase"} =>
          call[d].at \in {"stop", "erase"} /\ call'[d] = call[d] /\ call[d].symbol \in Symbols
          /\ call[d].symbol # s
    BY <1>2, <1>4, <1>5
  <2> QED
    BY <1>7, <1>8, <1>9, <2>1 DEF EInv, EngineTypeOK, OwnersInv, EntriesSound
<1>15. NoneLost'
  <2>1. \A d \in Clients, p \in Processors :
          /\ Destroys(d, p) => Destroys(d, p)' /\ call'[d] = call[d]
          /\ call[d].at = "put" => call'[d] = call[d]
    BY <1>12 DEF Destroys
  <2>2. Destroys(c, q)'
    BY <1>2, <1>5 DEF Destroys
  <2> QED
    BY <1>1, <1>7, <1>8, <2>1, <2>2 DEF EInv, OwnersInv, NoneLost
<1>16. Exclusive'
  BY <1>1, <1>2, <1>5 DEF EInv, OwnersInv, Exclusive
<1>17. CallsSound'
  <2>1. ASSUME NEW d \in Clients, call'[d].symbol \notin raced PROVE Sound(call[d])'
    <3>1. CASE d = c
      BY <1>1, <1>2, <1>5, <1>7, <3>1 DEF Sound
    <3>2. CASE d # c
      <4>1. call'[d].symbol = call[d].symbol /\ Sound(call[d]) /\ call[d].symbol # s
        BY <1>1, <1>5, <2>1, <3>2 DEF EInv, OwnersInv, CallsSound, Exclusive
      <4>2. call'[d] = call[d]
        BY <1>5, <3>2, <4>1
      <4>3. call[d].at # "idle" => call[d].symbol \in Symbols
        BY <1>4
      <4> QED
        BY <1>7, <1>8, <1>10, <4>1, <4>2, <4>3 DEF Sound
    <3> QED
      BY <3>1, <3>2
  <2> QED
    BY <1>1, <2>1 DEF CallsSound
<1>18. OwnersInv'
  BY <1>11, <1>13, <1>14, <1>15, <1>16, <1>17 DEF OwnersInv
<1>19. \A d \in Clients : call'[d].at = "add" => call'[d] = call[d]
  BY <1>2, <1>5
<1> QED
  BY <1>1, <1>6, <1>7, <1>8, <1>18, <1>19, FrameInv DEF EInv, EngineTypeOK

(* The destructor has joined the worker: nobody else knows the processor,  *)
(* unless it raced.                                                        *)
LEMMA DestroyInv ==
  ASSUME EInv, NEW c \in Clients, DestroyProcessor(c)
  PROVE  EInv'
<1> DEFINE s == call[c].symbol
           p == call[c].processor
<1> USE DEF Requesting, Changing, Creating, Removing
<1>1. /\ call[c].at \in {"replace", "join"} /\ s \in Symbols /\ p \in Processors
      /\ UNCHANGED << processors_, Counting, raced, crashed >>
      /\ object' = [object EXCEPT ![p] = "freed"]
  BY InCall DEF DestroyProcessor
<1>2. PICK k \in Calls : /\ call' = [call EXCEPT ![c] = k]
                         /\ \/ k = Idle
                            \/ /\ call[c].at = "replace" /\ k.at = "again"
                               /\ k.symbol = s /\ k.processor = p
  <2>1. Idle \in Calls /\ At("again", s, p, 0) \in Calls
    BY <1>1 DEF Calls, At
  <2> QED
    BY <2>1 DEF DestroyProcessor, GoOn, Leave, At
<1> HIDE DEF s, p
<1>3. /\ call' \in [Clients -> Calls] /\ s = call[c].symbol /\ p = call[c].processor
      /\ call'[c] = k /\ \A d \in Clients : d # c => call'[d] = call[d]
      /\ k.at \in {"idle", "again"} /\ (k.at = "idle" => k = Idle)
      /\ (k.at = "again" => k.symbol = s /\ k.processor = p)
  BY <1>2 DEF EInv, Idle, At, s, p
<1>4. /\ object' \in [Processors -> ObjectStates] /\ object'[p] = "freed"
      /\ \A q \in Processors : q # p => object'[q] = object[q]
  BY <1>1 DEF EInv, EngineTypeOK, ObjectStates
<1>5. /\ \A t \in Symbols : processors_[t] # p
      /\ \A d \in Clients : d # c /\ call[d].at \in {"put", "replace", "join"} =>
           call[d].processor # p /\ call[d].processor \in Processors
  BY <1>1, <1>3, InCall DEF EInv, OwnersInv, OneOwner, Destroys
<1>6. OneSymbolEach'
  <2>1. \A q \in Processors, t \in Symbols : Of(q, t)' => Of(q, t)
    BY <1>1, <1>3, EngineAssumption DEF Of, Idle, At
  <2> QED
    BY <1>4, <2>1 DEF EInv, OwnersInv, OneSymbolEach
<1>7. OneOwner'
  <2>1. ASSUME NEW d \in Clients, call'[d].at = "put"
        PROVE  /\ object'[call'[d].processor] = "created"
               /\ \A t \in Symbols : processors_'[t] # call'[d].processor
               /\ \A e \in Clients : d # e => call'[e].processor # call'[d].processor
    <3>1. d # c /\ call'[d] = call[d] /\ call[d].processor \in Processors
      BY <1>3, <1>5, <2>1
    <3>2. call'[c].processor # call[d].processor
      BY <1>3, <1>5, <2>1, <3>1, EngineAssumption DEF Idle, At
    <3> QED
      BY <1>1, <1>3, <1>4, <1>5, <2>1, <3>1, <3>2 DEF EInv, OwnersInv, OneOwner
  <2>2. ASSUME NEW d \in Clients, call'[d].at \in {"replace", "join"}
        PROVE  /\ Exists(call[d].processor)' /\ call'[d] = call[d]
               /\ \A t \in Symbols : processors_'[t] # call[d].processor
               /\ \A e \in Clients : d # e => ~ Destroys(e, call[d].processor)'
    BY <1>1, <1>3, <1>4, <1>5, <2>2 DEF EInv, OwnersInv, OneOwner, Exists, Destroys
  <2> QED
    BY <2>1, <2>2 DEF OneOwner, Exists, Destroys
<1>8. EntriesSound'
  BY <1>1, <1>3, <1>4, <1>5 DEF EInv, EngineTypeOK, OwnersInv, EntriesSound, Exists
<1>9. NoneLost'
  <2>1. \A d \in Clients, q \in Processors :
          /\ Destroys(d, q) /\ q # p => Destroys(d, q)' /\ call'[d] = call[d]
          /\ call[d].at = "put" => call'[d] = call[d]
    BY <1>1, <1>3 DEF Destroys
  <2> QED
    BY <1>1, <1>4, <2>1 DEF EInv, OwnersInv, NoneLost
<1>10. Exclusive'
  BY <1>1, <1>3, EngineAssumption DEF EInv, OwnersInv, Exclusive, Idle, At, Calls
<1>11. CallsSound'
  <2>1. ASSUME NEW d \in Clients, call'[d].symbol \notin raced PROVE Sound(call[d])'
    <3>1. CASE d = c
      <4>1. k.at # "again"
        BY <1>1, <1>2, <1>3, <2>1, <3>1 DEF EInv, OwnersInv, CallsSound, Sound, Idle, At
      <4> QED
        BY <1>3, <3>1, <4>1 DEF Sound, Idle, At
    <3>2. CASE d # c
      <4>1. call'[d] = call[d] /\ Sound(call[d])
        BY <1>3, <2>1, <3>2 DEF EInv, OwnersInv, CallsSound
      <4>2. call[d].at \in {"again", "start", "join"} =>
              call[d].processor # p /\ call[d].processor \in Processors
        <5>1. call[d].at \in {"again", "start"} =>
                /\ call[d].symbol \in Symbols /\ call[d].processor \in Processors
                /\ processors_[call[d].symbol] = call[d].processor
          BY <4>1, InCall DEF Sound
        <5> QED
          BY <1>5, <3>2, <5>1
      <4> QED
        BY <1>1, <1>4, <4>1, <4>2 DEF Sound
    <3> QED
      BY <3>1, <3>2
  <2> QED
    BY <1>1, <2>1 DEF CallsSound
<1>12. OwnersInv'
  BY <1>6, <1>7, <1>8, <1>9, <1>10, <1>11 DEF OwnersInv
<1>13. \A d \in Clients : call'[d].at = "add" => call'[d] = call[d]
  BY <1>3
<1> QED
  BY <1>1, <1>3, <1>4, <1>12, <1>13, FrameInv DEF EInv, EngineTypeOK

(* The new processor becomes the entry's.  One that another thread has put *)
(* there is destroyed by the thread that replaced it.                      *)
LEMMA PutInv ==
  ASSUME EInv, NEW c \in Clients, PutEntry(c)
  PROVE  EInv'
<1> DEFINE s == call[c].symbol
<1> USE DEF Requesting, Changing, Creating, Removing
<1>0. PICK p \in Processors, old \in Processors \union {Null} :
        /\ p = call[c].processor /\ old = processors_[s] /\ call[c].at = "put" /\ s \in Symbols
  BY InCall DEF PutEntry, EInv, EngineTypeOK
<1>1. /\ p # Null /\ Of(p, s) /\ object[p] = "created" /\ s = call[c].symbol
      /\ UNCHANGED << Counting, raced, crashed >>
      /\ processors_' = [processors_ EXCEPT ![s] = p]
      /\ \A t \in Symbols : processors_[t] # p
      /\ \A d \in Clients : d # c => call[d].processor # p
  BY <1>0, EngineAssumption DEF PutEntry, Of, EInv, OwnersInv, OneOwner
<1>2. PICK k \in Calls :
        /\ call' = [call EXCEPT ![c] = k] /\ k.symbol = s
        /\ \/ old = Null /\ k.at = "again" /\ k.processor = p /\ object' = object
           \/ old # Null /\ k.at = "replace" /\ k.processor = old /\ object' = Stopped(old)
  <2>1. /\ At("again", s, p, 0) \in Calls
        /\ old # Null => At("replace", s, old, 0) \in Calls
    BY <1>0 DEF Calls, At
  <2> QED
    BY <1>0, <2>1 DEF PutEntry, GoOn, At
<1>3. /\ call' \in [Clients -> Calls] /\ call'[c] = k
      /\ \A d \in Clients : d # c => call'[d] = call[d]
  BY <1>2 DEF EInv
<1> HIDE DEF s
<1>4. /\ object' \in [Processors -> ObjectStates]
      /\ \A q \in Processors :
           /\ object'[q] \in {"none", "created"} <=> object[q] \in {"none", "created"}
           /\ object'[q] \in {"none", "created"} => object'[q] = object[q]
           /\ object'[q] = "running" => object[q] = "running" /\ q # old
           /\ Exists(q)' <=> Exists(q)
  <2>1. CASE old = Null
    BY <1>2, <2>1, EngineAssumption DEF EInv, EngineTypeOK, Exists
  <2>2. CASE old # Null
    <3>1. old \in Processors /\ object' = Stopped(old)
      BY <1>0, <1>2, <2>2
    <3> QED
      BY <3>1, StoppedOnly
  <2> QED
    BY <2>1, <2>2
<1>5. /\ processors_' \in [Symbols -> Processors \union {Null}] /\ processors_'[s] = p
      /\ \A t \in Symbols : t # s => /\ processors_'[t] = processors_[t]
                                     /\ old # Null => processors_[t] # old
  <2>1. old # Null => Of(old, s)
    BY <1>0 DEF Of
  <2> QED
    BY <1>0, <1>1, <2>1 DEF EInv, EngineTypeOK, OwnersInv, OneSymbolEach, Of
<1>6. \A d \in Clients : call[d].at # "idle" => call[d].processor \in Processors
  BY InCall
<1>7. OneSymbolEach'
  <2>1. \A q \in Processors, t \in Symbols : Of(q, t)' => Of(q, t)
    BY <1>0, <1>1, <1>2, <1>3, <1>5 DEF Of
  <2> QED
    BY <1>4, <2>1 DEF EInv, OwnersInv, OneSymbolEach
<1>8. \A d \in Clients : d # c /\ call[d].at \in {"put", "replace", "join"} =>
        /\ call[d].processor \in Processors /\ call'[d] = call[d]
        /\ call[d].processor # p /\ call[d].processor # old
        /\ \A t \in Symbols : processors_'[t] # call[d].processor
  <2>1. \A d \in Clients : d # c /\ call[d].at \in {"put", "replace", "join"} =>
          /\ call[d].processor \in Processors /\ call'[d] = call[d]
          /\ \A t \in Symbols : processors_[t] # call[d].processor
    BY <1>3, <1>6 DEF EInv, OwnersInv, OneOwner
  <2> QED
    BY <1>0, <1>1, <1>5, <2>1
<1>9. OneOwner'
  <2>1. ASSUME NEW d \in Clients, call'[d].at = "put"
        PROVE  /\ object'[call'[d].processor] = "created"
               /\ \A t \in Symbols : processors_'[t] # call'[d].processor
               /\ \A e \in Clients : d # e => call'[e].processor # call'[d].processor
    BY <1>1, <1>2, <1>3, <1>4, <1>8, <2>1 DEF EInv, OwnersInv, OneOwner
  <2>2. ASSUME NEW d \in Clients, d # c, call'[d].at \in {"replace", "join"}
        PROVE  /\ Exists(call[d].processor)' /\ call'[d] = call[d]
               /\ \A t \in Symbols : processors_'[t] # call'[d].processor
               /\ \A e \in Clients : d # e => ~ Destroys(e, call[d].processor)'
    BY <1>2, <1>3, <1>4, <1>8, <2>2 DEF EInv, OwnersInv, OneOwner, Destroys
  <2>3. ASSUME k.at = "replace"
        PROVE  /\ Exists(old)' /\ k.processor = old
               /\ \A t \in Symbols : processors_'[t] # old
               /\ \A e \in Clients : c # e => ~ Destroys(e, old)'
    <3>1. old \in Processors /\ old # Null /\ k.processor = old
      BY <1>0, <1>2, <2>3
    <3>2. Exists(old) /\ old # p
      BY <1>0, <1>1, <3>1 DEF EInv, OwnersInv, EntriesSound
    <3>3. \A e \in Clients : c # e => ~ Destroys(e, old)'
      BY <1>3, <1>8 DEF Destroys
    <3> QED
      BY <1>4, <1>5, <3>1, <3>2, <3>3
  <2> QED
    BY <1>2, <1>3, <2>1, <2>2, <2>3 DEF OneOwner, Exists, Destroys
<1>10. EntriesSound'
  <2>1. Exists(p)
    BY <1>1 DEF Exists
  <2>2. \A d \in Clients : call'[d].at \in {"stop", "erase"} =>
          call'[d] = call[d] /\ call[d].symbol \in Symbols
    BY <1>2, <1>3, InCall
  <2> QED
    BY <1>1, <1>4, <1>5, <2>1, <2>2 DEF EInv, EngineTypeOK, OwnersInv, EntriesSound
<1>11. NoneLost'
  <2>1. \A d \in Clients, q \in Processors :
          /\ Destroys(d, q) => Destroys(d, q)' /\ call'[d] = call[d]
          /\ call[d].at = "put" /\ call[d].processor # p => call'[d] = call[d]
    BY <1>0, <1>3 DEF Destroys
  <2>2. old # Null => Destroys(c, old)'
    BY <1>2, <1>3 DEF Destroys
  <2>3. ASSUME NEW q \in Processors, object'[q] = "created"
        PROVE  \/ \E t \in Symbols : processors_'[t] = q
               \/ \E d \in Clients : call'[d].at = "put" /\ call'[d].processor = q
               \/ \E d \in Clients : Destroys(d, q)'
    <3>1. CASE q = p \/ q = old
      BY <1>0, <1>5, <2>2, <3>1, EngineAssumption
    <3>2. CASE q # p /\ q # old
      <4>1. \/ \E t \in Symbols : processors_[t] = q
            \/ \E d \in Clients : call[d].at = "put" /\ call[d].processor = q
            \/ \E d \in Clients : Destroys(d, q)
        BY <1>4, <2>3 DEF EInv, OwnersInv, NoneLost
      <4> QED
        BY <1>0, <1>5, <2>1, <3>2, <4>1
    <3> QED
      BY <3>1, <3>2
  <2>4. ASSUME NEW q \in Processors, object'[q] = "running"
        PROVE  \/ \E t \in Symbols : processors_'[t] = q
               \/ \E d \in Clients : Destroys(d, q)' /\ call'[d].symbol \in raced'
    <3>1. /\ q # old
          /\ \/ \E t \in Symbols : processors_[t] = q
             \/ \E d \in Clients : Destroys(d, q) /\ call[d].symbol \in raced
      BY <1>4, <2>4 DEF EInv, OwnersInv, NoneLost
    <3> QED
      BY <1>0, <1>1, <1>5, <2>1, <3>1
  <2> QED
    BY <2>3, <2>4 DEF NoneLost
<1>12. Exclusive'
  BY <1>0, <1>1, <1>2, <1>3 DEF EInv, OwnersInv, Exclusive
<1>13. CallsSound'
  <2>1. ASSUME NEW d \in Clients, call'[d].symbol \notin raced PROVE Sound(call[d])'
    <3>1. CASE d = c
      <4>1. old = Null
        BY <1>0, <1>1, <1>2, <1>3, <2>1, <3>1 DEF EInv, OwnersInv, CallsSound, Sound
      <4> QED
        BY <1>1, <1>2, <1>3, <1>5, <3>1, <4>1 DEF Sound
    <3>2. CASE d # c
      <4>1. call'[d] = call[d] /\ Sound(call[d]) /\ call[d].symbol # s
        BY <1>0, <1>1, <1>3, <2>1, <3>2 DEF EInv, OwnersInv, CallsSound, Exclusive
      <4>2. call[d].at # "idle" => call[d].symbol \in Symbols
        BY InCall
      <4> QED
        BY <1>4, <1>5, <1>6, <4>1, <4>2 DEF Sound
    <3> QED
      BY <3>1, <3>2
  <2> QED
    BY <1>1, <2>1 DEF CallsSound
<1>14. OwnersInv'
  BY <1>7, <1>9, <1>10, <1>11, <1>12, <1>13 DEF OwnersInv
<1>15. \A d \in Clients : call'[d].at = "add" => call'[d] = call[d]
  BY <1>2, <1>3
<1> QED
  BY <1>1, <1>3, <1>4, <1>5, <1>14, <1>15, FrameInv DEF EInv, EngineTypeOK

(* A worker ends.                                                          *)
LEMMA EndInv ==
  ASSUME EInv, NEW p \in Processors, EndWorker(p)
  PROVE  EInv'
<1>1. /\ object[p] = "stopping" /\ object' = [object EXCEPT ![p] = "ended"]
      /\ UNCHANGED << processors_, Counting, call, raced, crashed >>
  BY DEF EndWorker
<1>2. /\ object' \in [Processors -> ObjectStates]
      /\ object'[p] = "ended" /\ \A q \in Processors : q # p => object'[q] = object[q]
      /\ \A q \in Processors : Exists(q)' <=> Exists(q)
  BY <1>1 DEF EInv, EngineTypeOK, ObjectStates, Exists
<1>3. \A d \in Clients : call[d].at # "idle" => call[d].processor \in Processors
  BY InCall
<1>4. OneSymbolEach'
  BY <1>1, <1>2 DEF EInv, OwnersInv, OneSymbolEach, Of
<1>5. OneOwner'
  BY <1>1, <1>2, <1>3 DEF EInv, OwnersInv, OneOwner, Destroys
<1>6. EntriesSound'
  BY <1>1, <1>2 DEF EInv, EngineTypeOK, OwnersInv, EntriesSound
<1>7. NoneLost'
  <2>1. \A d \in Clients, q \in Processors : Destroys(d, q)' <=> Destroys(d, q)
    BY <1>1 DEF Destroys
  <2> QED
    BY <1>1, <1>2, <2>1 DEF EInv, OwnersInv, NoneLost
<1>8. Exclusive'
  BY <1>1 DEF EInv, OwnersInv, Exclusive
<1>9. CallsSound'
  <2>1. ASSUME NEW d \in Clients, call[d].symbol \notin raced PROVE Sound(call[d])'
    BY <1>1, <1>2, <1>3, <2>1
       DEF EInv, OwnersInv, CallsSound, Sound, Requesting
  <2> QED
    BY <1>1, <2>1 DEF CallsSound
<1>10. OwnersInv'
  BY <1>4, <1>5, <1>6, <1>7, <1>8, <1>9 DEF OwnersInv
<1> QED
  BY <1>1, <1>2, <1>10, FrameInv DEF EInv, EngineTypeOK

LEMMA EngineStepInv == EInv /\ [EngineNext]_engineVars => EInv'
<1> SUFFICES ASSUME EInv, [EngineNext]_engineVars PROVE EInv'
  OBVIOUS
<1>1. CASE EngineNext
  <2>1. ASSUME NEW c \in Clients, Enter(c) PROVE EInv'
    BY <2>1, BeginInv, CreateInv DEF Enter
  <2>2. ASSUME NEW c \in Clients, Proceed(c) PROVE EInv'
    BY <2>2, RequestInv, CounterInv, PutInv, StartInv, StopInv, EraseInv, DestroyInv DEF Proceed
  <2>3. ASSUME NEW p \in Processors, Worker(p) PROVE EInv'
    BY <2>3, EndInv DEF Worker
  <2> QED
    BY <1>1, <2>1, <2>2, <2>3 DEF EngineNext
<1>2. CASE UNCHANGED engineVars
  BY <1>2, NothingMoved DEF engineVars, Counting
<1> QED
  BY <1>1, <1>2

(* The invariant of the engine, the registry and the processors' lives.    *)
THEOREM EngineInvariance == EngineSpec => []EInv
BY EngineInitInv, EngineStepInv, PTL DEF EngineSpec

(* The variables of the engine keep their types (submit_order,             *)
(* cancel_order, create_market, remove_market).                            *)
THEOREM EngineTypes == EngineSpec => []EngineTypeOK
<1>1. EInv => EngineTypeOK
  BY DEF EInv
<1> QED
  BY <1>1, EngineInvariance, PTL

(* However calls overlap, none of them uses a destroyed processor, an      *)
(* erased entry or a null pointer, or starts a worker twice, unless two    *)
(* calls for one symbol overlapped, create_market or remove_market among   *)
(* them (MarketRegistry, submit_order, cancel_order).                      *)
THEOREM OnlyOverlapsCrash == EngineSpec => []OnlyRacesCrash
<1>1. EInv => OnlyRacesCrash
  BY DEF EInv
<1> QED
  BY <1>1, EngineInvariance, PTL

(* However calls overlap, a running processor is the entry of exactly one  *)
(* symbol, or it raced and is being joined; and an entry leads to a        *)
(* processor that exists (create_market, remove_market).                   *)
THEOREM OneEntryEach == EngineSpec => []NoOrphans
<1>1. EInv => NoOrphans
  <2> SUFFICES ASSUME EInv, NEW p \in Processors, object[p] = "running",
                      NEW s \in Symbols, processors_[s] = p
               PROVE  Cardinality({t \in Symbols : processors_[t] = p}) = 1
    BY DEF NoOrphans, EInv, OwnersInv, EntriesSound, NoneLost, Destroys
  <2>1. {t \in Symbols : processors_[t] = p} = {s}
    BY DEF EInv, OwnersInv, OneSymbolEach, Of
  <2> QED
    BY <2>1, FS_Singleton
<1> QED
  BY <1>1, EngineInvariance, PTL

----------------------------------------------------------------------------
(* Why ids are unique.  A market id of which the map holds one counter that *)
(* has not passed CounterSize has given ids below the counter, all unlike; *)
(* one without a counter has given none.                                   *)
Spoilt(nodes) == Len(nodes) > 1 \/ \E n \in DOMAIN nodes : nodes[n] > CounterSize

UInv ==
  \A m \in MarketIds : ~ Spoilt(market_counters_[m]) =>
    /\ \A i \in DOMAIN ids : ids[i][1] = m =>
         Len(market_counters_[m]) = 1 /\ ids[i][2] < market_counters_[m][1]
    /\ \A i, j \in DOMAIN ids : i # j /\ ids[i][1] = m /\ ids[j][1] = m =>
         ids[i][2] # ids[j][2]

LEMMA FetchKeepsUnique ==
  ASSUME EInv, UInv, NEW c \in Clients, FetchAdd(c)
  PROVE  UInv'
<1> DEFINE k == market_id[call[c].processor]
           nodes == market_counters_[k]
           n == call[c].node
           v == nodes[n]
           q == [nodes EXCEPT ![n] = v + 1]
           new == << k, v % CounterSize >>
<1>1. /\ k \in MarketIds /\ n \in DOMAIN nodes /\ nodes \in Seq(Nat)
      /\ nodes = market_counters_[k]
      /\ DOMAIN nodes = 1 .. Len(nodes) /\ Len(nodes) \in Nat /\ v \in Nat
  BY LenProperties, InCall DEF FetchAdd, EInv, NodesSound, EngineTypeOK
<1>2. /\ ids' = Append(ids, new)
      /\ market_counters_' = [market_counters_ EXCEPT ![k] = q]
  BY DEF FetchAdd, Key, Mask
<1>3. /\ q \in Seq(Nat) /\ Len(q) = Len(nodes) /\ DOMAIN q = 1 .. Len(nodes)
      /\ v + 1 \in Nat
      /\ \A i \in 1 .. Len(nodes) : q[i] = IF i = n THEN v + 1 ELSE nodes[i]
  <2> HIDE DEF nodes, v
  <2>1. v + 1 \in Nat
    BY <1>1
  <2> QED
    BY <1>1, <2>1, ExceptSeq, LenProperties
<1>4. /\ market_counters_'[k] = q
      /\ \A m \in MarketIds : m # k => market_counters_'[m] = market_counters_[m]
  BY <1>1, <1>2 DEF EInv, EngineTypeOK
<1> HIDE DEF k, nodes, n, v
<1>5. /\ new \in MarketIds \X (0 .. CounterSize - 1) /\ new[1] = k /\ new[2] = v % CounterSize
      /\ ids \in Seq(MarketIds \X (0 .. CounterSize - 1))
  <2>1. v % CounterSize \in 0 .. CounterSize - 1
    BY <1>1, EngineAssumption
  <2> QED
    BY <1>1, <2>1 DEF EInv, EngineTypeOK
<1>6. /\ Len(ids) \in Nat /\ DOMAIN ids = 1 .. Len(ids) /\ DOMAIN ids' = 1 .. Len(ids) + 1
      /\ ids'[Len(ids) + 1] = new /\ \A i \in DOMAIN ids : ids'[i] = ids[i]
  <2> HIDE DEF new
  <2> QED
    BY <1>2, <1>5, AppendProperties, LenProperties
<1> HIDE DEF q, new
<1> SUFFICES ASSUME NEW m \in MarketIds, ~ Spoilt(market_counters_'[m])
             PROVE  /\ \A i \in DOMAIN ids' : ids'[i][1] = m =>
                         /\ Len(market_counters_'[m]) = 1
                         /\ ids'[i][2] < market_counters_'[m][1]
                    /\ \A i, j \in DOMAIN ids' : i # j /\ ids'[i][1] = m /\ ids'[j][1] = m =>
                         ids'[i][2] # ids'[j][2]
  BY DEF UInv, Spoilt
<1>7. CASE m # k
  <2>1. /\ market_counters_'[m] = market_counters_[m] /\ ~ Spoilt(market_counters_[m])
        /\ \A i \in DOMAIN ids' : ids'[i][1] = m => i \in DOMAIN ids /\ ids'[i] = ids[i]
    BY <1>4, <1>5, <1>6, <1>7
  <2> QED
    BY <2>1 DEF UInv
<1>8. CASE m = k
  <2>1. ~ (Len(q) > 1) /\ \A i \in DOMAIN q : ~ (q[i] > CounterSize)
    BY <1>4, <1>8 DEF Spoilt
  <2>2. Len(nodes) = 1 /\ n = 1 /\ q[1] = v + 1 /\ v + 1 <= CounterSize
    <3>1. Len(nodes) = 1 /\ n = 1
      <4>1. n \in 1 .. Len(nodes) /\ Len(nodes) \in Nat
        BY <1>1
      <4>2. ~ (Len(nodes) > 1)
        BY <1>3, <2>1
      <4>3. \A l \in Nat : \A x \in 1 .. l : ~ (l > 1) => l = 1 /\ x = 1
        OBVIOUS
      <4> QED
        BY <4>1, <4>2, <4>3
    <3>2. q[1] = v + 1 /\ 1 \in DOMAIN q
      BY <1>3, <3>1
    <3>3. ~ (v + 1 > CounterSize)
      BY <2>1, <3>2
    <3> QED
      BY <1>1, <3>1, <3>2, <3>3, EngineAssumption
  <2>3. ~ Spoilt(nodes)
    <3>1. \A i \in DOMAIN nodes : i = 1 /\ nodes[i] = v
      BY <1>1, <2>2 DEF v
    <3>2. ~ (v > CounterSize)
      BY <1>1, <2>2, EngineAssumption
    <3> QED
      BY <2>2, <3>1, <3>2 DEF Spoilt
  <2>4. new[2] = v
    <3>1. v \in 0 .. CounterSize - 1
      BY <1>1, <2>2, EngineAssumption
    <3>2. v % CounterSize = v
      BY <3>1, EngineAssumption
    <3> QED
      BY <1>5, <3>2
  <2>5. /\ nodes[1] = v
        /\ \A i \in DOMAIN ids : ids[i][1] = k => ids[i][2] < v
        /\ \A i, j \in DOMAIN ids : i # j /\ ids[i][1] = k /\ ids[j][1] = k =>
             ids[i][2] # ids[j][2]
    BY <1>1, <2>2, <2>3 DEF UInv, v
  <2>6. \A i \in DOMAIN ids : ids[i][2] \in Nat
    BY <1>5, EngineAssumption
  <2>7. \A i \in DOMAIN ids' : i \in DOMAIN ids \/ i = Len(ids) + 1
    BY <1>6
  <2>8. \A i \in DOMAIN ids' : ids'[i][1] = k => ids'[i][2] < v + 1
    BY <1>1, <1>6, <2>4, <2>5, <2>6, <2>7
  <2>9. \A i, j \in DOMAIN ids' : i # j /\ ids'[i][1] = k /\ ids'[j][1] = k =>
          ids'[i][2] # ids'[j][2]
    <3> SUFFICES ASSUME NEW i \in DOMAIN ids', NEW j \in DOMAIN ids', i # j,
                        ids'[i][1] = k, ids'[j][1] = k
                 PROVE  ids'[i][2] # ids'[j][2]
      OBVIOUS
    <3>1. CASE i \in DOMAIN ids /\ j \in DOMAIN ids
      BY <1>6, <2>5, <3>1
    <3>2. CASE i = Len(ids) + 1 /\ j \in DOMAIN ids
      BY <1>1, <1>6, <2>4, <2>5, <2>6, <3>2
    <3>3. CASE i \in DOMAIN ids /\ j = Len(ids) + 1
      BY <1>1, <1>6, <2>4, <2>5, <2>6, <3>3
    <3> QED
      BY <2>7, <3>1, <3>2, <3>3
  <2> QED
    BY <1>3, <1>4, <1>8, <2>2, <2>8, <2>9
<1> QED
  BY <1>7, <1>8

LEMMA InsertKeepsUnique ==
  ASSUME EInv, UInv, NEW c \in Clients, InsertCounter(c)
  PROVE  UInv'
<1> DEFINE k == market_id[call[c].processor]
           nodes == market_counters_[k]
           q == Append(nodes, 0)
<1>1. k \in MarketIds /\ nodes \in Seq(Nat) /\ Len(nodes) \in Nat
  BY LenProperties, InCall DEF InsertCounter, EInv, EngineTypeOK
<1>2. ids' = ids /\ market_counters_' = [market_counters_ EXCEPT ![k] = q]
  BY DEF InsertCounter, Key
<1>3. q \in Seq(Nat) /\ Len(q) = Len(nodes) + 1 /\ (Len(nodes) = 0 => ~ Spoilt(nodes))
  BY <1>1, AppendProperties, LenProperties DEF Spoilt
<1>4. /\ market_counters_'[k] = q
      /\ \A m \in MarketIds : m # k => market_counters_'[m] = market_counters_[m]
  BY <1>1, <1>2 DEF EInv, EngineTypeOK
<1> HIDE DEF q
<1> SUFFICES ASSUME NEW m \in MarketIds, ~ Spoilt(market_counters_'[m])
             PROVE  /\ \A i \in DOMAIN ids : ids[i][1] = m =>
                         /\ Len(market_counters_'[m]) = 1
                         /\ ids[i][2] < market_counters_'[m][1]
                    /\ \A i, j \in DOMAIN ids : i # j /\ ids[i][1] = m /\ ids[j][1] = m =>
                         ids[i][2] # ids[j][2]
  BY <1>2 DEF UInv, Spoilt
<1>5. CASE m # k
  BY <1>4, <1>5 DEF UInv
<1>6. CASE m = k
  <2>1. Len(nodes) = 0
    BY <1>1, <1>3, <1>4, <1>6 DEF Spoilt
  <2> QED
    BY <1>1, <1>3, <1>6, <2>1 DEF UInv
<1> QED
  BY <1>5, <1>6

(* The same id twice needs a counter that two threads inserted at once or  *)
(* one that ran over its 48 bits (generate_order_id).                      *)
THEOREM Uniqueness == EngineSpec => []UniqueIds
<1>1. EngineInit => UInv
  BY DEF EngineInit, UInv
<1>2. EInv /\ UInv /\ [EngineNext]_engineVars => UInv'
  <2> SUFFICES ASSUME EInv, UInv, [EngineNext]_engineVars PROVE UInv'
    OBVIOUS
  <2>1. ASSUME NEW c \in Clients, FetchAdd(c) PROVE UInv'
    BY <2>1, FetchKeepsUnique
  <2>2. ASSUME NEW c \in Clients, InsertCounter(c) PROVE UInv'
    BY <2>2, InsertKeepsUnique
  <2>3. ASSUME UNCHANGED << market_counters_, ids >> PROVE UInv'
    BY <2>3 DEF UInv
  <2>4. ASSUME NEW c \in Clients, Enter(c) PROVE UInv'
    BY <2>3, <2>4 DEF Enter, create_market, remove_market, LookUp, cancel_order, Counting
  <2>5. ASSUME NEW c \in Clients, Proceed(c) PROVE UInv'
    BY <2>1, <2>2, <2>3, <2>5
       DEF Proceed, get_market_id, FindCounter, submit_event, PutEntry, FindAgain, start,
           ReturnMarket, StopProcessor, EraseEntry, UseIterator, DestroyProcessor, Counting
  <2> QED
    BY <2>3, <2>4, <2>5 DEF EngineNext, Worker, EndWorker, engineVars, Counting
<1>3. EInv /\ UInv => UniqueIds
  <2> SUFFICES ASSUME EInv, UInv, NEW i \in DOMAIN ids, NEW j \in DOMAIN ids, i # j,
                      ids[i] = ids[j]
               PROVE  Spoilt(market_counters_[ids[i][1]])
    BY DEF UniqueIds, Spoilt
  <2>1. ids[i] \in MarketIds \X (0 .. CounterSize - 1)
    BY DEF EInv, EngineTypeOK
  <2> QED
    BY <2>1 DEF UInv
<1> QED
  BY <1>1, <1>2, <1>3, EngineInvariance, PTL DEF EngineSpec
=============================================================================
