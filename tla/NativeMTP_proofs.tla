--------------------------- MODULE NativeMTP_proofs ---------------------------
(***************************************************************************)
(* Proofs about NativeMTP, for every set of ranks, every checkpoint, every *)
(* list of patches, every vocabulary and every list of cache layers.       *)
(*                                                                         *)
(*   DecodeInv   where the cache, the context of the processors and the    *)
(*               draft stand against what was sent, at every point of a    *)
(*               cycle                                                     *)
(*   StartupInv  what a rank that is past an agreement knows of the others *)
(***************************************************************************)
EXTENDS NativeMTP, TLAPS, FiniteSetTheorems, SequenceTheorems

-----------------------------------------------------------------------------
(* Decoding.                                                               *)

\* Every layer holds toks, and none has a way back.
Holding(toks) == [l \in Layers |-> [held |-> toks, way |-> NoWay]]

Entries == [token : Tokens, cached : BOOLEAN]
States == [on : BOOLEAN, queue : Seq(Entries), main : Tokens \cup {NoToken},
           draft : Tokens \cup {NoToken}, uncached : Tokens \cup {NoToken}]

\* The model has said that token may come after toks.
Possible(answers, toks, token) ==
  PlainSight(toks) \in DOMAIN answers /\ token \in answers[PlainSight(toks)]

Sound(answers, toks) ==
  \A i \in 1..Len(toks) : Possible(answers, SubSeq(toks, 1, i - 1), toks[i])

\* The answers so far stand.
Extends(answers) ==
  \A s \in DOMAIN oracle : s \in DOMAIN answers /\ answers[s] = oracle[s]

Ordinary ==
  /\ ~mtp.on /\ layers = Holding(emitted) /\ context = emitted
  /\ pending \in Tokens /\ Possible(oracle, emitted, pending)

\* The main token is queued, neither sent nor fed.
Waiting ==
  /\ mtp.on /\ mtp.queue = << [token |-> mtp.main, cached |-> FALSE] >>
  /\ mtp.main \in Tokens /\ mtp.draft \in Tokens /\ mtp.uncached = NoToken
  /\ layers = Holding(emitted) /\ context = emitted
  /\ Possible(oracle, emitted, mtp.main)

\* The main token is sent, not fed.
Drafting ==
  /\ mtp.on /\ mtp.queue = <<>> /\ mtp.uncached = mtp.main
  /\ mtp.main \in Tokens /\ mtp.draft \in Tokens
  /\ \E before \in Seq(Tokens) :
       emitted = Append(before, mtp.main) /\ layers = Holding(before) /\ context = before

DecodeInv ==
  /\ emitted \in Seq(Tokens)
  /\ mtp \in States
  /\ \A s \in DOMAIN oracle : oracle[s] \subseteq Tokens
  /\ Sound(oracle, emitted)
  /\ place \in {"idle", "decoding", "finished"}
  /\ place = "idle" => emitted = <<>> /\ context = <<>> /\ mtp = Off /\ layers = Holding(<<>>)
  /\ place = "finished" => layers = Holding(emitted)
  /\ place = "decoding" => Ordinary \/ Waiting \/ Drafting

-----------------------------------------------------------------------------
(* What a forward pass and the rollback do to layers that hold the same.   *)

LEMMA PrefixOfTwo ==
  ASSUME NEW h \in Seq(Tokens), NEW m \in Tokens, NEW d \in Tokens
  PROVE  /\ h \o <<m, d>> \in Seq(Tokens) /\ Len(h \o <<m, d>>) = Len(h) + 2
         /\ SubSeq(h \o <<m, d>>, 1, Len(h) + 1) = Append(h, m)
         /\ h \o <<m, d>> = Append(Append(h, m), d)
         /\ h \o <<m>> = Append(h, m)
<1>1. h \o <<m, d>> \in Seq(Tokens) /\ Len(h \o <<m, d>>) = Len(h) + 2
  OBVIOUS
<1>2. h \o <<m, d>> = Append(Append(h, m), d)
  OBVIOUS
<1>3. h \o <<m>> = Append(h, m)
  OBVIOUS
<1>4. SubSeq(h \o <<m, d>>, 1, Len(h) + 1) = Append(h, m)
  <2> DEFINE u == SubSeq(h \o <<m, d>>, 1, Len(h) + 1)
  <2>1. u \in Seq(Tokens) /\ Len(u) = Len(h) + 1
    BY <1>1
  <2>2. \A i \in 1..(Len(h) + 1) : u[i] = Append(h, m)[i]
    BY <1>1
  <2>3. Append(h, m) \in Seq(Tokens) /\ Len(Append(h, m)) = Len(h) + 1
    OBVIOUS
  <2> HIDE DEF u
  <2>4. u = Append(h, m)
    BY <2>1, <2>2, <2>3, SeqEqual
  <2> QED
    BY <2>4 DEF u
<1> QED
  BY <1>1, <1>2, <1>3, <1>4

LEMMA WayIsSome ==
  ASSUME NEW h \in Seq(Tokens), NEW m \in Tokens, DecodeAssumption
  PROVE  [held |-> h \o <<m>>] # NoWay
<1> SUFFICES ASSUME [held |-> h \o <<m>>] = NoWay PROVE FALSE
  OBVIOUS
<1>1. h \o <<m>> = <<NoToken>>
  <2>1. [held |-> h \o <<m>>].held = NoWay.held
    OBVIOUS
  <2> QED
    BY <2>1 DEF NoWay
<1>2. Len(h \o <<m>>) = Len(h) + 1 /\ (h \o <<m>>)[Len(h) + 1] = m
  OBVIOUS
<1>3. Len(h) = 0
  <2>1. Len(<<NoToken>>) = 1 /\ Len(h) \in Nat
    OBVIOUS
  <2> QED
    BY <1>1, <1>2, <2>1
<1>4. m = NoToken
  <2>1. <<NoToken>>[1] = NoToken
    OBVIOUS
  <2> QED
    BY <1>1, <1>2, <1>3, <2>1
<1> QED
  BY <1>4 DEF DecodeAssumption

LEMMA FedOne ==
  ASSUME NEW h \in Seq(Tokens), NEW t \in Tokens, DecodeAssumption, layers = Holding(h)
  PROVE  Fed(<<t>>, 0, FALSE) = Holding(Append(h, t))
<1>1. \A l \in Layers : layers[l].held = h /\ layers[l].way = NoWay
  BY DEF Holding
<1>2. h \o <<t>> = Append(h, t)
  OBVIOUS
<1>3. \A l \in Layers : Fed(<<t>>, 0, FALSE)[l] = [held |-> Append(h, t), way |-> NoWay]
  <2> TAKE l \in Layers
  <2>1. CASE Kind[l] = "linear"
    <3>1. ~(0 < 0 /\ 0 < Len(<<t>>))
      OBVIOUS
    <3> QED
      BY <2>1, <3>1, <1>1, <1>2, Zenon DEF Fed, LinearWay, RotatingWay
  <2>2. CASE Kind[l] = "rotating"
    BY <2>2, <1>1, <1>2 DEF Fed, LinearWay, RotatingWay
  <2>3. CASE Kind[l] = "full"
    BY <2>3, <1>1, <1>2 DEF Fed, LinearWay, RotatingWay
  <2> QED
    BY <2>1, <2>2, <2>3 DEF DecodeAssumption
<1>4. DOMAIN Fed(<<t>>, 0, FALSE) = Layers
      /\ Fed(<<t>>, 0, FALSE) = [l \in Layers |-> Fed(<<t>>, 0, FALSE)[l]]
  BY DEF Fed, LinearWay, RotatingWay
<1> QED
  BY <1>3, <1>4 DEF Holding

LEMMA FedTwo ==
  ASSUME NEW h \in Seq(Tokens), NEW m \in Tokens, NEW d \in Tokens,
         DecodeAssumption, layers = Holding(h)
  PROVE  \A l \in Layers :
           /\ Fed(<<m, d>>, 1, TRUE)[l] =
                [held |-> h \o <<m, d>>,
                 way |-> IF Kind[l] = "full" THEN NoWay ELSE [held |-> h \o <<m>>]]
<1>1. \A l \in Layers : layers[l].held = h /\ layers[l].way = NoWay
  BY DEF Holding
<1>2. SubSeq(<<m, d>>, 1, 1) = <<m>>
  <2> DEFINE u == SubSeq(<<m, d>>, 1, 1)
  <2>1. <<m, d>> \in Seq(Tokens) /\ Len(<<m, d>>) = 2 /\ <<m, d>>[1] = m
    OBVIOUS
  <2>2. u \in Seq(Tokens) /\ Len(u) = 1 /\ u[1] = m
    BY <2>1
  <2> HIDE DEF u
  <2>3. u = <<m>>
    BY <2>2
  <2> QED
    BY <2>3 DEF u
<1>3. Len(<<m, d>>) = 2 /\ (0 < 1 /\ 1 < Len(<<m, d>>))
  OBVIOUS
<1> TAKE l \in Layers
<1>4. CASE Kind[l] = "linear"
  BY <1>4, <1>1, <1>2, <1>3, Zenon DEF Fed, LinearWay, RotatingWay
<1>5. CASE Kind[l] = "rotating"
  BY <1>5, <1>1, <1>2, <1>3 DEF Fed, LinearWay, RotatingWay
<1>6. CASE Kind[l] = "full"
  BY <1>6, <1>1, <1>2, <1>3 DEF Fed, LinearWay, RotatingWay
<1> QED
  BY <1>4, <1>5, <1>6 DEF DecodeAssumption

LEMMA RecordOf ==
  ASSUME NEW a, NEW b, NEW c
  PROVE  /\ [[held |-> a, way |-> b] EXCEPT !.way = c] = [held |-> a, way |-> c]
         /\ [held |-> a, way |-> b].way = b
OBVIOUS

LEMMA ClearedTwo ==
  ASSUME NEW h \in Seq(Tokens), NEW m \in Tokens, NEW d \in Tokens,
         DecodeAssumption, layers = Holding(h)
  PROVE  Cleared(Fed(<<m, d>>, 1, TRUE)) = Holding(h \o <<m, d>>)
<1> DEFINE fed == Fed(<<m, d>>, 1, TRUE)
<1>1. \A l \in Layers : [fed[l] EXCEPT !.way = NoWay] = [held |-> h \o <<m, d>>, way |-> NoWay]
  <2> TAKE l \in Layers
  <2> DEFINE some == IF Kind[l] = "full" THEN NoWay ELSE [held |-> h \o <<m>>]
  <2>1. fed[l] = [held |-> h \o <<m, d>>, way |-> some]
    BY FedTwo
  <2> HIDE DEF some, fed
  <2> QED
    <3>1. [[held |-> h \o <<m, d>>, way |-> some] EXCEPT !.way = NoWay]
            = [held |-> h \o <<m, d>>, way |-> NoWay]
      BY RecordOf
    <3> QED
      BY <2>1, <3>1
<1> HIDE DEF fed
<1>2. Cleared(fed) = Holding(h \o <<m, d>>)
  BY <1>1 DEF Cleared, Holding
<1> QED
  BY <1>2 DEF fed

LEMMA RestoredTwo ==
  ASSUME NEW h \in Seq(Tokens), NEW m \in Tokens, NEW d \in Tokens,
         DecodeAssumption, layers = Holding(h)
  PROVE  /\ Restorable(Fed(<<m, d>>, 1, TRUE))
         /\ RestoredLayers(Fed(<<m, d>>, 1, TRUE)) = Holding(Append(h, m))
<1> DEFINE fed == Fed(<<m, d>>, 1, TRUE)
<1>1. \A l \in Layers : fed[l] =
                [held |-> h \o <<m, d>>,
                 way |-> IF Kind[l] = "full" THEN NoWay ELSE [held |-> h \o <<m>>]]
  BY FedTwo
<1>2. [held |-> h \o <<m>>] # NoWay
  BY WayIsSome
<1> HIDE DEF fed
<1>3. Restorable(fed)
  <2> SUFFICES ASSUME NEW l \in Layers PROVE fed[l].way # NoWay \/ Trimmable(l, fed[l])
    BY DEF Restorable
  <2>1. CASE Kind[l] = "full"
    BY <2>1 DEF Trimmable
  <2>2. CASE Kind[l] # "full"
    <3>1. fed[l] = [held |-> h \o <<m, d>>, way |-> [held |-> h \o <<m>>]]
      BY <2>2, <1>1, Zenon
    <3>2. fed[l].way = [held |-> h \o <<m>>]
      BY <3>1, RecordOf, Zenon
    <3> QED
      BY <3>2, <1>2, Zenon
  <2> QED
    BY <2>1, <2>2
<1>4. SubSeq(h \o <<m, d>>, 1, Len(h \o <<m, d>>) - 1) = Append(h, m) /\ h \o <<m>> = Append(h, m)
  <2>1. Len(h \o <<m, d>>) - 1 = Len(h) + 1
    BY PrefixOfTwo
  <2> QED
    BY <2>1, PrefixOfTwo
<1>5. \A l \in Layers : (IF Trimmable(l, fed[l]) THEN SubSeq(fed[l].held, 1, Len(fed[l].held) - 1)
                         ELSE fed[l].way.held) = Append(h, m)
  <2> TAKE l \in Layers
  <2>0. fed[l].held = h \o <<m, d>> /\ (Kind[l] # "full" => fed[l].way.held = h \o <<m>>)
    <3>1. CASE Kind[l] = "full"
      <4>1. fed[l] = [held |-> h \o <<m, d>>, way |-> NoWay]
        BY <3>1, <1>1, Zenon
      <4> QED
        BY <3>1, <4>1
    <3>2. CASE Kind[l] # "full"
      <4>1. fed[l] = [held |-> h \o <<m, d>>, way |-> [held |-> h \o <<m>>]]
        BY <3>2, <1>1, Zenon
      <4> QED
        BY <4>1
    <3> QED
      BY <3>1, <3>2
  <2>1. CASE Trimmable(l, fed[l])
    BY <2>1, <2>0, <1>4
  <2>2. CASE ~Trimmable(l, fed[l])
    <3>1. Kind[l] # "full"
      BY <2>2 DEF Trimmable
    <3> QED
      BY <2>2, <3>1, <2>0, <1>4
  <2> QED
    BY <2>1, <2>2
<1>6. RestoredLayers(fed) = Holding(Append(h, m))
  BY <1>5 DEF RestoredLayers, Holding
<1> QED
  BY <1>3, <1>6 DEF fed

LEMMA Committed ==
  ASSUME NEW h, NEW t PROVE Commit(Holding(h), t) = Holding(Append(h, t))
BY DEF Commit, Holding

LEMMA SightIsPlain ==
  ASSUME NEW h, NEW toks, layers = Holding(h)
  PROVE  Sight(toks, h \o toks) = PlainSight(h \o toks)
BY DEF Sight, PlainSight, Holding

-----------------------------------------------------------------------------
(* The answers.                                                            *)

LEMMA AskedExtends ==
  ASSUME NEW sights, Asked(sights), \A s \in DOMAIN oracle : oracle[s] \subseteq Tokens
  PROVE  /\ Extends(oracle') /\ sights \subseteq DOMAIN oracle'
         /\ \A s \in DOMAIN oracle' : oracle'[s] \subseteq Tokens
<1>1. PICK new \in [sights \ DOMAIN oracle -> Supports] :
        oracle' = [s \in DOMAIN oracle \cup sights |->
                     IF s \in DOMAIN oracle THEN oracle[s] ELSE new[s]]
  BY DEF Asked
<1>2. \A s \in sights \ DOMAIN oracle : new[s] \subseteq Tokens
  BY DEF Supports
<1>3. DOMAIN oracle' = DOMAIN oracle \cup sights
  BY <1>1
<1>4. \A s \in DOMAIN oracle : oracle'[s] = oracle[s]
  BY <1>1
<1>5. \A s \in sights \ DOMAIN oracle : oracle'[s] = new[s]
  BY <1>1
<1> QED
  BY <1>2, <1>3, <1>4, <1>5 DEF Extends

LEMMA StillPossible ==
  ASSUME NEW answers, Extends(answers), NEW toks, NEW token, Possible(oracle, toks, token)
  PROVE  Possible(answers, toks, token)
BY DEF Extends, Possible

LEMMA StillSound ==
  ASSUME NEW answers, Extends(answers), NEW toks, Sound(oracle, toks)
  PROVE  Sound(answers, toks)
BY StillPossible DEF Sound

LEMMA SoundAppend ==
  ASSUME NEW answers, NEW toks \in Seq(Tokens), NEW token \in Tokens,
         Sound(answers, toks), Possible(answers, toks, token)
  PROVE  Append(toks, token) \in Seq(Tokens) /\ Sound(answers, Append(toks, token))
<1> DEFINE longer == Append(toks, token)
<1>1. /\ longer \in Seq(Tokens) /\ Len(longer) = Len(toks) + 1
      /\ longer[Len(toks) + 1] = token /\ \A i \in 1..Len(toks) : longer[i] = toks[i]
  OBVIOUS
<1>2. \A n \in 0..Len(toks) : SubSeq(longer, 1, n) = SubSeq(toks, 1, n)
  <2> TAKE n \in 0..Len(toks)
  <2> DEFINE u == SubSeq(longer, 1, n)  v == SubSeq(toks, 1, n)
  <2>1. u \in Seq(Tokens) /\ v \in Seq(Tokens) /\ Len(u) = n /\ Len(v) = n
    OBVIOUS
  <2>2. \A i \in 1..n : u[i] = v[i]
    OBVIOUS
  <2> HIDE DEF u, v
  <2>3. u = v
    BY <2>1, <2>2, SeqEqual
  <2> QED
    BY <2>3 DEF u, v
<1>3. SubSeq(toks, 1, Len(toks)) = toks
  OBVIOUS
<1> HIDE DEF longer
<1>4. Sound(answers, longer)
  <2> SUFFICES ASSUME NEW i \in 1..Len(longer)
               PROVE  Possible(answers, SubSeq(longer, 1, i - 1), longer[i])
    BY DEF Sound
  <2>1. CASE i = Len(toks) + 1
    <3>1. SubSeq(longer, 1, i - 1) = toks
      BY <2>1, <1>2, <1>3
    <3> QED
      BY <3>1, <2>1, <1>1
  <2>2. CASE i # Len(toks) + 1
    <3>1. i \in 1..Len(toks)
      BY <2>2, <1>1
    <3>2. SubSeq(longer, 1, i - 1) = SubSeq(toks, 1, i - 1) /\ longer[i] = toks[i]
      BY <3>1, <1>1, <1>2
    <3> QED
      BY <3>1, <3>2 DEF Sound
  <2> QED
    BY <2>1, <2>2
<1> QED
  BY <1>1, <1>4 DEF longer

-----------------------------------------------------------------------------
(* What a sent token leaves.                                               *)

LEMMA EmitStep ==
  ASSUME NEW st \in States, NEW h, NEW token, NEW cached \in BOOLEAN,
         place = "decoding", Emit(st, Holding(h), token, cached),
         h = IF cached THEN Append(emitted, token) ELSE emitted
  PROVE  /\ emitted' = Append(emitted, token)
         /\ \/ place' = "finished" /\ mtp' = Off /\ layers' = Holding(emitted')
            \/ /\ place' = "decoding" /\ layers' = Holding(h)
               /\ mtp' = [st EXCEPT !.uncached = IF cached THEN NoToken ELSE token]
<1>1. emitted' = Append(emitted, token)
  BY DEF Emit
<1>2. CASE Last(token)
  <2>1. place' = "finished" /\ mtp' = Off
    BY <1>2 DEF Emit
  <2>2. CASE cached
    BY <1>1, <1>2, <2>1, <2>2 DEF Emit
  <2>3. CASE ~cached
    <3>1. layers' = Commit(Holding(h), token)
      BY <1>2, <2>3 DEF Emit
    <3> QED
      BY <1>1, <2>1, <2>3, <3>1, Committed
  <2> QED
    BY <2>2, <2>3
<1>3. CASE ~Last(token)
  BY <1>1, <1>3 DEF Emit
<1> QED
  BY <1>2, <1>3

LEMMA Queues ==
  ASSUME NEW a \in Entries, NEW b \in Entries
  PROVE  /\ <<a, b>> \in Seq(Entries) /\ Head(<<a, b>>) = a /\ Tail(<<a, b>>) = <<b>>
         /\ <<a>> \in Seq(Entries) /\ Head(<<a>>) = a /\ Tail(<<a>>) = <<>>
         /\ <<a>> # <<>>
OBVIOUS

\* A cached token is sent, and the main token after it is queued.
LEMMA SendTwo ==
  ASSUME NEW st \in States, NEW first \in Tokens, DecodeAssumption,
         st.on, st.main \in Tokens, st.draft \in Tokens,
         st.queue = << [token |-> first, cached |-> TRUE], [token |-> st.main, cached |-> FALSE] >>,
         emitted \in Seq(Tokens), place = "decoding",
         SendFirst(st, Holding(Append(emitted, first))),
         context' = Append(emitted, first),
         Possible(oracle', Append(emitted, first), st.main)
  PROVE  /\ emitted' = Append(emitted, first) /\ mtp' \in States
         /\ \/ place' = "finished" /\ layers' = Holding(emitted')
            \/ place' = "decoding" /\ Waiting'
<1> DEFINE rest == [st EXCEPT !.queue = Tail(@)]
           main == [token |-> st.main, cached |-> FALSE]
<1>1. /\ Head(st.queue) = [token |-> first, cached |-> TRUE] /\ Tail(st.queue) = <<main>>
      /\ <<main>> \in Seq(Entries)
  <2>1. [token |-> first, cached |-> TRUE] \in Entries /\ main \in Entries
    BY DEF Entries
  <2> HIDE DEF main
  <2>2. /\ Head(<<[token |-> first, cached |-> TRUE], main>>) = [token |-> first, cached |-> TRUE]
        /\ Tail(<<[token |-> first, cached |-> TRUE], main>>) = <<main>>
        /\ <<main>> \in Seq(Entries)
    BY <2>1, Queues
  <2> QED
    BY <2>2 DEF main
<1>2. Head(st.queue).token = first /\ Head(st.queue).cached = TRUE
  BY <1>1
<1>3. rest = [st EXCEPT !.queue = <<main>>] /\ rest \in States
  BY <1>1 DEF States
<1>4. Emit(rest, Holding(Append(emitted, first)), first, TRUE)
  BY <1>2 DEF SendFirst
<1> HIDE DEF rest
<1>5. /\ emitted' = Append(emitted, first)
      /\ \/ place' = "finished" /\ mtp' = Off /\ layers' = Holding(emitted')
         \/ /\ place' = "decoding" /\ layers' = Holding(Append(emitted, first))
            /\ mtp' = [rest EXCEPT !.uncached = NoToken]
  BY <1>3, <1>4, EmitStep
<1>6. CASE place' = "finished" /\ mtp' = Off /\ layers' = Holding(emitted')
  <2>1. Off \in States
    BY DEF Off, States, Entries
  <2> QED
    BY <1>5, <1>6, <2>1
<1>7. CASE /\ place' = "decoding" /\ layers' = Holding(Append(emitted, first))
           /\ mtp' = [rest EXCEPT !.uncached = NoToken]
  <2>1. /\ mtp' \in States /\ mtp'.on /\ mtp'.queue = <<main>> /\ mtp'.uncached = NoToken
        /\ mtp'.main = st.main /\ mtp'.draft = st.draft
    BY <1>3, <1>7 DEF States
  <2>2. Waiting'
    BY <2>1, <1>5, <1>7 DEF Waiting
  <2> QED
    BY <1>5, <1>7, <2>1, <2>2
<1> QED
  BY <1>5, <1>6, <1>7

\* The main token is sent before it is fed.
LEMMA SendOne ==
  ASSUME NEW st \in States, DecodeAssumption,
         st.on, st.main \in Tokens, st.draft \in Tokens,
         st.queue = << [token |-> st.main, cached |-> FALSE] >>,
         emitted \in Seq(Tokens), place = "decoding",
         SendFirst(st, Holding(emitted)), context' = emitted
  PROVE  /\ emitted' = Append(emitted, st.main) /\ mtp' \in States
         /\ \/ place' = "finished" /\ layers' = Holding(emitted')
            \/ place' = "decoding" /\ Drafting'
<1> DEFINE rest == [st EXCEPT !.queue = Tail(@)]
           main == [token |-> st.main, cached |-> FALSE]
<1>1. Head(st.queue) = main /\ Tail(st.queue) = <<>> /\ <<>> \in Seq(Entries)
  BY Queues DEF Entries
<1>2. Head(st.queue).token = st.main /\ Head(st.queue).cached = FALSE
  BY <1>1
<1>3. rest = [st EXCEPT !.queue = <<>>] /\ rest \in States
  BY <1>1 DEF States
<1>4. Emit(rest, Holding(emitted), st.main, FALSE)
  BY <1>2 DEF SendFirst
<1> HIDE DEF rest
<1>5. /\ emitted' = Append(emitted, st.main)
      /\ \/ place' = "finished" /\ mtp' = Off /\ layers' = Holding(emitted')
         \/ /\ place' = "decoding" /\ layers' = Holding(emitted)
            /\ mtp' = [rest EXCEPT !.uncached = st.main]
  BY <1>3, <1>4, EmitStep
<1>6. CASE place' = "finished" /\ mtp' = Off /\ layers' = Holding(emitted')
  <2>1. Off \in States
    BY DEF Off, States, Entries
  <2> QED
    BY <1>5, <1>6, <2>1
<1>7. CASE /\ place' = "decoding" /\ layers' = Holding(emitted)
           /\ mtp' = [rest EXCEPT !.uncached = st.main]
  <2>1. /\ mtp' \in States /\ mtp'.on /\ mtp'.queue = <<>> /\ mtp'.uncached = st.main
        /\ mtp'.main = st.main /\ mtp'.draft = st.draft
    BY <1>3, <1>7 DEF States
  <2>2. Drafting'
    BY <2>1, <1>5, <1>7 DEF Drafting
  <2> QED
    BY <1>5, <1>7, <2>1, <2>2
<1> QED
  BY <1>5, <1>6, <1>7

-----------------------------------------------------------------------------
(* The steps.  Each says what it sends and how the answers grow.           *)

LEMMA DecodeInit0 == DecodeAssumption /\ DecodeInit => DecodeInv
<1> SUFFICES ASSUME DecodeAssumption, DecodeInit PROVE DecodeInv
  OBVIOUS
<1>1. Off \in States /\ <<>> \in Seq(Tokens) /\ Len(<<>>) = 0
  BY DEF Off, States, Entries
<1>2. Sound(oracle, emitted)
  BY <1>1 DEF DecodeInit, Sound
<1> QED
  BY <1>1, <1>2 DEF DecodeInit, DecodeInv, Holding

LEMMA ArriveKeeps ==
  ASSUME DecodeAssumption, DecodeInv, Arrive PROVE DecodeInv'
<1>1. /\ emitted = <<>> /\ context = <<>> /\ mtp = Off /\ layers = Holding(<<>>)
      /\ emitted' = emitted /\ context' = context /\ mtp' = mtp /\ layers' = layers
      /\ place' = "decoding"
  BY DEF Arrive, DecodeInv
<1>2. PICK answer \in (SUBSET Tokens) \ {{}} :
        oracle' = [s \in {Sight(<<>>, <<>>)} |-> answer] /\ pending' \in answer
  BY DEF Arrive
<1>3. Sight(<<>>, <<>>) = PlainSight(<<>>)
  <2>1. <<>> \o <<>> = <<>>
    OBVIOUS
  <2>2. Sight(<<>>, <<>> \o <<>>) = PlainSight(<<>> \o <<>>)
    BY <1>1, SightIsPlain
  <2> QED
    BY <2>1, <2>2
<1>4. Possible(oracle', <<>>, pending')
  BY <1>2, <1>3 DEF Possible
<1>5. Ordinary'
  BY <1>1, <1>2, <1>4 DEF Ordinary, Off
<1>6. Sound(oracle', <<>>)
  BY DEF Sound
<1>7. \A s \in DOMAIN oracle' : oracle'[s] \subseteq Tokens
  BY <1>2
<1> QED
  BY <1>1, <1>5, <1>6, <1>7 DEF DecodeInv

LEMMA PlainKeeps ==
  ASSUME NEW enabled, DecodeAssumption, DecodeInv, Plain(enabled) PROVE DecodeInv'
<1>1. Ordinary /\ place = "decoding" /\ emitted \in Seq(Tokens)
  BY DEF Plain, DecodeInv, Waiting, Drafting
<1> DEFINE h == Append(emitted, pending)
<1>2. Sight(<<pending>>, Append(context, pending)) = PlainSight(h) /\ h \in Seq(Tokens)
  <2>1. emitted \o <<pending>> = h /\ context = emitted
    BY <1>1 DEF Ordinary
  <2>2. Sight(<<pending>>, emitted \o <<pending>>) = PlainSight(emitted \o <<pending>>)
    BY <1>1, SightIsPlain DEF Ordinary
  <2>3. h \in Seq(Tokens)
    BY <1>1 DEF Ordinary
  <2> QED
    BY <2>1, <2>2, <2>3
<1>3. Asked({PlainSight(h)}) /\ pending' \in oracle'[PlainSight(h)] /\ context' = h
  BY <1>1, <1>2 DEF Plain, Ordinary
<1>4. /\ Extends(oracle') /\ PlainSight(h) \in DOMAIN oracle'
      /\ \A s \in DOMAIN oracle' : oracle'[s] \subseteq Tokens
  BY <1>3, AskedExtends DEF DecodeInv
<1>5. Possible(oracle', h, pending') /\ pending' \in Tokens
  BY <1>3, <1>4 DEF Possible
<1>6. Sound(oracle', h)
  <2>1. Sound(oracle', emitted)
    BY <1>4, StillSound DEF DecodeInv
  <2>2. Possible(oracle', emitted, pending)
    BY <1>1, <1>4, StillPossible DEF Ordinary
  <2> QED
    BY <1>1, <2>1, <2>2, SoundAppend DEF Ordinary
<1>7. Emit(Off, Holding(h), pending, TRUE)
  BY <1>1, FedOne DEF Plain, Ordinary
<1>8. Off \in States
  BY DEF Off, States, Entries
<1>9. /\ emitted' = h /\ mtp' \in States
      /\ \/ place' = "finished" /\ layers' = Holding(emitted')
         \/ place' = "decoding" /\ layers' = Holding(h) /\ ~mtp'.on
  <2>1. /\ emitted' = h
        /\ \/ place' = "finished" /\ mtp' = Off /\ layers' = Holding(emitted')
           \/ /\ place' = "decoding" /\ layers' = Holding(h)
              /\ mtp' = [Off EXCEPT !.uncached = NoToken]
    BY <1>1, <1>7, <1>8, EmitStep
  <2>2. [Off EXCEPT !.uncached = NoToken] \in States /\ ~[Off EXCEPT !.uncached = NoToken].on
    BY <1>8 DEF Off, States
  <2> QED
    BY <1>8, <2>1, <2>2
<1> HIDE DEF h
<1>10. CASE place' = "finished" /\ layers' = Holding(emitted')
  BY <1>2, <1>4, <1>6, <1>9, <1>10 DEF DecodeInv
<1>11. CASE place' = "decoding" /\ layers' = Holding(h) /\ ~mtp'.on
  <2>1. Ordinary'
    BY <1>3, <1>5, <1>9, <1>11 DEF Ordinary
  <2> QED
    BY <1>2, <1>4, <1>6, <1>9, <1>11, <2>1 DEF DecodeInv
<1> QED
  BY <1>9, <1>10, <1>11

LEMMA ActivateKeeps ==
  ASSUME NEW enabled, DecodeAssumption, DecodeInv, Activate(enabled) PROVE DecodeInv'
<1>1. Ordinary /\ place = "decoding" /\ emitted \in Seq(Tokens)
  BY DEF Activate, DecodeInv, Waiting, Drafting
<1> DEFINE h == Append(emitted, pending)
<1>2. Sight(<<pending>>, Append(context, pending)) = PlainSight(h) /\ h \in Seq(Tokens)
  <2>1. emitted \o <<pending>> = h /\ context = emitted
    BY <1>1 DEF Ordinary
  <2>2. Sight(<<pending>>, emitted \o <<pending>>) = PlainSight(emitted \o <<pending>>)
    BY <1>1, SightIsPlain DEF Ordinary
  <2>3. h \in Seq(Tokens)
    BY <1>1 DEF Ordinary
  <2> QED
    BY <2>1, <2>2, <2>3
<1>3. Fed(<<pending>>, 0, FALSE) = Holding(h)
  BY <1>1, FedOne DEF Ordinary
<1>4. PICK main \in oracle'[PlainSight(h)], draft \in Tokens :
        SendFirst([Off EXCEPT !.on = TRUE, !.main = main, !.draft = draft,
                              !.queue = << [token |-> pending, cached |-> TRUE],
                                           [token |-> main, cached |-> FALSE] >>],
                  Holding(h))
  BY <1>2, <1>3 DEF Activate, Drafts
<1>5. Asked({PlainSight(h)}) /\ context' = h
  BY <1>1, <1>2 DEF Activate, Ordinary
<1>6. /\ Extends(oracle') /\ PlainSight(h) \in DOMAIN oracle'
      /\ \A s \in DOMAIN oracle' : oracle'[s] \subseteq Tokens
  BY <1>5, AskedExtends DEF DecodeInv
<1>7. Possible(oracle', h, main) /\ main \in Tokens
  BY <1>4, <1>6 DEF Possible
<1>8. Sound(oracle', h)
  <2>1. Sound(oracle', emitted)
    BY <1>6, StillSound DEF DecodeInv
  <2>2. Possible(oracle', emitted, pending)
    BY <1>1, <1>6, StillPossible DEF Ordinary
  <2> QED
    BY <1>1, <2>1, <2>2, SoundAppend DEF Ordinary
<1> DEFINE st == [Off EXCEPT !.on = TRUE, !.main = main, !.draft = draft,
                             !.queue = << [token |-> pending, cached |-> TRUE],
                                          [token |-> main, cached |-> FALSE] >>]
<1>9. SendFirst(st, Holding(h))
  BY <1>4
<1>10. pending \in Tokens
  BY <1>1 DEF Ordinary
<1>11. << [token |-> pending, cached |-> TRUE], [token |-> main, cached |-> FALSE] >> \in Seq(Entries)
  <2>1. [token |-> pending, cached |-> TRUE] \in Entries /\ [token |-> main, cached |-> FALSE] \in Entries
    BY <1>7, <1>10 DEF Entries
  <2> QED
    BY <2>1, Queues
<1>12. /\ st \in States /\ st.on /\ st.main = main /\ st.draft = draft
       /\ st.queue = << [token |-> pending, cached |-> TRUE], [token |-> st.main, cached |-> FALSE] >>
  <2>1. Off \in States
    BY DEF Off, States, Entries
  <2> QED
    BY <1>4, <1>7, <1>11, <2>1 DEF States
<1> HIDE DEF st
<1>13. /\ emitted' = h /\ mtp' \in States
       /\ \/ place' = "finished" /\ layers' = Holding(emitted')
          \/ place' = "decoding" /\ Waiting'
  BY <1>1, <1>5, <1>7, <1>9, <1>10, <1>12, SendTwo
<1> HIDE DEF h
<1> QED
  BY <1>2, <1>6, <1>8, <1>13 DEF DecodeInv

LEMMA QueuedKeeps ==
  ASSUME DecodeAssumption, DecodeInv, Queued PROVE DecodeInv'
<1>1. /\ Waiting /\ place = "decoding" /\ emitted \in Seq(Tokens) /\ mtp \in States
      /\ mtp.on = TRUE
  BY DEF Queued, DecodeInv, Ordinary, Drafting, Off, States
<1>2. SendFirst(mtp, Holding(emitted)) /\ context' = emitted /\ oracle' = oracle
  BY <1>1 DEF Queued, Waiting
<1>3. /\ emitted' = Append(emitted, mtp.main) /\ mtp' \in States
      /\ \/ place' = "finished" /\ layers' = Holding(emitted')
         \/ place' = "decoding" /\ Drafting'
  BY <1>1, <1>2, SendOne DEF Waiting
<1>4. emitted' \in Seq(Tokens) /\ Sound(oracle, emitted')
  BY <1>1, <1>3, SoundAppend DEF Waiting, DecodeInv
<1> QED
  BY <1>2, <1>3, <1>4 DEF DecodeInv

LEMMA CancelKeeps ==
  ASSUME DecodeAssumption, DecodeInv, Cancel PROVE DecodeInv'
<1>1. /\ place' = "finished" /\ mtp' = Off /\ emitted' = emitted /\ oracle' = oracle
      /\ layers' = IF mtp.on /\ mtp.uncached # NoToken THEN Commit(layers, mtp.uncached) ELSE layers
  BY DEF Cancel
<1>2. layers' = Holding(emitted)
  <2>1. CASE Ordinary
    BY <1>1, <2>1 DEF Ordinary, Off
  <2>2. CASE Waiting
    BY <1>1, <2>2 DEF Waiting
  <2>3. CASE Drafting
    <3>1. PICK before \in Seq(Tokens) : emitted = Append(before, mtp.main) /\ layers = Holding(before)
      BY <2>3 DEF Drafting
    <3>2. mtp.on /\ mtp.uncached = mtp.main /\ mtp.main # NoToken
      BY <2>3 DEF Drafting, DecodeAssumption
    <3> QED
      BY <1>1, <3>1, <3>2, Committed
  <2> QED
    BY <2>1, <2>2, <2>3 DEF DecodeInv, Cancel
<1>3. Off \in States
  BY DEF Off, States, Entries
<1> QED
  BY <1>1, <1>2, <1>3 DEF DecodeInv

-----------------------------------------------------------------------------
(* The verify cycle.                                                       *)

\* A step of a draft that is verified: the cache before it, and what was asked.
LEMMA VerifyStart ==
  ASSUME DecodeAssumption, DecodeInv, Verify
  PROVE  /\ place = "decoding" /\ mtp.on /\ mtp \in States
         /\ mtp.main \in Tokens /\ mtp.draft \in Tokens
         /\ \E before \in Seq(Tokens) :
              emitted = Append(before, mtp.main) /\ layers = Holding(before) /\ context = before
BY DEF Verify, DecodeInv, Ordinary, Waiting, Drafting, Off

LEMMA VerifyKeeps ==
  ASSUME DecodeAssumption, DecodeInv, Verify PROVE DecodeInv'
<1>1. /\ place = "decoding" /\ mtp.on /\ mtp \in States
      /\ mtp.main \in Tokens /\ mtp.draft \in Tokens /\ emitted \in Seq(Tokens)
  BY VerifyStart DEF DecodeInv
<1>2. PICK before \in Seq(Tokens) :
        emitted = Append(before, mtp.main) /\ layers = Holding(before) /\ context = before
  BY VerifyStart
<1> DEFINE main == mtp.main  draft == mtp.draft
           fed == Fed(<<main, draft>>, 1, TRUE)
           h == Append(emitted, draft)
<1>3. /\ before \o <<main, draft>> = h /\ before \o <<main>> = emitted /\ h \in Seq(Tokens)
      /\ AfterMain = emitted /\ AfterDraft = h
  <2>1. before \o <<main, draft>> = h /\ before \o <<main>> = emitted
    BY <1>1, <1>2, PrefixOfTwo
  <2>2. emitted \o <<draft>> = h /\ h \in Seq(Tokens)
    BY <1>1
  <2> QED
    BY <1>2, <2>1, <2>2 DEF AfterMain, AfterDraft
<1>4. VerifySight = PlainSight(emitted) /\ BonusSight = PlainSight(h)
  <2>1. Sight(<<main>>, before \o <<main>>) = PlainSight(before \o <<main>>)
    BY <1>2, SightIsPlain
  <2>2. Sight(<<main, draft>>, before \o <<main, draft>>) = PlainSight(before \o <<main, draft>>)
    BY <1>2, SightIsPlain
  <2> QED
    BY <1>3, <2>1, <2>2 DEF VerifySight, BonusSight, Verified
<1>5. /\ Extends(oracle') /\ PlainSight(emitted) \in DOMAIN oracle'
      /\ PlainSight(h) \in DOMAIN oracle'
      /\ \A s \in DOMAIN oracle' : oracle'[s] \subseteq Tokens
  <2>1. Asked({PlainSight(emitted), PlainSight(h)})
    BY <1>4 DEF Verify
  <2> QED
    BY <2>1, AskedExtends DEF DecodeInv
<1>6. Sound(oracle', emitted)
  BY <1>5, StillSound DEF DecodeInv
<1>7. Accept(fed) \/ (Restorable(fed) /\ Reject(fed)) \/ Stuck(fed)
  BY DEF Verify, Verified
<1>8. CASE Accept(fed)
  <2>1. Possible(oracle', emitted, draft)
    BY <1>4, <1>5, <1>8 DEF Accept, Accepted, Possible
  <2>2. Sound(oracle', h)
    BY <1>1, <1>6, <2>1, SoundAppend
  <2>3. Cleared(fed) = Holding(h)
    <3>1. Cleared(fed) = Holding(before \o <<main, draft>>)
      BY <1>1, <1>2, ClearedTwo
    <3> HIDE DEF fed, h
    <3> QED
      BY <1>3, <3>1
  <2>4. PICK bonus \in oracle'[PlainSight(h)], next \in Tokens :
          SendFirst([mtp EXCEPT !.main = bonus, !.draft = next,
                             !.queue = << [token |-> draft, cached |-> TRUE],
                                          [token |-> bonus, cached |-> FALSE] >>],
                    Holding(h))
    BY <1>4, <1>8, <2>3 DEF Accept, Drafts
  <2>5. Possible(oracle', h, bonus) /\ bonus \in Tokens
    BY <1>5, <2>4 DEF Possible
  <2> DEFINE st == [mtp EXCEPT !.main = bonus, !.draft = next,
                             !.queue = << [token |-> draft, cached |-> TRUE],
                                          [token |-> bonus, cached |-> FALSE] >>]
  <2>6. << [token |-> draft, cached |-> TRUE], [token |-> bonus, cached |-> FALSE] >> \in Seq(Entries)
    <3>1. [token |-> draft, cached |-> TRUE] \in Entries /\ [token |-> bonus, cached |-> FALSE] \in Entries
      BY <1>1, <2>5 DEF Entries
    <3> QED
      BY <3>1, Queues
  <2>7. /\ st \in States /\ st.on /\ st.main = bonus /\ st.draft = next
        /\ st.queue = << [token |-> draft, cached |-> TRUE], [token |-> st.main, cached |-> FALSE] >>
    BY <1>1, <2>4, <2>5, <2>6 DEF States
  <2>8. SendFirst(st, Holding(h))
    BY <2>4
  <2>9. context' = h
    BY <1>3, <1>8 DEF Accept
  <2> HIDE DEF st
  <2>10. /\ emitted' = h /\ mtp' \in States
         /\ \/ place' = "finished" /\ layers' = Holding(emitted')
            \/ place' = "decoding" /\ Waiting'
    BY <1>1, <2>4, <2>5, <2>7, <2>8, <2>9, SendTwo
  <2> HIDE DEF h
  <2> QED
    BY <1>3, <1>5, <2>2, <2>10 DEF DecodeInv
<1>9. CASE Restorable(fed) /\ Reject(fed)
  <2>1. RestoredLayers(fed) = Holding(emitted)
    BY <1>1, <1>2, RestoredTwo
  <2>2. PICK token \in oracle'[PlainSight(emitted)] \ {draft}, next \in Tokens :
          SendFirst([mtp EXCEPT !.main = token, !.draft = next,
                             !.queue = << [token |-> token, cached |-> FALSE] >>],
                    Holding(emitted))
    BY <1>4, <1>9, <2>1 DEF Reject, Residual, Drafts
  <2>3. Possible(oracle', emitted, token) /\ token \in Tokens
    BY <1>5, <2>2 DEF Possible
  <2>4. Append(emitted, token) \in Seq(Tokens) /\ Sound(oracle', Append(emitted, token))
    BY <1>1, <1>6, <2>3, SoundAppend
  <2> DEFINE st == [mtp EXCEPT !.main = token, !.draft = next,
                             !.queue = << [token |-> token, cached |-> FALSE] >>]
  <2>5. << [token |-> token, cached |-> FALSE] >> \in Seq(Entries)
    BY <2>3 DEF Entries
  <2>6. /\ st \in States /\ st.on /\ st.main = token /\ st.draft = next
        /\ st.queue = << [token |-> st.main, cached |-> FALSE] >>
    BY <1>1, <2>2, <2>3, <2>5 DEF States
  <2>7. SendFirst(st, Holding(emitted)) /\ context' = emitted
    BY <1>3, <1>9, <2>2 DEF Reject
  <2> HIDE DEF st
  <2>8. /\ emitted' = Append(emitted, token) /\ mtp' \in States
        /\ \/ place' = "finished" /\ layers' = Holding(emitted')
           \/ place' = "decoding" /\ Drafting'
    BY <1>1, <2>2, <2>3, <2>6, <2>7, SendOne
  <2> QED
    BY <1>5, <2>4, <2>8 DEF DecodeInv
<1>10. CASE Stuck(fed)
  <2>1. Restorable(fed)
    BY <1>1, <1>2, RestoredTwo
  <2> QED
    BY <1>10, <2>1 DEF Stuck
<1> QED
  BY <1>7, <1>8, <1>9, <1>10

LEMMA DecodeKeeps ==
  ASSUME DecodeAssumption, DecodeInv, [Next]_vars PROVE DecodeInv'
<1>1. CASE UNCHANGED decodeVars
  BY <1>1 DEF decodeVars, DecodeInv, Ordinary, Waiting, Drafting, Sound, Possible
<1>2. CASE Arrive
  BY <1>2, ArriveKeeps
<1>3. CASE Others
  BY <1>3 DEF Others, DecodeInv, Ordinary, Waiting, Drafting, Sound, Possible
<1>4. CASE Plain(Enabled)
  BY <1>4, PlainKeeps
<1>5. CASE Activate(Enabled)
  BY <1>5, ActivateKeeps
<1>6. CASE Queued
  BY <1>6, QueuedKeeps
<1>7. CASE Verify
  BY <1>7, VerifyKeeps
<1>8. CASE Cancel
  BY <1>8, CancelKeeps
<1> QED
  BY <1>1, <1>2, <1>3, <1>4, <1>5, <1>6, <1>7, <1>8 DEF Next, Prepare, Decode, DecodeNext, vars

LEMMA DecodeSafe == Spec => []DecodeInv
<1>1. Init => DecodeInv
  BY DecodeInit0, DecodeAssumption DEF Init
<1>2. DecodeInv /\ [Next]_vars => DecodeInv'
  BY DecodeKeeps, DecodeAssumption
<1> QED
  BY <1>1, <1>2, PTL DEF Spec

(* Speculation shows in no token, however many tokens, layers and drafts   *)
(* there are (_verify_cycle).                                              *)
THEOREM SpeculationUnseen == Spec => []EmittedAsPlain
<1>1. DecodeInv => EmittedAsPlain
  <2> SUFFICES ASSUME DecodeInv, NEW i \in 1..Len(emitted)
               PROVE  Possible(oracle, SubSeq(emitted, 1, i - 1), emitted[i])
    BY DEF EmittedAsPlain, Possible
  <2> QED
    BY DEF DecodeInv, Sound
<1> QED
  BY <1>1, DecodeSafe, PTL

(* No rejected draft fails to be undone, and a response that ends leaves   *)
(* in every layer what was sent, whatever kinds of layers the model has    *)
(* and however short the window (restore_after_rejection, _emit).          *)
THEOREM CacheFollows == Spec => []CacheIsEmitted
<1>1. DecodeInv => CacheIsEmitted
  BY DEF DecodeInv, CacheIsEmitted, Holding
<1> QED
  BY <1>1, DecodeSafe, PTL

-----------------------------------------------------------------------------
(* The start.                                                              *)

Places == {"new", "agree", "final", "installing", "status", "prepared", "loaded", "barrier",
           "serving", "failed"}
Collectives == {"agree", "final", "status"}
Succeeded(r) == sent["status"][r] = <<"success">>

StartTyped ==
  /\ rank \in [Ranks -> Places]
  /\ DOMAIN decision = Ranks /\ \A r \in Ranks : decision[r].enabled \in BOOLEAN
  /\ sent = [c \in Collectives |-> [r \in Ranks |-> sent[c][r]]]
  /\ namespace \in [Ranks -> [Attributes -> {"original", "patched"}]]
  /\ DOMAIN changes = Ranks
  /\ \A r \in Ranks : /\ DOMAIN changes[r] \subseteq Attributes
                     /\ changes[r] \in [DOMAIN changes[r] -> {"original", "patched"}]

\* What has been set in mlx-lm is what the transaction knows.
Recorded(r) ==
  \A a \in Attributes :
    namespace[r][a] = IF a \in DOMAIN changes[r] THEN "patched" ELSE "original"

\* How far a rank is, and what that says of it and of the others.
Standing(r) ==
  /\ rank[r] \in {"new", "agree", "final"} =>
       namespace[r] = Original /\ changes[r] = NoChanges /\ ~Succeeded(r)
  /\ rank[r] \in {"final", "installing", "status"} => decision[r].enabled
  /\ rank[r] = "installing" => Recorded(r) /\ ~Succeeded(r)
  /\ Succeeded(r) /\ rank[r] # "failed" =>
       /\ rank[r] = "status" \/ Past(r)
       /\ decision[r].enabled /\ namespace[r] = AllPatched
  /\ Past(r) /\ decision[r].enabled => \A s \in Ranks : Succeeded(s)
  /\ Past(r) /\ ~decision[r].enabled => namespace[r] = Original

StartupInv == StartTyped /\ \A r \in Ranks : Standing(r)

\* A rank whose last patch is in has them all.
LEMMA AllOfThem ==
  ASSUME StartupAssumption, StartTyped, NEW r \in Ranks, Recorded(r), NextPatch(r) > Len(Patches)
  PROVE  namespace[r] = AllPatched
<1> DEFINE n == Len(Patches)
<1>1. n \in Nat /\ DOMAIN Patches = 1..n
  BY DEF StartupAssumption
<1>2. Patches \in Surjection(1..n, Attributes)
  BY <1>1 DEF StartupAssumption, Attributes, Surjection
<1>3. IsFiniteSet(1..n) /\ Cardinality(1..n) = n
  BY <1>1, FS_Interval
<1>4. IsFiniteSet(Attributes) /\ Cardinality(Attributes) <= n
  BY <1>2, <1>3, FS_Surjection
<1>5. DOMAIN changes[r] \subseteq Attributes
  BY DEF StartTyped
<1>6. /\ IsFiniteSet(DOMAIN changes[r])
      /\ Cardinality(DOMAIN changes[r]) \in Nat /\ Cardinality(Attributes) \in Nat
      /\ Cardinality(DOMAIN changes[r]) <= Cardinality(Attributes)
      /\ Cardinality(DOMAIN changes[r]) = Cardinality(Attributes) => DOMAIN changes[r] = Attributes
  BY <1>4, <1>5, FS_Subset, FS_CardinalityType
<1>7. Cardinality(DOMAIN changes[r]) >= n
  BY <1>1, <1>6 DEF NextPatch
<1>8. DOMAIN changes[r] = Attributes
  BY <1>1, <1>4, <1>6, <1>7
<1>9. \A a \in Attributes : namespace[r][a] = "patched"
  BY <1>8 DEF Recorded
<1>10. namespace[r] \in [Attributes -> {"original", "patched"}]
  BY DEF StartTyped
<1> QED
  BY <1>9, <1>10 DEF AllPatched

LEMMA StartupInit0 == StartupInit => StartupInv
<1> SUFFICES ASSUME StartupInit PROVE StartupInv
  OBVIOUS
<1>1. \A m, c : Decision(m, c).enabled \in BOOLEAN
  BY DEF Decision
<1>2. /\ Original \in [Attributes -> {"original", "patched"}] /\ DOMAIN NoChanges = {}
      /\ NoChanges \in [{} -> {"original", "patched"}]
  BY DEF Original, NoChanges
<1>3. \A r \in Ranks : rank[r] = "new" /\ sent["status"][r] = <<>>
  BY DEF StartupInit, Nothing
<1>4. <<>> # <<"success">>
  OBVIOUS
<1>5. StartTyped
  BY <1>1, <1>2 DEF StartupInit, StartTyped, Places, Collectives
<1>6. ASSUME NEW r \in Ranks PROVE Standing(r)
  BY <1>3, <1>4 DEF StartupInit, Standing, Succeeded, Past
<1> QED
  BY <1>5, <1>6 DEF StartupInv

\* A rank falls back before it has touched anything.
LEMMA FallBackKeeps ==
  ASSUME StartupInv, NEW r \in Ranks, NEW reason, rank[r] \in {"agree", "final"},
         FallBack(r, reason), UNCHANGED <<sent, namespace, changes>>
  PROVE  StartupInv'
<1>1. /\ decision' = [decision EXCEPT ![r] = [enabled |-> FALSE, reason |-> reason]]
      /\ rank' = [rank EXCEPT ![r] = IF launch.mode = "required" THEN "failed" ELSE "prepared"]
  BY DEF FallBack, Goes
<1>2. StartTyped'
  BY <1>1 DEF StartupInv, StartTyped, Places
<1>3. rank'[r] \in {"failed", "prepared"} /\ ~decision'[r].enabled
  BY <1>1 DEF StartupInv, StartTyped
<1>4. \A s \in Ranks \ {r} : rank'[s] = rank[s] /\ decision'[s] = decision[s]
  BY <1>1 DEF StartupInv, StartTyped
<1>5. namespace[r] = Original /\ ~Succeeded(r)
  BY DEF StartupInv, Standing
<1>6. ASSUME NEW s \in Ranks PROVE Standing(s)'
  <2>1. CASE s = r
    BY <1>3, <1>5, <2>1 DEF Standing, Succeeded, Past
  <2>2. CASE s # r
    BY <1>4, <2>2 DEF StartupInv, Standing, Succeeded, Past, Recorded
  <2> QED
    BY <2>1, <2>2
<1> QED
  BY <1>2, <1>6 DEF StartupInv

\* A rank only moves on.
LEMMA MoveKeeps ==
  ASSUME StartupInv, NEW r \in Ranks, NEW to \in Places, Goes(r, to),
         UNCHANGED <<decision, sent, namespace, changes>>,
         \/ to = "failed"
         \/ rank[r] = "final" /\ to = "installing"
         \/ rank[r] = "agree" /\ to = "prepared" /\ ~decision[r].enabled
         \/ Past(r) /\ to \in {"loaded", "barrier", "serving"}
  PROVE  StartupInv'
<1>1. StartTyped' /\ rank'[r] = to /\ \A s \in Ranks \ {r} : rank'[s] = rank[s]
  BY DEF StartupInv, StartTyped, Goes
<1>2. ASSUME NEW s \in Ranks PROVE Standing(s)'
  <2>1. CASE s # r
    BY <1>1, <2>1 DEF StartupInv, Standing, Succeeded, Past, Recorded
  <2>2. CASE s = r /\ to = "failed"
    BY <1>1, <2>2 DEF StartupInv, Standing, Succeeded, Past, Recorded
  <2>3. CASE s = r /\ rank[r] = "final" /\ to = "installing"
    <3>1. Recorded(r)
      BY <2>3 DEF StartupInv, Standing, Recorded, Original, NoChanges
    <3> QED
      BY <1>1, <2>3, <3>1 DEF StartupInv, Standing, Succeeded, Past, Recorded
  <2>4. CASE s = r /\ rank[r] = "agree" /\ to = "prepared" /\ ~decision[r].enabled
    BY <1>1, <2>4 DEF StartupInv, Standing, Succeeded, Past, Recorded
  <2>5. CASE s = r /\ Past(r) /\ to \in {"loaded", "barrier", "serving"}
    BY <1>1, <2>5 DEF StartupInv, Standing, Succeeded, Past, Recorded
  <2> QED
    BY <2>1, <2>2, <2>3, <2>4, <2>5
<1> QED
  BY <1>1, <1>2 DEF StartupInv

LEMMA JoinKeeps ==
  ASSUME StartupInv, NEW r \in Ranks, JoinAgree(r) PROVE StartupInv'
<1>1. /\ rank[r] = "new" /\ rank' = [rank EXCEPT ![r] = "agree"]
      /\ sent' = [sent EXCEPT !["agree"][r] = <<Fingerprint(decision[r], files[r])>>]
      /\ decision' = decision /\ namespace' = namespace /\ changes' = changes
  BY DEF JoinAgree, Goes, Puts
<1>2. StartTyped' /\ rank'[r] = "agree" /\ \A s \in Ranks \ {r} : rank'[s] = rank[s]
  <2>1. sent' = [c \in Collectives |-> [s \in Ranks |-> sent'[c][s]]]
    BY <1>1 DEF StartupInv, StartTyped, Collectives
  <2>2. rank' \in [Ranks -> Places] /\ rank'[r] = "agree" /\ \A s \in Ranks \ {r} : rank'[s] = rank[s]
    BY <1>1 DEF StartupInv, StartTyped, Places
  <2> QED
    BY <1>1, <2>1, <2>2 DEF StartupInv, StartTyped
<1>3. \A s \in Ranks : Succeeded(s)' <=> Succeeded(s)
  BY <1>1 DEF StartupInv, StartTyped, Collectives, Succeeded
<1>4. ASSUME NEW s \in Ranks PROVE Standing(s)'
  BY <1>1, <1>2, <1>3 DEF StartupInv, Standing, Past, Recorded
<1> QED
  BY <1>2, <1>4 DEF StartupInv

LEMMA AgreedKeeps ==
  ASSUME StartupInv, NEW r \in Ranks, Agreed(r) PROVE StartupInv'
<1>1. rank[r] = "agree" /\ UNCHANGED <<namespace, changes>>
  BY DEF Agreed, Supported
<1>2. \/ \E reason : FallBack(r, reason) /\ UNCHANGED sent
      \/ /\ ~decision[r].enabled /\ UNCHANGED <<decision, sent>>
         /\ Goes(r, IF launch.mode = "required" THEN "failed" ELSE "prepared")
      \/ /\ decision[r].enabled /\ UNCHANGED decision
         /\ Goes(r, "final") /\ Puts("final", r, Fingerprint(decision[r], files[r]))
  <2>1. CASE ~Match("agree")
    BY <2>1 DEF Agreed, Supported
  <2>2. CASE Match("agree") /\ ~decision[r].enabled
    BY <2>2 DEF Agreed, Supported
  <2>3. CASE Match("agree") /\ decision[r].enabled /\ launch.concurrency # 1
    BY <2>3 DEF Agreed, Supported
  <2>4. CASE Match("agree") /\ decision[r].enabled /\ launch.concurrency = 1 /\ launch.pipeline
    BY <2>4 DEF Agreed, Supported
  <2>5. CASE /\ Match("agree") /\ decision[r].enabled /\ launch.concurrency = 1
             /\ ~launch.pipeline /\ ~Supported(r)
    BY <2>5 DEF Agreed, Supported
  <2>6. CASE /\ Match("agree") /\ decision[r].enabled /\ launch.concurrency = 1
             /\ ~launch.pipeline /\ Supported(r)
    BY <2>6 DEF Agreed, Supported
  <2> QED
    BY <2>1, <2>2, <2>3, <2>4, <2>5, <2>6
<1>3. CASE \E reason : FallBack(r, reason) /\ UNCHANGED sent
  BY <1>1, <1>3, FallBackKeeps
<1>4. CASE /\ ~decision[r].enabled /\ UNCHANGED <<decision, sent>>
           /\ Goes(r, IF launch.mode = "required" THEN "failed" ELSE "prepared")
  <2>1. CASE launch.mode = "required"
    BY <1>1, <1>4, <2>1, MoveKeeps DEF Places
  <2>2. CASE launch.mode # "required"
    BY <1>1, <1>4, <2>2, MoveKeeps DEF Places
  <2> QED
    BY <2>1, <2>2
<1>5. CASE /\ decision[r].enabled /\ UNCHANGED decision
           /\ Goes(r, "final") /\ Puts("final", r, Fingerprint(decision[r], files[r]))
  <2>1. /\ rank' = [rank EXCEPT ![r] = "final"]
        /\ sent' = [sent EXCEPT !["final"][r] = <<Fingerprint(decision[r], files[r])>>]
        /\ decision' = decision /\ namespace' = namespace /\ changes' = changes
    BY <1>1, <1>5 DEF Goes, Puts
  <2>2. StartTyped' /\ rank'[r] = "final" /\ \A s \in Ranks \ {r} : rank'[s] = rank[s]
    BY <2>1 DEF StartupInv, StartTyped, Places, Collectives
  <2>3. \A s \in Ranks : Succeeded(s)' <=> Succeeded(s)
    BY <2>1 DEF StartupInv, StartTyped, Collectives, Succeeded
  <2>4. ASSUME NEW s \in Ranks PROVE Standing(s)'
    BY <1>1, <1>5, <2>1, <2>2, <2>3 DEF StartupInv, Standing, Past, Recorded
  <2> QED
    BY <2>2, <2>4 DEF StartupInv
<1> QED
  BY <1>2, <1>3, <1>4, <1>5

LEMMA FinalKeeps ==
  ASSUME StartupInv, NEW r \in Ranks, Final(r) \/ Garbled(r) PROVE StartupInv'
<1>1. rank[r] = "final" /\ UNCHANGED <<sent, namespace, changes>>
  BY DEF Final, Garbled
<1>2. \/ Goes(r, "installing") /\ UNCHANGED decision
      \/ FallBack(r, "rank_decision_mismatch")
  BY DEF Final, Garbled
<1>3. CASE Goes(r, "installing") /\ UNCHANGED decision
  BY <1>1, <1>3, MoveKeeps DEF Places
<1>4. CASE FallBack(r, "rank_decision_mismatch")
  <2>1. rank[r] \in {"agree", "final"}
    BY <1>1
  <2> QED
    BY <1>1, <1>4, <2>1, FallBackKeeps
<1> QED
  BY <1>2, <1>3, <1>4

LEMMA InstallKeeps ==
  ASSUME StartupAssumption, StartupInv, NEW r \in Ranks, Install(r) PROVE StartupInv'
<1> DEFINE a == Patches[NextPatch(r)]
<1>1. /\ rank[r] = "installing" /\ UNCHANGED <<rank, decision, sent>>
      /\ changes' = [changes EXCEPT ![r] =
                       [b \in DOMAIN changes[r] \cup {a} |->
                          IF b = a THEN namespace[r][a] ELSE changes[r][b]]]
      /\ namespace' = [namespace EXCEPT ![r][a] = "patched"]
  BY DEF Install
<1>2. a \in Attributes
  <2>1. NextPatch(r) \in DOMAIN Patches
    <3>1. IsFiniteSet(Attributes)
      <4>1. Len(Patches) \in Nat /\ DOMAIN Patches = 1..Len(Patches)
        BY DEF StartupAssumption
      <4>2. Patches \in Surjection(1..Len(Patches), Attributes)
        BY <4>1 DEF StartupAssumption, Attributes, Surjection
      <4> QED
        BY <4>1, <4>2, FS_Interval, FS_Surjection
    <3>2. Cardinality(DOMAIN changes[r]) \in Nat
      BY <3>1, FS_Subset, FS_CardinalityType DEF StartupInv, StartTyped
    <3> QED
      BY <3>2 DEF Install, NextPatch, StartupAssumption
  <2> QED
    BY <2>1 DEF Attributes
<1> HIDE DEF a
<1>3. /\ DOMAIN changes' = Ranks /\ DOMAIN changes'[r] = DOMAIN changes[r] \cup {a}
      /\ \A s \in Ranks \ {r} : changes'[s] = changes[s] /\ namespace'[s] = namespace[s]
      /\ namespace' \in [Ranks -> [Attributes -> {"original", "patched"}]]
      /\ namespace'[r] = [namespace[r] EXCEPT ![a] = "patched"]
  BY <1>1, <1>2 DEF StartupInv, StartTyped
<1>4. StartTyped'
  BY <1>1, <1>2, <1>3 DEF StartupInv, StartTyped
<1>5. Recorded(r)'
  <2>1. Recorded(r) /\ namespace[r] \in [Attributes -> {"original", "patched"}]
    BY <1>1 DEF StartupInv, StartTyped, Standing
  <2> QED
    BY <1>2, <1>3, <2>1 DEF Recorded
<1>6. ASSUME NEW s \in Ranks PROVE Standing(s)'
  <2>1. CASE s = r
    BY <1>1, <1>5, <2>1 DEF StartupInv, Standing, Succeeded, Past
  <2>2. CASE s # r
    BY <1>1, <1>3, <2>2 DEF StartupInv, Standing, Succeeded, Past, Recorded
  <2> QED
    BY <2>1, <2>2
<1> QED
  BY <1>4, <1>6 DEF StartupInv

LEMMA ReportKeeps ==
  ASSUME StartupAssumption, StartupInv, NEW r \in Ranks, Report(r) PROVE StartupInv'
<1>1. PICK success \in BOOLEAN :
        /\ success => NextPatch(r) > Len(Patches)
        /\ sent' = [sent EXCEPT !["status"][r] = <<IF success THEN "success" ELSE "error">>]
  BY DEF Report, Puts
<1>2. /\ rank[r] = "installing" /\ rank' = [rank EXCEPT ![r] = "status"]
      /\ UNCHANGED <<decision, namespace, changes>>
  BY DEF Report, Goes
<1>3. StartTyped' /\ rank'[r] = "status" /\ \A s \in Ranks \ {r} : rank'[s] = rank[s]
  <2>1. sent' = [c \in Collectives |-> [s \in Ranks |-> sent'[c][s]]]
    BY <1>1 DEF StartupInv, StartTyped, Collectives
  <2>2. rank' \in [Ranks -> Places] /\ rank'[r] = "status" /\ \A s \in Ranks \ {r} : rank'[s] = rank[s]
    BY <1>2 DEF StartupInv, StartTyped, Places
  <2> QED
    BY <1>2, <2>1, <2>2 DEF StartupInv, StartTyped
<1>4. Succeeded(r)' => namespace[r] = AllPatched
  <2>1. Succeeded(r)' => success
    <3>1. sent'["status"][r] = <<IF success THEN "success" ELSE "error">>
      BY <1>1 DEF StartupInv, StartTyped, Collectives
    <3>2. <<"error">> # <<"success">>
      OBVIOUS
    <3> QED
      BY <3>1, <3>2 DEF Succeeded
  <2> QED
    BY <1>1, <1>2, <2>1, AllOfThem DEF StartupInv, Standing
<1>5. \A s \in Ranks \ {r} : Succeeded(s)' <=> Succeeded(s)
  BY <1>1 DEF StartupInv, StartTyped, Collectives, Succeeded
<1>6. \A s \in Ranks : ~(Past(s) /\ decision[s].enabled)
  BY <1>2 DEF StartupInv, Standing
<1>7. ASSUME NEW s \in Ranks PROVE Standing(s)'
  <2>1. CASE s = r
    BY <1>2, <1>3, <1>4, <2>1 DEF StartupInv, Standing, Past
  <2>2. CASE s # r
    BY <1>2, <1>3, <1>5, <1>6, <2>2 DEF StartupInv, Standing, Past, Recorded
  <2> QED
    BY <2>1, <2>2
<1> QED
  BY <1>3, <1>7 DEF StartupInv

LEMMA SettleKeeps ==
  ASSUME StartupInv, NEW r \in Ranks, Settle(r) PROVE StartupInv'
<1>1. /\ rank[r] = "status" /\ UNCHANGED <<decision, sent>>
      /\ changes' = [changes EXCEPT ![r] = NoChanges]
  BY DEF Settle
<1>2. /\ DOMAIN changes' = Ranks
      /\ \A s \in Ranks : /\ DOMAIN changes'[s] \subseteq Attributes
                         /\ changes'[s] \in [DOMAIN changes'[s] -> {"original", "patched"}]
  BY <1>1 DEF StartupInv, StartTyped, NoChanges
<1>3. \A s \in Ranks \ {r} : changes'[s] = changes[s]
  BY <1>1 DEF StartupInv, StartTyped
<1>4. CASE \A s \in Ranks : Succeeded(s)
  <2>1. rank' = [rank EXCEPT ![r] = "prepared"] /\ namespace' = namespace
    BY <1>4 DEF Settle, Goes, Succeeded
  <2>2. StartTyped' /\ rank'[r] = "prepared" /\ \A s \in Ranks \ {r} : rank'[s] = rank[s]
    BY <1>1, <1>2, <2>1 DEF StartupInv, StartTyped, Places
  <2>3. ASSUME NEW s \in Ranks PROVE Standing(s)'
    <3>1. CASE s = r
      BY <1>1, <1>4, <2>1, <2>2, <3>1 DEF StartupInv, Standing, Succeeded, Past
    <3>2. CASE s # r
      BY <1>1, <1>3, <2>1, <2>2, <3>2 DEF StartupInv, Standing, Succeeded, Past, Recorded
    <3> QED
      BY <3>1, <3>2
  <2> QED
    BY <2>2, <2>3 DEF StartupInv
<1>5. CASE ~(\A s \in Ranks : Succeeded(s))
  <2>1. rank' = [rank EXCEPT ![r] = "failed"] /\ namespace' = [namespace EXCEPT ![r] = RolledBack(r)]
    BY <1>5 DEF Settle, Goes, Succeeded
  <2>2. RolledBack(r) \in [Attributes -> {"original", "patched"}]
    <3>1. /\ namespace[r] \in [Attributes -> {"original", "patched"}]
          /\ changes[r] \in [DOMAIN changes[r] -> {"original", "patched"}]
      BY DEF StartupInv, StartTyped
    <3> QED
      BY <3>1 DEF RolledBack
  <2>3. /\ StartTyped' /\ rank'[r] = "failed"
        /\ \A s \in Ranks \ {r} : rank'[s] = rank[s] /\ namespace'[s] = namespace[s]
    BY <1>1, <1>2, <2>1, <2>2 DEF StartupInv, StartTyped, Places
  <2>4. ASSUME NEW s \in Ranks PROVE Standing(s)'
    <3>1. CASE s = r
      BY <2>3, <3>1 DEF Standing, Past
    <3>2. CASE s # r
      BY <1>1, <1>3, <2>3, <3>2 DEF StartupInv, Standing, Succeeded, Past, Recorded
    <3> QED
      BY <3>1, <3>2
  <2> QED
    BY <2>3, <2>4 DEF StartupInv
<1> QED
  BY <1>4, <1>5

LEMMA StartupKeeps ==
  ASSUME StartupAssumption, StartupInv, [Next]_vars PROVE StartupInv'
<1>1. CASE UNCHANGED startupVars
  <2>1. UNCHANGED <<rank, decision, sent, namespace, changes>>
    BY <1>1 DEF startupVars
  <2>2. StartTyped'
    BY <2>1 DEF StartupInv, StartTyped
  <2>3. ASSUME NEW r \in Ranks PROVE Standing(r)'
    BY <2>1 DEF StartupInv, Standing, Succeeded, Past, Recorded
  <2> QED
    BY <2>2, <2>3 DEF StartupInv
<1>2. ASSUME NEW r \in Ranks, JoinAgree(r) PROVE StartupInv'
  BY <1>2, JoinKeeps
<1>3. ASSUME NEW r \in Ranks, Agreed(r) PROVE StartupInv'
  BY <1>3, AgreedKeeps
<1>4. ASSUME NEW r \in Ranks, Final(r) \/ Garbled(r) PROVE StartupInv'
  BY <1>4, FinalKeeps
<1>5. ASSUME NEW r \in Ranks, Install(r) PROVE StartupInv'
  BY <1>5, InstallKeeps
<1>6. ASSUME NEW r \in Ranks, Report(r) PROVE StartupInv'
  BY <1>6, ReportKeeps
<1>7. ASSUME NEW r \in Ranks, Settle(r) PROVE StartupInv'
  BY <1>7, SettleKeeps
<1>8. ASSUME NEW r \in Ranks, Load(r) PROVE StartupInv'
  <2>1. Past(r) /\ UNCHANGED <<decision, sent, namespace, changes>>
    BY <1>8 DEF Load, Past
  <2>2. CASE Goes(r, "failed")
    BY <2>1, <2>2, MoveKeeps DEF Places
  <2>3. CASE Goes(r, "loaded")
    BY <2>1, <2>3, MoveKeeps DEF Places
  <2> QED
    BY <1>8, <2>2, <2>3 DEF Load
<1>11. ASSUME NEW r \in Ranks, Validate(r) PROVE StartupInv'
  <2>1. Past(r) /\ UNCHANGED <<decision, sent, namespace, changes>>
    BY <1>11 DEF Validate, Past
  <2>2. CASE Goes(r, "failed")
    BY <2>1, <2>2, MoveKeeps DEF Places
  <2>3. CASE Goes(r, "barrier")
    BY <2>1, <2>3, MoveKeeps DEF Places
  <2> QED
    BY <1>11, <2>2, <2>3 DEF Validate
<1>9. ASSUME NEW r \in Ranks, Barrier(r) PROVE StartupInv'
  <2>1. Past(r) /\ Goes(r, "serving") /\ UNCHANGED <<decision, sent, namespace, changes>>
    BY <1>9 DEF Barrier, Past
  <2> QED
    BY <2>1, MoveKeeps DEF Places
<1>10. ASSUME NEW r \in Ranks, Ended(r) PROVE StartupInv'
  <2>1. Goes(r, "failed") /\ UNCHANGED <<decision, sent, namespace, changes>>
    BY <1>10 DEF Ended
  <2> QED
    BY <2>1, MoveKeeps DEF Places
<1> QED
  BY <1>1, <1>2, <1>3, <1>4, <1>5, <1>6, <1>7, <1>8, <1>9, <1>10, <1>11
     DEF Next, Prepare, Decode, StartupNext, vars

LEMMA StartupSafe == Spec => []StartupInv
<1>1. Init => StartupInv
  BY StartupInit0 DEF Init
<1>2. StartupInv /\ [Next]_vars => StartupInv'
  BY StartupKeeps, StartupAssumption
<1> QED
  BY <1>1, <1>2, PTL DEF Spec

(* Ranks that load the model decode alike and with the same patches,       *)
(* however many there are and whatever each finds on its node              *)
(* (NativeMTPRuntimeController.prepare).                                   *)
THEOREM RanksDecodeAlike == Spec => []RanksAgree
<1>1. StartupInv => RanksAgree
  <2> SUFFICES ASSUME StartupInv, NEW r \in Ranks, Past(r)
               PROVE  /\ \A s \in Ranks : Past(s) => decision[s].enabled = decision[r].enabled
                      /\ decision[r].enabled =>
                           \A s \in Ranks : rank[s] # "failed" => namespace[s] = AllPatched
                      /\ ~decision[r].enabled => namespace[r] = Original
    BY DEF RanksAgree
  <2>1. \A s \in Ranks : decision[s].enabled \in BOOLEAN
    BY DEF StartupInv, StartTyped
  <2>2. ASSUME NEW s \in Ranks, Past(s), decision[s].enabled, NEW t \in Ranks, rank[t] # "failed"
        PROVE  decision[t].enabled /\ namespace[t] = AllPatched
    BY <2>2 DEF StartupInv, Standing
  <2>3. \A s \in Ranks : Past(s) => rank[s] # "failed"
    BY DEF Past
  <2> QED
    BY <2>1, <2>2, <2>3 DEF StartupInv, Standing
<1> QED
  BY <1>1, StartupSafe, PTL
=============================================================================
