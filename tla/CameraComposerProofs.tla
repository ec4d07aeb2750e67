------------------------- MODULE CameraComposerProofs -------------------------
(***************************************************************************)
(* Proofs about CameraSettings and Composer.  For every set of clients and *)
(* every number of failing device calls: the flag that SecCamera keeps     *)
(* tells whether the device streams, as what each thread has left to do    *)
(* says how far it is in a start or a stop; the sensor has been told what  *)
(* the fields have, as a start sends it or a setter still will; and the    *)
(* parameters show what was asked for and what the fields have, as what is *)
(* left of a call sets the rest.  And what hwcomposer.cpp shows in its     *)
(* window is the frame of the layer list, for every set of layers, lists   *)
(* and window positions, and every number of buffers above one.            *)
(***************************************************************************)
EXTENDS CameraSettings, Composer, WellFoundedInduction, TLAPS

-----------------------------------------------------------------------------
(* The steps that start and stop the stream, and those that end an operation:
   what may still come after each of them. *)
Marks == {"begin", "buffers", "streamon", "started", "frame", "wake", "stop", "streamoff",
          "stopped", "look", "park", "halt"}
Later(op) ==
  CASE op = "begin" -> {"buffers", "send", "streamon", "started", "frame", "wake"}
    [] op = "buffers" -> {"send", "streamon", "started", "frame", "wake"}
    [] op = "streamon" -> {"send", "started", "frame", "wake"}
    [] op = "started" -> {"frame", "wake"}
    [] op = "frame" -> {"wake"}
    [] op = "streamoff" -> {"stopped", "look", "park"}
    [] op \in {"stop", "stopped"} -> {"look", "park"}
    [] OTHER -> {}

Stops == {"stop", "streamoff", "stopped"}

IsSequence(q) == \E S : q \in Seq(S)
OpsOf(q) == {q[i].op : i \in DOMAIN q}
Marked(q) == OpsOf(q) \cap Marks

Ordered(q) ==
  /\ \A i, j \in DOMAIN q : i < j /\ q[i].op \in Marks => q[j].op \in Later(q[i].op)
  /\ \A i, j \in DOMAIN q : i < j /\ q[i].op = "send" => q[j].op \notin Stops
  /\ \A i \in DOMAIN q :
       /\ "op" \in DOMAIN q[i]
       /\ q[i].op = "streamoff" => i + 1 \in DOMAIN q /\ q[i + 1].op = "stopped"
       /\ q[i].op = "displace" => i + 1 \in DOMAIN q /\ q[i + 1].op = "tell"
WellFormed(q) == IsSequence(q) /\ Ordered(q)

-----------------------------------------------------------------------------
(* What is used of a sequence whose elements are not named. *)
LEMMA Elements ==
  ASSUME NEW q, IsSequence(q)
  PROVE  /\ Len(q) \in Nat /\ DOMAIN q = 1 .. Len(q) /\ (q = <<>> <=> Len(q) = 0)
         /\ q # <<>> => /\ IsSequence(Tail(q)) /\ Len(Tail(q)) = Len(q) - 1
                        /\ Head(q) = q[1]
                        /\ \A i \in 1 .. Len(q) - 1 : Tail(q)[i] = q[i + 1]
<1>1. PICK S : q \in Seq(S)
  BY DEF IsSequence
<1>2. Len(q) \in Nat /\ DOMAIN q = 1 .. Len(q) /\ (q = <<>> <=> Len(q) = 0)
  BY <1>1
<1>3. ASSUME q # <<>>
      PROVE  /\ Tail(q) \in Seq(S) /\ Len(Tail(q)) = Len(q) - 1 /\ Head(q) = q[1]
             /\ \A i \in 1 .. Len(q) - 1 : Tail(q)[i] = q[i + 1]
  BY <1>1, <1>3
<1>4. QED
  BY <1>2, <1>3 DEF IsSequence

(* A step done: what is left is in order, and comes after it. *)
LEMMA TailFormed ==
  ASSUME NEW q, WellFormed(q), q # <<>>
  PROVE  /\ WellFormed(Tail(q)) /\ Marked(Tail(q)) = Marked(q) \ {Head(q).op}
         /\ "op" \in DOMAIN Head(q)
         /\ Head(q).op = "send" => OpsOf(Tail(q)) \cap Stops = {}
         /\ Head(q).op \in Marks =>
              /\ Head(q).op \in Marked(q)
              /\ OpsOf(Tail(q)) \subseteq Later(Head(q).op)
<1> DEFINE r == Tail(q)
<1>1. /\ Len(q) \in Nat \ {0} /\ DOMAIN q = 1 .. Len(q) /\ Head(q) = q[1]
      /\ IsSequence(r) /\ DOMAIN r = 1 .. Len(q) - 1
      /\ \A i \in 1 .. Len(q) - 1 : r[i] = q[i + 1]
  <2>1. IsSequence(q)
    BY DEF WellFormed
  <2>2. IsSequence(r) /\ Len(r) = Len(q) - 1 /\ Len(q) \in Nat /\ Len(q) # 0
    BY <2>1, Elements
  <2>3. DOMAIN r = 1 .. Len(r)
    BY <2>2, Elements
  <2>4. QED
    BY <2>1, <2>2, <2>3, Elements
<1> HIDE DEF r
<1>2. Ordered(q)
  BY DEF WellFormed
<1>3. Ordered(r)
  <2>1. ASSUME NEW i \in DOMAIN r, NEW j \in DOMAIN r, i < j
        PROVE  /\ r[i].op \in Marks => r[j].op \in Later(r[i].op)
               /\ r[i].op = "send" => r[j].op \notin Stops
    <3>1. i + 1 \in DOMAIN q /\ j + 1 \in DOMAIN q /\ i + 1 < j + 1
      BY <1>1, <2>1
    <3>2. r[i] = q[i + 1] /\ r[j] = q[j + 1]
      BY <1>1
    <3>3. QED
      BY <1>2, <2>1, <3>1, <3>2 DEF Ordered
  <2>2. ASSUME NEW i \in DOMAIN r
        PROVE  /\ "op" \in DOMAIN r[i]
               /\ r[i].op = "streamoff" => i + 1 \in DOMAIN r /\ r[i + 1].op = "stopped"
               /\ r[i].op = "displace" => i + 1 \in DOMAIN r /\ r[i + 1].op = "tell"
    <3>1. i + 1 \in DOMAIN q /\ r[i] = q[i + 1] /\ i \in Nat
      BY <1>1
    <3>2. i + 1 + 1 \in DOMAIN q => i + 1 \in DOMAIN r /\ r[i + 1] = q[i + 1 + 1]
      BY <1>1, <3>1
    <3>3. QED
      BY <1>2, <3>1, <3>2 DEF Ordered
  <2>3. QED
    BY <2>1, <2>2 DEF Ordered
<1>4. OpsOf(q) = OpsOf(r) \cup {Head(q).op}
  <2>1. \A i \in DOMAIN q : i = 1 \/ (i - 1 \in DOMAIN r /\ r[i - 1] = q[i])
    BY <1>1
  <2>2. \A i \in DOMAIN r : i + 1 \in DOMAIN q /\ r[i] = q[i + 1]
    BY <1>1
  <2>3. 1 \in DOMAIN q /\ Head(q) = q[1]
    BY <1>1
  <2>4. QED
    BY <2>1, <2>2, <2>3 DEF OpsOf
<1>5. \A x \in OpsOf(r) :
        /\ Head(q).op \in Marks => x \in Later(Head(q).op)
        /\ Head(q).op = "send" => x \notin Stops
  <2>1. \A i \in DOMAIN r : i + 1 \in DOMAIN q /\ 1 < i + 1 /\ r[i] = q[i + 1]
    BY <1>1
  <2>2. 1 \in DOMAIN q /\ Head(q) = q[1]
    BY <1>1
  <2>3. QED
    BY <1>2, <2>1, <2>2 DEF OpsOf, Ordered
<1>6. \A op \in Marks : op \notin Later(op)
  BY DEF Marks, Later
<1>7. "op" \in DOMAIN Head(q)
  <2>1. 1 \in DOMAIN q
    BY <1>1
  <2>2. QED
    BY <1>1, <1>2, <2>1 DEF Ordered
<1>8. /\ WellFormed(r) /\ Marked(r) = Marked(q) \ {Head(q).op}
      /\ Head(q).op \in Marks => Head(q).op \in Marked(q)
  <2>1. WellFormed(r)
    BY <1>1, <1>3 DEF WellFormed
  <2>2. Head(q).op \in Marks => Head(q).op \in Marked(q) /\ Head(q).op \notin OpsOf(r)
    BY <1>4, <1>5, <1>6 DEF Marked
  <2>3. Marked(r) = Marked(q) \ {Head(q).op}
    BY <1>4, <2>2 DEF Marked
  <2>4. QED
    BY <2>1, <2>2, <2>3
<1>9. /\ Head(q).op \in Marks => OpsOf(r) \subseteq Later(Head(q).op)
      /\ Head(q).op = "send" => OpsOf(r) \cap Stops = {}
  <2>1. ASSUME Head(q).op = "send"  PROVE OpsOf(r) \cap Stops = {}
    BY <1>5, <2>1
  <2>2. QED
    BY <1>5, <2>1
<1>10. QED
  BY <1>7, <1>8, <1>9 DEF r

(* Two operations, one after the other. *)
LEMMA JoinFormed ==
  ASSUME NEW p, NEW q, WellFormed(p), WellFormed(q),
         \A a \in Marked(p) : OpsOf(q) \subseteq Later(a),
         "send" \in OpsOf(p) => OpsOf(q) \cap Stops = {}
  PROVE  WellFormed(p \o q) /\ OpsOf(p \o q) = OpsOf(p) \cup OpsOf(q)
<1> DEFINE r == p \o q
           m == Len(p)
           n == Len(q)
<1>1. PICK S, T : p \in Seq(S) /\ q \in Seq(T)
  BY DEF WellFormed, IsSequence
<1>2. p \in Seq(S \cup T) /\ q \in Seq(S \cup T)
  BY <1>1
<1>3. /\ r \in Seq(S \cup T) /\ m \in Nat /\ n \in Nat
      /\ DOMAIN p = 1 .. m /\ DOMAIN q = 1 .. n /\ Len(r) = m + n
      /\ DOMAIN r = 1 .. m + n
      /\ \A i \in 1 .. m + n : r[i] = IF i <= m THEN p[i] ELSE q[i - m]
  BY <1>2
<1> HIDE DEF r, m, n
<1>4. /\ \A i \in 1 .. m : i \in 1 .. m + n /\ r[i] = p[i]
      /\ \A j \in 1 .. n : m + j \in 1 .. m + n /\ r[m + j] = q[j]
      /\ \A i \in 1 .. m + n : i \in 1 .. m \/ (i - m \in 1 .. n /\ i = m + (i - m))
  <2>1. \A j \in 1 .. n : m + j - m = j /\ ~(m + j <= m)
    BY <1>3
  <2>2. \A i \in 1 .. m : i \in 1 .. m + n /\ r[i] = p[i]
    BY <1>3
  <2>3. \A j \in 1 .. n : m + j \in 1 .. m + n
    BY <1>3
  <2>4. \A j \in 1 .. n : r[m + j] = q[j]
    BY <1>3, <2>1, <2>3
  <2>5. QED
    BY <1>3, <2>2, <2>3, <2>4
<1>5. OpsOf(r) = OpsOf(p) \cup OpsOf(q)
  <2>1. ASSUME NEW i \in DOMAIN r  PROVE r[i].op \in OpsOf(p) \cup OpsOf(q)
    <3>1. CASE i \in 1 .. m
      BY <1>3, <1>4, <3>1 DEF OpsOf
    <3>2. CASE i \notin 1 .. m
      <4>1. i - m \in DOMAIN q /\ r[i] = q[i - m]
        BY <1>3, <1>4, <3>2
      <4>2. QED
        BY <4>1 DEF OpsOf
    <3>3. QED
      BY <3>1, <3>2
  <2>2. \A i \in DOMAIN p : i \in DOMAIN r /\ r[i] = p[i]
    BY <1>3, <1>4
  <2>3. \A j \in DOMAIN q : m + j \in DOMAIN r /\ r[m + j] = q[j]
    BY <1>3, <1>4
  <2>4. QED
    BY <2>1, <2>2, <2>3 DEF OpsOf
<1>6. Ordered(p) /\ Ordered(q)
  BY DEF WellFormed
<1>7. ASSUME NEW i \in DOMAIN r, NEW j \in DOMAIN r, i < j
      PROVE  /\ r[i].op \in Marks => r[j].op \in Later(r[i].op)
             /\ r[i].op = "send" => r[j].op \notin Stops
  <2>1. CASE i \in 1 .. m /\ j \in 1 .. m
    BY <1>3, <1>4, <1>6, <1>7, <2>1 DEF Ordered
  <2>2. CASE i \in 1 .. m /\ j \notin 1 .. m
    <3>1. j - m \in DOMAIN q /\ r[j] = q[j - m] /\ i \in DOMAIN p /\ r[i] = p[i]
      BY <1>3, <1>4, <2>2
    <3>2. /\ r[i].op \in Marks => r[i].op \in Marked(p)
          /\ r[i].op \in OpsOf(p) /\ r[j].op \in OpsOf(q)
      BY <3>1 DEF Marked, OpsOf
    <3>3. QED
      BY <3>2
  <2>3. CASE i \notin 1 .. m
    <3>1. /\ i - m \in DOMAIN q /\ r[i] = q[i - m]
          /\ j - m \in DOMAIN q /\ r[j] = q[j - m] /\ i - m < j - m
      BY <1>3, <1>4, <1>7, <2>3
    <3>2. QED
      BY <1>6, <1>7, <3>1 DEF Ordered
  <2>4. QED
    BY <2>1, <2>2, <2>3
<1>8. ASSUME NEW i \in DOMAIN r
      PROVE  /\ "op" \in DOMAIN r[i]
             /\ r[i].op = "streamoff" => i + 1 \in DOMAIN r /\ r[i + 1].op = "stopped"
             /\ r[i].op = "displace" => i + 1 \in DOMAIN r /\ r[i + 1].op = "tell"
  <2>1. CASE i \in 1 .. m
    <3>1. i \in DOMAIN p /\ r[i] = p[i]
      BY <1>3, <1>4, <2>1
    <3>2. i + 1 \in DOMAIN p => i + 1 \in DOMAIN r /\ r[i + 1] = p[i + 1]
      BY <1>3, <1>4
    <3>3. QED
      BY <1>6, <3>1, <3>2 DEF Ordered
  <2>2. CASE i \notin 1 .. m
    <3> DEFINE k == i - m
    <3>1. k \in DOMAIN q /\ r[i] = q[k] /\ k \in Nat /\ i = m + k
      BY <1>3, <1>4, <2>2
    <3>2. k + 1 \in DOMAIN q => i + 1 \in DOMAIN r /\ r[i + 1] = q[k + 1]
      <4>1. m + (k + 1) = i + 1
        BY <1>3, <3>1
      <4>2. QED
        BY <1>3, <1>4, <4>1
    <3> HIDE DEF k
    <3>3. QED
      BY <1>6, <3>1, <3>2 DEF Ordered
  <2>3. QED
    BY <2>1, <2>2
<1>9. QED
  BY <1>3, <1>5, <1>7, <1>8 DEF WellFormed, Ordered, IsSequence, r

(* Nothing, and a single step. *)
LEMMA EmptyFormed == WellFormed(<<>>) /\ OpsOf(<<>>) = {} /\ Marked(<<>>) = {}
<1>1. <<>> \in Seq({})
  OBVIOUS
<1>2. DOMAIN <<>> = {}
  OBVIOUS
<1>3. QED
  BY <1>1, <1>2 DEF WellFormed, IsSequence, Ordered, OpsOf, Marked

LEMMA OneFormed ==
  ASSUME NEW o, "op" \in DOMAIN o, o.op \notin {"streamoff", "displace"}
  PROVE  WellFormed(<<o>>) /\ OpsOf(<<o>>) = {o.op}
<1>1. <<o>> \in Seq({o}) /\ DOMAIN <<o>> = {1} /\ <<o>>[1] = o
  OBVIOUS
<1> DEFINE q == <<o>>
<1> HIDE DEF q
<1>2. q \in Seq({o}) /\ DOMAIN q = {1} /\ q[1] = o
  BY <1>1 DEF q
<1>3. Ordered(q)
  BY <1>2 DEF Ordered
<1>4. OpsOf(q) = {o.op}
  BY <1>2 DEF OpsOf
<1>5. QED
  BY <1>2, <1>3, <1>4 DEF WellFormed, IsSequence, q

(* Operations without marks, such as the setters, go before any other. *)
Plain(q) == WellFormed(q) /\ Marked(q) = {} /\ "send" \notin OpsOf(q)

(* They change neither the order nor the marks of what they stand in front of. *)
LEMMA PlainFirst ==
  ASSUME NEW p, NEW q, Plain(p), WellFormed(q)
  PROVE  /\ WellFormed(p \o q) /\ Marked(p \o q) = Marked(q)
         /\ OpsOf(p \o q) = OpsOf(p) \cup OpsOf(q)
<1>1. /\ WellFormed(p) /\ "send" \notin OpsOf(p)
      /\ \A a \in Marked(p) : OpsOf(q) \subseteq Later(a)
  BY DEF Plain
<1>2. WellFormed(p \o q) /\ OpsOf(p \o q) = OpsOf(p) \cup OpsOf(q)
  BY <1>1, JoinFormed
<1>3. QED
  BY <1>2 DEF Plain, Marked

LEMMA PlainJoin ==
  ASSUME NEW p, NEW q, Plain(p), Plain(q)
  PROVE  Plain(p \o q)
  BY PlainFirst DEF Plain

LEMMA PlainOne ==
  ASSUME NEW o, "op" \in DOMAIN o, o.op \notin Marks, o.op \notin {"displace", "send"}
  PROVE  Plain(<<o>>)
<1>1. o.op # "streamoff"
  BY DEF Marks
<1>2. QED
  BY <1>1, OneFormed DEF Plain, Marked

LEMMA PlainEmpty == Plain(<<>>)
  BY EmptyFormed DEF Plain

(* The sequences of setters that the calls are made of. *)
LEMMA SettersPlain ==
  /\ Plain(Refusal)
  /\ \A k, code, shown : Plain(Set(k, code, shown))
  /\ \A k, asking : Plain(Asked(k, asking))
<1>1. Plain(Refusal)
  BY PlainOne DEF Refusal, Marks
<1>2. ASSUME NEW k, NEW code, NEW shown  PROVE Plain(Set(k, code, shown))
  <2> DEFINE o == [op |-> "set", key |-> k, value |-> code, shown |-> shown]
  <2>1. o.op = "set" /\ "op" \in DOMAIN o
    OBVIOUS
  <2> HIDE DEF o
  <2>2. Plain(<<o>>)
    BY <2>1, PlainOne DEF Marks
  <2>3. QED
    BY <2>2 DEF Set, o
<1>3. QED
  BY <1>1, <1>2 DEF Asked

(* setParameters and the initialisation are setters only. *)
LEMMA PartsPlain ==
  ASSUME NEW p, NEW c
  PROVE  Plain(Parameters(c, p))
<1>1. /\ Plain(ZoomPart(c, p)) /\ Plain(BrightnessPart(p)) /\ Plain(ContrastPart(p))
      /\ Plain(WhiteBalancePart(p)) /\ Plain(ISOPart(p))
  BY SettersPlain, PlainEmpty
     DEF ZoomPart, SetZoom, BrightnessPart, SetBrightness, ContrastPart, SetContrast,
         WhiteBalancePart, SetWhiteBalance, ISOPart, SetISO
<1>2. Plain(FpsPart(p)) /\ Plain(FocusPart(p)) /\ Plain(EffectPart(p))
  BY SettersPlain, PlainEmpty
     DEF FpsPart, FocusPart, SetFocusMode, EffectPart, SetImageEffect
<1>3. Plain(AntiShakePart(p)) /\ Plain(BlurPart(c))
  BY SettersPlain, PlainEmpty DEF AntiShakePart, BlurPart
<1>4. Plain(ScenePart(p))
  <2> DEFINE flash == FlashOf(p.scene, p.flash)
             A == <<[op |-> "fps", shown |-> FpsOf(p.scene)]>>
             B == IF flash = None THEN <<>> ELSE SetFlashMode(flash)
             C == SetSceneMode(p.scene)
  <2>1. Plain(A)
    BY PlainOne DEF Marks
  <2>2. Plain(B)
    BY SettersPlain, PlainEmpty DEF SetFlashMode
  <2>3. Plain(C)
    BY SettersPlain, PlainEmpty DEF SetSceneMode
  <2> HIDE DEF A, B, C
  <2>4. Plain(A \o B \o C)
    BY <2>1, <2>2, <2>3, PlainJoin
  <2>5. QED
    BY <2>4, PlainEmpty DEF ScenePart, A, B, C
<1>5. Plain(<<[op |-> "batch"]>>)
  BY PlainOne DEF Marks
<1>6. QED
  BY <1>1, <1>2, <1>3, <1>4, <1>5, PlainJoin DEF Parameters

LEMMA InitialPlain ==
  ASSUME NEW c
  PROVE  Plain(Initial(c))
  BY SettersPlain, PlainJoin DEF Initial

(* The marks of a start, of a stop and of the sequences they end with. *)
StartMarks == {"begin", "buffers", "streamon", "started", "frame"}

(* The settings that startStream sends. *)
LEMMA SendsFormed ==
  /\ \A keys : WellFormed(Send(keys)) /\ OpsOf(Send(keys)) \subseteq {"send"}
  /\ \A keys, S : keys \in Seq(S) =>
       WellFormed(SendEach(keys)) /\ OpsOf(SendEach(keys)) \subseteq {"send"}
<1>1. ASSUME NEW keys  PROVE WellFormed(Send(keys)) /\ OpsOf(Send(keys)) \subseteq {"send"}
  <2> DEFINE o == [op |-> "send", keys |-> keys]
  <2>1. o.op = "send" /\ "op" \in DOMAIN o
    OBVIOUS
  <2> HIDE DEF o
  <2>2. QED
    BY <2>1, OneFormed DEF Send, o
<1>2. ASSUME NEW keys, NEW S, keys \in Seq(S)
      PROVE  WellFormed(SendEach(keys)) /\ OpsOf(SendEach(keys)) \subseteq {"send"}
  <2> DEFINE q == SendEach(keys)
             R == {[op |-> "send", keys |-> {x}] : x \in S}
  <2>1. Len(keys) \in Nat /\ DOMAIN keys = 1 .. Len(keys)
    BY <1>2
  <2>2. ASSUME NEW i \in DOMAIN keys  PROVE [op |-> "send", keys |-> {keys[i]}] \in R
    <3>1. keys[i] \in S
      BY <1>2
    <3>2. QED
      BY <3>1
  <2>3. q \in [1 .. Len(keys) -> R]
    BY <2>1, <2>2 DEF SendEach
  <2>4. q \in Seq(R) /\ \A i \in DOMAIN q : q[i] \in R
    BY <2>1, <2>3
  <2>5. \A x \in R : x.op = "send" /\ "op" \in DOMAIN x
    OBVIOUS
  <2> HIDE DEF q, R
  <2>6. OpsOf(q) \subseteq {"send"}
    BY <2>4, <2>5 DEF OpsOf
  <2>7. Ordered(q)
    <3>1. \A i \in DOMAIN q : q[i].op = "send" /\ "op" \in DOMAIN q[i]
      BY <2>4, <2>5
    <3>2. "send" \notin Marks /\ "send" \notin Stops
      BY DEF Marks, Stops
    <3>3. QED
      BY <3>1, <3>2 DEF Ordered
  <2>8. QED
    BY <2>4, <2>6, <2>7 DEF WellFormed, IsSequence, q
<1>3. QED
  BY <1>1, <1>2

(* Two steps that belong together. *)
LEMMA TwoFormed ==
  ASSUME NEW q, IsSequence(q), DOMAIN q = {1, 2}, NEW o, NEW p, q[1] = o, q[2] = p,
         "op" \in DOMAIN o, "op" \in DOMAIN p, p.op \notin {"streamoff", "displace"},
         o.op \in Marks => p.op \in Later(o.op), o.op # "send",
         o.op = "streamoff" => p.op = "stopped", o.op = "displace" => p.op = "tell"
  PROVE  WellFormed(q) /\ OpsOf(q) = {o.op, p.op}
<1>1. Ordered(q)
  <2>1. ASSUME NEW i \in DOMAIN q, NEW j \in DOMAIN q, i < j  PROVE i = 1 /\ j = 2
    BY <2>1
  <2>2. ASSUME NEW i \in DOMAIN q, q[i].op \in {"streamoff", "displace"}
        PROVE  i = 1 /\ i + 1 = 2
    BY <2>2
  <2>3. QED
    BY <2>1, <2>2 DEF Ordered
<1>2. OpsOf(q) = {o.op, p.op}
  BY DEF OpsOf
<1>3. QED
  BY <1>1, <1>2 DEF WellFormed

LEMMA PairFormed ==
  ASSUME NEW o, NEW p, "op" \in DOMAIN o, "op" \in DOMAIN p,
         p.op \notin {"streamoff", "displace"},
         o.op \in Marks => p.op \in Later(o.op), o.op # "send",
         o.op = "streamoff" => p.op = "stopped", o.op = "displace" => p.op = "tell"
  PROVE  WellFormed(<<o, p>>) /\ OpsOf(<<o, p>>) = {o.op, p.op}
<1> DEFINE q == <<o, p>>
<1>1. q \in Seq({o, p}) /\ DOMAIN q = {1, 2} /\ q[1] = o /\ q[2] = p
  OBVIOUS
<1> HIDE DEF q
<1>2. IsSequence(q)
  BY <1>1 DEF IsSequence
<1>3. QED
  BY <1>1, <1>2, TwoFormed DEF q

(* A pair at the head, of which the second step is skipped with the first. *)
LEMMA PairSkipped ==
  ASSUME NEW q, WellFormed(q), q # <<>>, Head(q).op \in {"streamoff", "displace"}
  PROVE  /\ Tail(q) # <<>>
         /\ Head(Tail(q)).op = IF Head(q).op = "streamoff" THEN "stopped" ELSE "tell"
         /\ WellFormed(Tail(Tail(q)))
         /\ Marked(Tail(Tail(q))) = IF Head(q).op = "streamoff"
                                   THEN Marked(q) \ {"streamoff", "stopped"} ELSE Marked(q)
<1>1. IsSequence(q) /\ Ordered(q)
  BY DEF WellFormed
<1>2. /\ Len(q) \in Nat /\ Len(q) # 0 /\ DOMAIN q = 1 .. Len(q) /\ Head(q) = q[1]
      /\ IsSequence(Tail(q)) /\ Len(Tail(q)) = Len(q) - 1
      /\ \A i \in 1 .. Len(q) - 1 : Tail(q)[i] = q[i + 1]
  BY <1>1, Elements
<1>3. 2 \in DOMAIN q /\ q[2].op = IF Head(q).op = "streamoff" THEN "stopped" ELSE "tell"
  <2>1. 1 \in DOMAIN q /\ 1 + 1 = 2
    BY <1>2
  <2>2. QED
    BY <1>1, <1>2, <2>1 DEF Ordered
<1>4. Len(Tail(q)) # 0 /\ Tail(q)[1] = q[2]
  BY <1>2, <1>3
<1>5. Tail(q) # <<>> /\ Head(Tail(q)) = q[2]
  BY <1>2, <1>4, Elements
<1>6. WellFormed(Tail(q)) /\ Marked(Tail(q)) = Marked(q) \ {Head(q).op}
  BY TailFormed
<1>7. /\ WellFormed(Tail(Tail(q)))
      /\ Marked(Tail(Tail(q))) = Marked(Tail(q)) \ {Head(Tail(q)).op}
  BY <1>5, <1>6, TailFormed
<1>8. "displace" \notin Marked(q) /\ "tell" \notin Marked(q)
  BY DEF Marked, Marks
<1>9. CASE Head(q).op = "streamoff"
  BY <1>3, <1>5, <1>6, <1>7, <1>9
<1>10. CASE Head(q).op = "displace"
  BY <1>3, <1>5, <1>6, <1>7, <1>8, <1>10
<1>11. QED
  BY <1>9, <1>10

(* A start is in order, by the service and by the preview thread. *)
LEMMA StartFormed ==
  ASSUME NEW c
  PROVE  /\ WellFormed(Start(c)) /\ Marked(Start(c)) = StartMarks
         /\ WellFormed(Start(c) \o Wake) /\ Marked(Start(c) \o Wake) = StartMarks \cup {"wake"}
<1> DEFINE A == <<[op |-> "begin"], [op |-> "buffers"]>>
           B == StartStream(c)
           D == <<[op |-> "started"], [op |-> "frame"]>>
           On == <<[op |-> "streamon"]>>
<1>1. WellFormed(A) /\ OpsOf(A) = {"begin", "buffers"}
  BY PairFormed DEF Later, Marks
<1>2. WellFormed(D) /\ OpsOf(D) = {"started", "frame"}
  BY PairFormed DEF Later, Marks
<1>3. WellFormed(On) /\ OpsOf(On) = {"streamon"}
  BY OneFormed
<1>4. WellFormed(Wake) /\ OpsOf(Wake) = {"wake"}
  BY OneFormed DEF Wake
<1>5. WellFormed(B) /\ OpsOf(B) \subseteq {"send", "streamon"} /\ "streamon" \in OpsOf(B)
  <2> DEFINE P == SendEach(BeforeStreamOn)
             Q == SendEach(AfterStreamOn)
             R == Send({"brightness"})
             T == Send(StreamParams)
             U == Send({"blur"})
             S == {"effect", "iso", "metering", "scene", "whiteBalance", "zoom", "contrast",
                   "focus", "saturation", "sharpness"}
  <2>1. BeforeStreamOn \in Seq(S) /\ AfterStreamOn \in Seq(S)
    BY DEF BeforeStreamOn, AfterStreamOn
  <2>2. /\ WellFormed(P) /\ OpsOf(P) \subseteq {"send"}
        /\ WellFormed(Q) /\ OpsOf(Q) \subseteq {"send"}
        /\ WellFormed(R) /\ OpsOf(R) \subseteq {"send"}
        /\ WellFormed(T) /\ OpsOf(T) \subseteq {"send"}
        /\ WellFormed(U) /\ OpsOf(U) \subseteq {"send"}
    <3>1. ASSUME NEW keys  PROVE WellFormed(Send(keys)) /\ OpsOf(Send(keys)) \subseteq {"send"}
      BY SendsFormed
    <3> HIDE DEF S
    <3>2. /\ WellFormed(P) /\ OpsOf(P) \subseteq {"send"}
          /\ WellFormed(Q) /\ OpsOf(Q) \subseteq {"send"}
      BY <2>1, SendsFormed
    <3>3. QED
      BY <3>1, <3>2
  <2> HIDE DEF P, Q, R, T, U, On
  <2>3. \A q : OpsOf(q) \subseteq {"send"} => Marked(q) = {} /\ OpsOf(q) \cap Stops = {}
    BY DEF Marked, Marks, Stops
  <2>4. Marked(On) = {"streamon"} /\ "streamon" \notin Stops /\ "send" \in Later("streamon")
    BY <1>3 DEF Marked, Marks, Later, Stops
  <2>5. /\ WellFormed(P \o On) /\ OpsOf(P \o On) \subseteq {"send", "streamon"}
        /\ "streamon" \in OpsOf(P \o On) /\ Marked(P \o On) = {"streamon"}
    <3>1. WellFormed(P \o On) /\ OpsOf(P \o On) = OpsOf(P) \cup OpsOf(On)
      BY <1>3, <2>2, <2>3, <2>4, JoinFormed
    <3>2. QED
      BY <1>3, <2>2, <3>1 DEF Marked, Marks
  <2>6. ASSUME NEW p, NEW q, WellFormed(p), OpsOf(p) \subseteq {"send", "streamon"},
               "streamon" \in OpsOf(p), WellFormed(q), OpsOf(q) \subseteq {"send"}
        PROVE  /\ WellFormed(p \o q) /\ OpsOf(p \o q) \subseteq {"send", "streamon"}
               /\ "streamon" \in OpsOf(p \o q)
    <3>1. Marked(p) = {"streamon"}
      BY <2>6 DEF Marked, Marks
    <3>2. WellFormed(p \o q) /\ OpsOf(p \o q) = OpsOf(p) \cup OpsOf(q)
      BY <2>3, <2>4, <2>6, <3>1, JoinFormed
    <3>3. QED
      BY <2>6, <3>2
  <2>7. /\ WellFormed(P \o On \o R \o Q) /\ OpsOf(P \o On \o R \o Q) \subseteq {"send", "streamon"}
        /\ "streamon" \in OpsOf(P \o On \o R \o Q)
    <3>1. /\ WellFormed(P \o On \o R) /\ OpsOf(P \o On \o R) \subseteq {"send", "streamon"}
          /\ "streamon" \in OpsOf(P \o On \o R)
      BY <2>2, <2>5, <2>6
    <3>2. QED
      BY <2>2, <2>6, <3>1
  <2>8. /\ WellFormed(On \o T \o U \o R) /\ OpsOf(On \o T \o U \o R) \subseteq {"send", "streamon"}
        /\ "streamon" \in OpsOf(On \o T \o U \o R)
    <3>1. /\ WellFormed(On \o T) /\ OpsOf(On \o T) \subseteq {"send", "streamon"}
          /\ "streamon" \in OpsOf(On \o T)
      BY <1>3, <2>2, <2>6
    <3>2. /\ WellFormed(On \o T \o U) /\ OpsOf(On \o T \o U) \subseteq {"send", "streamon"}
          /\ "streamon" \in OpsOf(On \o T \o U)
      BY <2>2, <2>6, <3>1
    <3>3. QED
      BY <2>2, <2>6, <3>2
  <2>9. StartStream(c) = IF c = "back" THEN P \o On \o R \o Q ELSE On \o T \o U \o R
    BY DEF StartStream, P, On, R, Q, T, U
  <2>10. QED
    BY <2>7, <2>8, <2>9
<1> HIDE DEF A, B, D
<1>6. Start(c) = A \o B \o D
  BY DEF Start, A, B, D
<1>7. WellFormed(A \o B) /\ OpsOf(A \o B) = OpsOf(A) \cup OpsOf(B)
  <2>1. \A a \in Marked(A) : OpsOf(B) \subseteq Later(a)
    BY <1>1, <1>5 DEF Marked, Later
  <2>2. QED
    BY <1>1, <1>5, <2>1, JoinFormed
<1>8. WellFormed(A \o B \o D) /\ OpsOf(A \o B \o D) = OpsOf(A) \cup OpsOf(B) \cup OpsOf(D)
  <2>1. \A a \in Marked(A \o B) : OpsOf(D) \subseteq Later(a)
    BY <1>1, <1>2, <1>5, <1>7 DEF Marked, Marks, Later
  <2>2. OpsOf(D) \cap Stops = {}
    BY <1>2 DEF Stops
  <2>3. QED
    BY <1>2, <1>7, <2>1, <2>2, JoinFormed
<1>9. Marked(Start(c)) = StartMarks
  BY <1>1, <1>2, <1>5, <1>6, <1>8 DEF Marked, Marks, StartMarks
<1>10. WellFormed(Start(c) \o Wake) /\ OpsOf(Start(c) \o Wake) = OpsOf(Start(c)) \cup {"wake"}
  <2>1. \A a \in Marked(Start(c)) : OpsOf(Wake) \subseteq Later(a)
    BY <1>4, <1>9 DEF StartMarks, Later
  <2>2. OpsOf(Wake) \cap Stops = {}
    BY <1>4 DEF Stops
  <2>3. QED
    BY <1>4, <1>6, <1>8, <2>1, <2>2, JoinFormed
<1>11. QED
  BY <1>6, <1>8, <1>9, <1>10 DEF Marked, Marks, StartMarks

(* The ways a thread begins to stop the stream, and the wrapper's waking. *)
LEMMA StopsFormed ==
  /\ WellFormed(<<[op |-> "stop"], [op |-> "look"]>>)
  /\ Marked(<<[op |-> "stop"], [op |-> "look"]>>) = {"stop", "look"}
  /\ WellFormed(<<[op |-> "stop"], [op |-> "park"]>>)
  /\ Marked(<<[op |-> "stop"], [op |-> "park"]>>) = {"stop", "park"}
  /\ WellFormed(Wake) /\ Marked(Wake) = {"wake"}
<1>1. /\ WellFormed(<<[op |-> "stop"], [op |-> "look"]>>)
      /\ OpsOf(<<[op |-> "stop"], [op |-> "look"]>>) = {"stop", "look"}
  BY PairFormed DEF Later, Marks
<1>2. /\ WellFormed(<<[op |-> "stop"], [op |-> "park"]>>)
      /\ OpsOf(<<[op |-> "stop"], [op |-> "park"]>>) = {"stop", "park"}
  BY PairFormed DEF Later, Marks
<1>3. WellFormed(Wake) /\ OpsOf(Wake) = {"wake"}
  BY OneFormed DEF Wake
<1>4. QED
  BY <1>1, <1>2, <1>3 DEF Marked, Marks

-----------------------------------------------------------------------------
(* The steps a thread has left belong together: what must still be in m when
   something else is, ... *)
Belongs(m) ==
  /\ "begin" \in m => "buffers" \in m
  /\ "buffers" \in m => "streamon" \in m
  /\ "streamon" \in m => "started" \in m
  /\ "streamoff" \in m => "stopped" \in m
  /\ "started" \in m => m \cap {"stop", "streamoff", "stopped"} = {}
  /\ "stop" \in m => m \cap {"streamoff", "stopped"} = {}
(* and what the flag and the device are in the middle of a start or a stop. *)
InTheMiddle(m, flag, on) ==
  /\ "started" \in m /\ "begin" \notin m => ~flag
  /\ "streamon" \in m /\ "buffers" \notin m => ~on
  /\ "started" \in m /\ "streamon" \notin m => on
  /\ "stopped" \in m => flag
  /\ "stopped" \in m /\ "streamoff" \notin m => ~on
Untouched(m) == /\ "stopped" \in m => "streamoff" \in m
                /\ "started" \in m => "buffers" \in m
(* Who does what. *)
Concerns(t, m) ==
  IF t = "service" THEN /\ m \cap {"stop", "streamoff", "stopped", "look", "park"} = {}
                        /\ "started" \in m => "wake" \in m
                   ELSE m \cap {"wake", "halt"} = {}

Left(t) == Marked(todo[t])
Sequenced == /\ DOMAIN todo = Threads
             /\ \A t \in Threads :
                  WellFormed(todo[t]) /\ Belongs(Left(t)) /\ Concerns(t, Left(t))
(* The service leaves the stream alone while the preview thread is at work. *)
TakeTurns == /\ "wake" \in Left("service") => parked
             /\ parked => todo["preview"] = <<>>
             /\ camera = None => parked /\ todo["service"] = <<>>
FlagAndStream ==
  /\ \A t \in Threads : InTheMiddle(Left(t), m_flag_camera_start, streaming)
  /\ (\A t \in Threads : Untouched(Left(t))) => cut \/ (m_flag_camera_start <=> streaming)
StreamInv == Sequenced /\ TakeTurns /\ FlagAndStream

(* A thread goes on with q: what q has to agree with, and what the other thread
   still has left. *)
LEMMA MovesOn ==
  ASSUME StreamInv, NEW t \in Threads, NEW q, camera' # None, WellFormed(q), Do(t, q),
         Belongs(Marked(q)), Concerns(t, Marked(q)),
         InTheMiddle(Marked(q), m_flag_camera_start', streaming'),
         t = "service" => /\ "wake" \in Marked(q) => parked'
                          /\ parked' => todo["preview"] = <<>>,
         t = "preview" => (parked' => q = <<>>) /\ (parked => parked'),
         \A u \in Threads \ {t} :
           InTheMiddle(Left(u), m_flag_camera_start', streaming'),
         Untouched(Marked(q)) /\ (\A u \in Threads \ {t} : Untouched(Left(u)))
           => cut' \/ (m_flag_camera_start' <=> streaming')
  PROVE  StreamInv'
<1>1. /\ DOMAIN todo' = Threads /\ todo'[t] = q
      /\ \A u \in Threads \ {t} : todo'[u] = todo[u]
  BY DEF Do, StreamInv, Sequenced
<1>2. Left(t)' = Marked(q) /\ \A u \in Threads \ {t} : Left(u)' = Left(u)
  BY <1>1 DEF Left
<1>3. camera' # None
  OBVIOUS
<1>4. Sequenced'
  <2>1. ASSUME NEW u \in Threads
        PROVE  WellFormed(todo'[u]) /\ Belongs(Left(u)') /\ Concerns(u, Left(u)')
    <3>1. CASE u = t
      BY <1>1, <1>2, <3>1
    <3>2. CASE u # t
      BY <1>1, <1>2, <3>2 DEF StreamInv, Sequenced
    <3>3. QED
      BY <3>1, <3>2
  <2>2. QED
    BY <1>1, <2>1 DEF Sequenced
<1>5. TakeTurns'
  <2>1. CASE t = "service"
    <3>1. Left("service")' = Marked(q) /\ todo'["preview"] = todo["preview"]
      BY <1>1, <1>2, <2>1 DEF Threads
    <3>2. QED
      BY <1>3, <2>1, <3>1 DEF TakeTurns
  <2>2. CASE t = "preview"
    <3>1. Left("service")' = Left("service") /\ todo'["preview"] = q
      BY <1>1, <1>2, <2>2 DEF Threads
    <3>2. "wake" \in Left("service") => parked
      BY DEF StreamInv, TakeTurns
    <3>3. QED
      BY <1>3, <2>2, <3>1, <3>2 DEF TakeTurns
  <2>3. QED
    BY <2>1, <2>2 DEF Threads
<1>6. FlagAndStream'
  <2>1. ASSUME NEW u \in Threads
        PROVE  InTheMiddle(Left(u)', m_flag_camera_start', streaming')
    BY <1>2
  <2>2. ASSUME \A u \in Threads : Untouched(Left(u)')
        PROVE  cut' \/ (m_flag_camera_start' <=> streaming')
    <3>1. Untouched(Marked(q))
      BY <1>2, <2>2
    <3>2. \A u \in Threads \ {t} : Untouched(Left(u))
      BY <1>2, <2>2
    <3>3. QED
      BY <3>1, <3>2
  <2>3. QED
    BY <2>1, <2>2 DEF FlagAndStream
<1>7. QED
  BY <1>4, <1>5, <1>6 DEF StreamInv

(* What the invariant says of the step at the head and of what comes after it. *)
LEMMA HeadDone ==
  ASSUME StreamInv, NEW t \in Threads, todo[t] # <<>>
  PROVE  /\ WellFormed(Tail(todo[t])) /\ Marked(Tail(todo[t])) = Left(t) \ {Head(todo[t]).op}
         /\ "op" \in DOMAIN Head(todo[t])
         /\ Head(todo[t]).op = "send" => OpsOf(Tail(todo[t])) \cap Stops = {}
         /\ Head(todo[t]).op \in Marks =>
              /\ Head(todo[t]).op \in Left(t)
              /\ OpsOf(Tail(todo[t])) \subseteq Later(Head(todo[t]).op)
         /\ camera # None /\ Belongs(Left(t)) /\ Concerns(t, Left(t))
         /\ InTheMiddle(Left(t), m_flag_camera_start, streaming)
<1>1. camera # None
  <2>1. t = "service" \/ t = "preview"
    BY DEF Threads
  <2>2. QED
    BY <2>1 DEF StreamInv, TakeTurns
<1>2. WellFormed(todo[t]) /\ Belongs(Left(t)) /\ Concerns(t, Left(t))
  BY DEF StreamInv, Sequenced
<1>3. InTheMiddle(Left(t), m_flag_camera_start, streaming)
  BY DEF StreamInv, FlagAndStream
<1>4. QED
  BY <1>1, <1>2, <1>3, TailFormed DEF Left

(* A step that is neither of a start nor of a stop, or the last of them. *)
LEMMA MovesAside ==
  ASSUME StreamInv, NEW t \in Threads, NEW q, todo[t] # <<>>, WellFormed(q), Do(t, q),
         UNCHANGED <<camera, parked, streamVars>>,
         Marked(q) \subseteq Left(t), Left(t) \subseteq Marked(q) \cup {"frame", "look"}
  PROVE  StreamInv'
<1>1. /\ \A x : x \notin {"frame", "look"} => (x \in Marked(q) <=> x \in Left(t))
      /\ \A x : x \in Marked(q) => x \in Left(t)
  OBVIOUS
<1>2. Belongs(Left(t)) /\ Concerns(t, Left(t))
  BY DEF StreamInv, Sequenced
<1>3. Belongs(Marked(q))
  BY <1>1, <1>2 DEF Belongs
<1>4. /\ m_flag_camera_start' = m_flag_camera_start /\ streaming' = streaming /\ cut' = cut
      /\ camera' = camera /\ parked' = parked
  BY DEF streamVars
<1>5. \A u \in Threads : InTheMiddle(Left(u), m_flag_camera_start, streaming)
  BY DEF StreamInv, FlagAndStream
<1>6. InTheMiddle(Marked(q), m_flag_camera_start, streaming)
  BY <1>1, <1>5 DEF InTheMiddle
<1>7. Untouched(Marked(q)) => Untouched(Left(t))
  BY <1>1 DEF Untouched
<1>8. ASSUME Untouched(Marked(q)), \A u \in Threads \ {t} : Untouched(Left(u))
      PROVE  cut \/ (m_flag_camera_start <=> streaming)
  BY <1>7, <1>8 DEF StreamInv, FlagAndStream
<1>9. t = "service" => /\ "wake" \in Marked(q) => parked
                       /\ parked => todo["preview"] = <<>>
  BY <1>1 DEF StreamInv, TakeTurns
<1>10. t = "preview" => ~parked
  BY DEF StreamInv, TakeTurns
<1>11. Concerns(t, Marked(q))
  <2>1. CASE t = "service"
    <3>1. Left(t) \cap {"stop", "streamoff", "stopped", "look", "park"} = {}
      BY <1>2, <2>1 DEF Concerns
    <3>2. "started" \in Left(t) => "wake" \in Left(t)
      BY <1>2, <2>1 DEF Concerns
    <3>3. QED
      BY <1>1, <2>1, <3>1, <3>2 DEF Concerns
  <2>2. CASE t # "service"
    BY <1>1, <1>2, <2>2 DEF Concerns
  <2>3. QED
    BY <2>1, <2>2
<1>12. camera' # None
  BY <1>4, HeadDone
<1>13. QED
  BY <1>3, <1>4, <1>5, <1>6, <1>8, <1>9, <1>10, <1>11, <1>12, MovesOn

(* The steps of the setters and of setParameters. *)
LEMMA SetterKeepsStream ==
  ASSUME StreamInv, NEW t \in Threads, Setter(t) \/ ParameterStep(t)
  PROVE  StreamInv'
<1> DEFINE q == Tail(todo[t])
           h == Head(todo[t])
<1>1. todo[t] # <<>> /\ UNCHANGED <<camera, parked, streamVars>>
  BY DEF Setter, Same, Store, Check, Tell, TellRefused, Displace, DisplaceRefused,
         ParameterStep, Refuse, ShowFps, BatchReflection, At, callVars, threadVars
<1>2. /\ WellFormed(q) /\ Marked(q) = Left(t) \ {h.op}
      /\ Left(t) \subseteq Marks
  BY <1>1, HeadDone DEF Left, Marked
<1>3. ASSUME Do(t, q), h.op \notin Marks
      PROVE  StreamInv'
  <2>1. Marked(q) = Left(t)
    BY <1>2, <1>3
  <2> HIDE DEF q, h
  <2>2. QED
    BY <1>1, <1>2, <1>3, <2>1, MovesAside
<1>4. CASE Same(t) \/ Tell(t) \/ TellRefused(t) \/ Displace(t)
  <2>1. h.op \in {"set", "tell", "displace"} /\ Do(t, q)
    BY <1>4 DEF Same, Tell, TellRefused, Displace, At, Done
  <2>2. QED
    BY <1>3, <2>1 DEF Marks
<1>5. CASE ParameterStep(t)
  <2>1. h.op \in {"refuse", "fps", "batch"} /\ Do(t, q)
    BY <1>5 DEF ParameterStep, Refuse, ShowFps, BatchReflection, At, Done
  <2>2. QED
    BY <1>3, <2>1 DEF Marks
<1>6. ASSUME NEW p, Plain(p), Do(t, p \o q), h.op \notin Marks
      PROVE  StreamInv'
  <2>1. WellFormed(p \o q) /\ Marked(p \o q) = Left(t)
    BY <1>2, <1>6, PlainFirst
  <2>2. QED
    BY <1>1, <1>6, <2>1, MovesAside
<1>7. CASE Store(t)
  <2> DEFINE o == [h EXCEPT !.op = "check"]
  <2>1. h.op = "set" /\ Do(t, <<o>> \o q)
    BY <1>7 DEF Store, At
  <2>2. "op" \in DOMAIN o /\ o.op = "check"
    BY <1>1, HeadDone
  <2> HIDE DEF o
  <2>3. Plain(<<o>>)
    BY <2>2, PlainOne DEF Marks
  <2>4. QED
    BY <1>6, <2>1, <2>3 DEF Marks
<1>8. CASE Check(t)
  <2> DEFINE o == [h EXCEPT !.op = "tell"]
             d == [op |-> "displace"]
             p == (IF h.key = "face" /\ h.value = "on" THEN <<d>> ELSE <<>>) \o <<o>>
  <2>1. h.op = "check" /\ (Do(t, q) \/ Do(t, p \o q))
    BY <1>8 DEF Check, At, Done
  <2>2. "op" \in DOMAIN o /\ o.op = "tell"
    BY <1>1, HeadDone
  <2>3. "op" \in DOMAIN d /\ d.op = "displace"
    OBVIOUS
  <2> HIDE DEF o, d
  <2>4. Plain(<<>> \o <<o>>)
    BY <2>2, PlainOne, PlainEmpty, PlainJoin DEF Marks
  <2>5. Plain(<<d>> \o <<o>>)
    <3> DEFINE a == <<d>>
               b == <<o>>
               E == {d, o}
               r == a \o b
    <3>1. a \in Seq(E) /\ b \in Seq(E) /\ Len(a) = 1 /\ Len(b) = 1 /\ a[1] = d /\ b[1] = o
      OBVIOUS
    <3> HIDE DEF a, b, E
    <3>2. /\ r \in Seq(E) /\ Len(r) = 1 + 1
          /\ \A i \in 1 .. 1 + 1 : r[i] = IF i <= 1 THEN a[i] ELSE b[i - 1]
      <4>1. a \in Seq(E) /\ b \in Seq(E) /\ Len(a) \in Nat /\ Len(b) \in Nat
        BY <3>1
      <4>2. /\ r \in Seq(E) /\ Len(r) = Len(a) + Len(b)
            /\ \A i \in 1 .. Len(a) + Len(b) : r[i] = IF i <= Len(a) THEN a[i] ELSE b[i - Len(a)]
        BY <4>1
      <4>3. Len(a) = 1 /\ Len(b) = 1
        BY <3>1
      <4> HIDE DEF r
      <4>4. QED
        BY <4>2, <4>3
    <3> HIDE DEF r
    <3>3. DOMAIN r = {1, 2} /\ r[1] = d /\ r[2] = o /\ IsSequence(r)
      <4>1. 1 \in 1 .. 1 + 1 /\ 2 \in 1 .. 1 + 1 /\ 2 - 1 = 1 /\ 1 <= 1 /\ ~(2 <= 1)
        OBVIOUS
      <4>2. DOMAIN r = 1 .. 1 + 1 /\ IsSequence(r)
        BY <3>2 DEF IsSequence
      <4>3. r[1] = d
        BY <3>1, <3>2, <4>1
      <4>4. r[2] = o
        BY <3>1, <3>2, <4>1
      <4>5. 1 .. 1 + 1 = {1, 2}
        OBVIOUS
      <4>6. QED
        BY <4>2, <4>3, <4>4, <4>5
    <3>4. WellFormed(r) /\ OpsOf(r) = {"displace", "tell"}
      BY <2>2, <2>3, <3>3, TwoFormed DEF Marks
    <3>5. QED
      BY <3>4 DEF Plain, Marked, Marks, r, a, b
  <2>6. Plain(p)
    BY <2>4, <2>5
  <2> HIDE DEF p
  <2>7. QED
    BY <1>3, <1>6, <2>1, <2>6 DEF Marks
<1>9. CASE DisplaceRefused(t)
  <2>1. h.op = "displace" /\ Do(t, Tail(Tail(todo[t])))
    BY <1>9 DEF DisplaceRefused, At
  <2>2. WellFormed(todo[t])
    BY DEF StreamInv, Sequenced
  <2>3. WellFormed(Tail(Tail(todo[t]))) /\ Marked(Tail(Tail(todo[t]))) = Left(t)
    BY <1>1, <2>1, <2>2, PairSkipped DEF Left
  <2>4. QED
    BY <1>1, <2>1, <2>3, MovesAside
<1>10. QED
  BY <1>4, <1>5, <1>7, <1>8, <1>9 DEF Setter

-----------------------------------------------------------------------------
(* A thread that starts or stops the stream is alone. *)
LEMMA OthersIdle ==
  ASSUME StreamInv, NEW t \in Threads, NEW u \in Threads \ {t}, todo[t] # <<>>,
         t = "service" => "wake" \in Left(t)
  PROVE  /\ \A flag, on : InTheMiddle(Left(u), flag, on)
         /\ Untouched(Left(u))
<1>1. Left(u) \cap {"begin", "buffers", "streamon", "started", "stop", "streamoff", "stopped"} = {}
  <2>1. CASE t = "service"
    <3>1. u = "preview" /\ todo[u] = <<>>
      BY <2>1 DEF Threads, StreamInv, TakeTurns
    <3>2. QED
      BY <3>1, EmptyFormed DEF Left
  <2>2. CASE t = "preview"
    <3>1. u = "service" /\ "wake" \notin Left(u)
      BY <2>2 DEF Threads, StreamInv, TakeTurns
    <3>2. Belongs(Left(u)) /\ Concerns(u, Left(u))
      BY DEF StreamInv, Sequenced
    <3>3. Left(u) \cap {"stop", "streamoff", "stopped", "look", "park"} = {}
      BY <3>1, <3>2 DEF Concerns
    <3>4. "started" \notin Left(u)
      BY <3>1, <3>2 DEF Concerns
    <3>5. QED
      BY <3>2, <3>3, <3>4 DEF Belongs
  <2>3. QED
    BY <2>1, <2>2 DEF Threads
<1>2. QED
  BY <1>1 DEF InTheMiddle, Untouched

(* A step of a start or of a stop. *)
LEMMA MovesStream ==
  ASSUME StreamInv, NEW t \in Threads, NEW q, todo[t] # <<>>, WellFormed(q), Do(t, q),
         UNCHANGED <<camera, parked>>, t = "service" => "wake" \in Left(t),
         Belongs(Marked(q)), Concerns(t, Marked(q)),
         NEW flag, NEW on, m_flag_camera_start' = flag, streaming' = on,
         InTheMiddle(Marked(q), flag, on),
         Untouched(Marked(q)) => cut' \/ (flag <=> on)
  PROVE  StreamInv'
<1>1. \A u \in Threads \ {t} : InTheMiddle(Left(u), flag, on)
  BY OthersIdle
<1>2. t = "service" => parked
  BY DEF StreamInv, TakeTurns
<1>3. t = "preview" => ~parked
  BY DEF StreamInv, TakeTurns
<1>4. parked' = parked /\ camera' # None
  BY HeadDone
<1>5. parked => todo["preview"] = <<>>
  BY DEF StreamInv, TakeTurns
<1>6. cut' \/ (m_flag_camera_start' <=> streaming') \/ ~Untouched(Marked(q))
  OBVIOUS
<1>7. QED
  BY <1>1, <1>2, <1>3, <1>4, <1>5, <1>6, MovesOn

(* The steps of a start. *)
LEMMA StartKeepsStream ==
  ASSUME StreamInv, NEW t \in Threads, StartStep(t)
  PROVE  StreamInv'
<1> DEFINE q == Tail(todo[t])
           h == Head(todo[t])
<1>1. todo[t] # <<>> /\ camera' = camera /\ camera' # None
  <2>1. todo[t] # <<>> /\ camera' = camera
    BY DEF StartStep, AlreadyStarted, RequestBuffers, BuffersRefused, SendSettings, StreamOn,
           SetStarted, FirstFrame, StartFails, WakePreview, At, callVars
  <2>2. QED
    BY <2>1, HeadDone
<1>2. /\ WellFormed(q) /\ Marked(q) = Left(t) \ {h.op}
      /\ h.op = "send" => OpsOf(q) \cap Stops = {}
      /\ h.op \in Marks => h.op \in Left(t) /\ OpsOf(q) \subseteq Later(h.op)
      /\ Belongs(Left(t)) /\ Concerns(t, Left(t))
      /\ InTheMiddle(Left(t), m_flag_camera_start, streaming)
  BY <1>1, HeadDone
<1>3. h.op \in {"begin", "buffers", "streamon", "started"} =>
        "started" \in Left(t) /\ (t = "service" => "wake" \in Left(t))
  <2>1. h.op \in {"begin", "buffers", "streamon", "started"} => h.op \in Left(t)
    BY <1>2 DEF Marks
  <2>2. h.op \in {"begin", "buffers", "streamon", "started"} => "started" \in Left(t)
    BY <1>2, <2>1 DEF Belongs
  <2>3. t = "service" => ("started" \in Left(t) => "wake" \in Left(t))
    BY <1>2 DEF Concerns
  <2>4. QED
    BY <2>2, <2>3
<1>4. (\A u \in Threads : Untouched(Left(u))) => cut \/ (m_flag_camera_start <=> streaming)
  BY DEF StreamInv, FlagAndStream
<1>5. (t = "service" /\ "wake" \in Left(t)) \/ t = "preview" =>
        \A u \in Threads \ {t} : Untouched(Left(u))
  BY <1>1, OthersIdle
<1>6. /\ Marked(q) \subseteq OpsOf(q)
      /\ Belongs({}) /\ Concerns(t, {}) /\ Untouched({})
      /\ InTheMiddle({}, m_flag_camera_start, streaming)
  BY DEF Marked, Belongs, Concerns, Untouched, InTheMiddle
<1>7. /\ WellFormed(<<>>) /\ Marked(<<>>) = {}
      /\ WellFormed(Wake) /\ Marked(Wake) = {"wake"}
  BY EmptyFormed, StopsFormed
<1>8. t = "service" \/ t = "preview"
  BY DEF Threads
<1> HIDE DEF q, h
<1>9. CASE AlreadyStarted(t)
  <2>1. /\ h.op = "begin" /\ parked' = parked
        /\ m_flag_camera_start' = m_flag_camera_start /\ streaming' = streaming /\ cut' = cut
        /\ IF m_flag_camera_start THEN Do(t, IF t = "service" THEN Wake ELSE <<>>) ELSE Do(t, q)
    BY <1>9 DEF AlreadyStarted, At, Done, streamVars, threadVars, q, h
  <2>2. "begin" \in Left(t) /\ "buffers" \in Left(t) /\ "started" \in Left(t)
    BY <1>2, <1>3, <2>1 DEF Marks, Belongs
  <2>3. Untouched(Left(t))
    BY <1>2, <2>2 DEF Untouched, Belongs
  <2>4. cut \/ (m_flag_camera_start <=> streaming)
    BY <1>3, <1>4, <1>5, <1>8, <2>1, <2>3
  <2>5. CASE m_flag_camera_start
    <3> DEFINE r == IF t = "service" THEN Wake ELSE <<>>
    <3>1. /\ WellFormed(r) /\ Belongs(Marked(r)) /\ Concerns(t, Marked(r))
          /\ InTheMiddle(Marked(r), m_flag_camera_start, streaming)
      BY <1>7 DEF Belongs, Concerns, InTheMiddle
    <3> HIDE DEF r
    <3>2. Do(t, r)
      BY <2>1, <2>5 DEF r
    <3>3. QED
      BY <1>1, <1>3, <2>1, <2>4, <3>1, <3>2, MovesStream
  <2>6. CASE ~m_flag_camera_start
    <3>1. Belongs(Marked(q)) /\ Concerns(t, Marked(q))
      BY <1>2, <1>8, <2>1 DEF Belongs, Concerns
    <3>2. InTheMiddle(Marked(q), m_flag_camera_start, streaming)
      BY <1>2, <2>1, <2>2, <2>6 DEF InTheMiddle
    <3>3. Do(t, q)
      BY <2>1, <2>6
    <3>4. QED
      BY <1>1, <1>2, <1>3, <2>1, <2>4, <3>1, <3>2, <3>3, MovesStream
  <2>7. QED
    BY <2>5, <2>6
<1>10. CASE RequestBuffers(t)
  <2>1. /\ h.op = "buffers" /\ parked' = parked /\ ~streaming
        /\ m_flag_camera_start' = m_flag_camera_start /\ streaming' = streaming /\ cut' = cut
        /\ Do(t, q)
    BY <1>10 DEF RequestBuffers, At, Done, streamVars, threadVars, q, h
  <2>2. "buffers" \in Left(t) /\ "started" \in Left(t) /\ "begin" \notin Marked(q)
    BY <1>2, <1>3, <1>6, <2>1 DEF Marks, Later
  <2>3. Belongs(Marked(q)) /\ Concerns(t, Marked(q))
    BY <1>2, <1>8, <2>1, <2>2 DEF Belongs, Concerns
  <2>4. InTheMiddle(Marked(q), m_flag_camera_start, streaming)
    BY <1>2, <2>1, <2>2 DEF InTheMiddle, Belongs
  <2>5. ~Untouched(Marked(q))
    BY <1>2, <2>1, <2>2 DEF Untouched
  <2>6. QED
    BY <1>1, <1>2, <1>3, <2>1, <2>3, <2>4, <2>5, MovesStream
<1>11. CASE BuffersRefused(t)
  <2>1. /\ h.op = "buffers" /\ parked' = parked
        /\ m_flag_camera_start' = m_flag_camera_start /\ streaming' = streaming /\ cut' = cut
        /\ Do(t, <<>>)
    BY <1>11 DEF BuffersRefused, At, streamVars, threadVars, h
  <2>2. "buffers" \in Left(t) /\ "started" \in Left(t)
    BY <1>2, <1>3, <2>1 DEF Marks
  <2>3. Untouched(Left(t))
    BY <1>2, <2>2 DEF Untouched, Belongs
  <2>4. cut \/ (m_flag_camera_start <=> streaming)
    BY <1>3, <1>4, <1>5, <1>8, <2>1, <2>3
  <2>5. QED
    BY <1>1, <1>3, <1>6, <1>7, <2>1, <2>4, MovesStream
<1>12. CASE SendSettings(t) \/ FirstFrame(t)
  <2>1. h.op \in {"send", "frame"} /\ Do(t, q) /\ UNCHANGED <<camera, parked, streamVars>>
    BY <1>12 DEF SendSettings, FirstFrame, At, Done, callVars, threadVars, q, h
  <2>2. Left(t) \subseteq Marked(q) \cup {"frame"} /\ Marked(q) \subseteq Left(t)
    BY <1>2, <2>1 DEF Left, Marked, Marks
  <2>3. QED
    BY <1>1, <1>2, <2>1, <2>2, MovesAside
<1>13. CASE StreamOn(t)
  <2>1. /\ h.op = "streamon" /\ parked' = parked /\ streaming' = TRUE
        /\ m_flag_camera_start' = m_flag_camera_start /\ cut' = cut /\ Do(t, q)
    BY <1>13 DEF StreamOn, At, Done, threadVars, q, h
  <2>2. /\ "streamon" \in Left(t) /\ "started" \in Left(t)
        /\ "begin" \notin Marked(q) /\ "buffers" \notin Marked(q)
    BY <1>2, <1>3, <1>6, <2>1 DEF Marks, Later
  <2>3. Belongs(Marked(q)) /\ Concerns(t, Marked(q))
    BY <1>2, <1>8, <2>1, <2>2 DEF Belongs, Concerns
  <2>4. InTheMiddle(Marked(q), m_flag_camera_start, TRUE)
    BY <1>2, <2>1, <2>2 DEF InTheMiddle, Belongs
  <2>5. ~Untouched(Marked(q))
    BY <1>2, <2>1, <2>2 DEF Untouched
  <2>6. QED
    BY <1>1, <1>2, <1>3, <2>1, <2>3, <2>4, <2>5, MovesStream
<1>14. CASE SetStarted(t)
  <2>1. /\ h.op = "started" /\ parked' = parked /\ m_flag_camera_start' = TRUE
        /\ streaming' = streaming /\ cut' = cut /\ Do(t, q)
    BY <1>14 DEF SetStarted, At, Done, threadVars, q, h
  <2>2. /\ "started" \in Left(t)
        /\ Marked(q) \cap {"begin", "buffers", "streamon", "started", "stop", "streamoff",
                           "stopped"} = {}
    BY <1>2, <1>3, <1>6, <2>1 DEF Marks, Later
  <2>3. Belongs(Marked(q)) /\ Concerns(t, Marked(q))
    BY <1>2, <1>8, <2>1, <2>2 DEF Belongs, Concerns
  <2>4. InTheMiddle(Marked(q), TRUE, streaming)
    BY <2>2 DEF InTheMiddle
  <2>5. streaming
    <3>1. "streamon" \notin Left(t)
      BY <1>2, <2>1, <2>2
    <3>2. QED
      BY <1>2, <2>2, <3>1 DEF InTheMiddle
  <2>6. cut' \/ (TRUE <=> streaming)
    BY <2>5
  <2>7. QED
    BY <1>1, <1>2, <1>3, <2>1, <2>3, <2>4, <2>6, MovesStream
<1>15. CASE StartFails(t)
  <2>1. /\ h.op \in {"buffers", "send", "streamon", "frame"} /\ parked' = parked
        /\ m_flag_camera_start' = m_flag_camera_start /\ streaming' = streaming
        /\ cut' = (cut \/ (streaming /\ ~m_flag_camera_start)) /\ Do(t, <<>>)
    BY <1>15 DEF StartFails, At, threadVars, h
  <2>2. cut' \/ (m_flag_camera_start <=> streaming) \/ (m_flag_camera_start /\ ~streaming)
    BY <2>1
  <2>3. CASE t = "service" => "wake" \in Left(t)
    <3>1. ASSUME m_flag_camera_start, ~streaming
          PROVE  cut
      <4>1. h.op = "frame" => "started" \notin Left(t) /\ "stopped" \notin Left(t)
        <5>1. h.op = "frame" => Marked(q) \subseteq {"wake"}
          BY <1>2, <1>6 DEF Marks, Later
        <5>2. QED
          BY <1>2, <5>1
      <4>2. h.op = "send" => "stopped" \notin Left(t)
        BY <1>2, <1>6 DEF Stops
      <4>3. h.op \in {"buffers", "streamon"} => "stopped" \notin Left(t)
        BY <1>2, <1>3 DEF Belongs
      <4>4. "stopped" \notin Left(t)
        BY <2>1, <4>1, <4>2, <4>3
      <4>5. "started" \in Left(t) => "begin" \in Left(t)
        BY <1>2, <3>1 DEF InTheMiddle
      <4>6. Untouched(Left(t))
        BY <1>2, <4>4, <4>5 DEF Untouched, Belongs
      <4>7. QED
        BY <1>4, <1>5, <1>8, <2>3, <3>1, <4>6
    <3>2. cut' \/ (m_flag_camera_start <=> streaming)
      BY <2>1, <2>2, <3>1
    <3>3. QED
      BY <1>1, <1>6, <1>7, <2>1, <2>3, <3>2, MovesStream
  <2>4. CASE t = "service" /\ "wake" \notin Left(t)
    <3>1. "started" \notin Left(t) /\ "stopped" \notin Left(t)
      BY <1>2, <2>4 DEF Concerns
    <3>2. Untouched(Left(t))
      BY <3>1 DEF Untouched
    <3>3. ASSUME \A u \in Threads \ {t} : Untouched(Left(u))
          PROVE  cut' \/ (m_flag_camera_start <=> streaming)
      <4>1. cut \/ (m_flag_camera_start <=> streaming)
        BY <1>4, <3>2, <3>3
      <4>2. QED
        BY <2>1, <4>1
    <3>4. \A u \in Threads \ {t} : InTheMiddle(Left(u), m_flag_camera_start, streaming)
      BY DEF StreamInv, FlagAndStream
    <3>5. parked => todo["preview"] = <<>>
      BY DEF StreamInv, TakeTurns
    <3>6. QED
      BY <1>1, <1>6, <1>7, <2>1, <2>4, <3>3, <3>4, <3>5, MovesOn
  <2>5. QED
    BY <1>8, <2>3, <2>4
<1>16. CASE WakePreview(t)
  <2>1. /\ h.op = "wake" /\ parked' = FALSE
        /\ m_flag_camera_start' = m_flag_camera_start /\ streaming' = streaming /\ cut' = cut
        /\ Do(t, q)
    BY <1>16 DEF WakePreview, At, Done, streamVars, q, h
  <2>2. "wake" \in Left(t) /\ Marked(q) = {}
    BY <1>2, <1>6, <2>1 DEF Marks, Later
  <2>3. t = "service" /\ parked
    <3>1. t = "service"
      BY <1>2, <1>8, <2>2 DEF Concerns
    <3>2. QED
      BY <2>2, <3>1 DEF StreamInv, TakeTurns
  <2>4. \A u \in Threads \ {t} : InTheMiddle(Left(u), m_flag_camera_start, streaming)
    BY DEF StreamInv, FlagAndStream
  <2>5. Untouched(Left(t))
    <3>1. Left(t) \subseteq {"wake"}
      BY <1>2, <2>1, <2>2
    <3>2. QED
      BY <3>1 DEF Untouched
  <2>6. (\A u \in Threads \ {t} : Untouched(Left(u)))
           => cut' \/ (m_flag_camera_start <=> streaming)
    BY <1>4, <2>1, <2>5
  <2>7. QED
    BY <1>1, <1>2, <1>6, <2>1, <2>2, <2>3, <2>4, <2>6, MovesOn
<1>17. QED
  BY <1>9, <1>10, <1>11, <1>12, <1>13, <1>14, <1>15, <1>16 DEF StartStep

(* The steps of a stop. *)
LEMMA StopKeepsStream ==
  ASSUME StreamInv, NEW t \in Threads, StopStep(t)
  PROVE  StreamInv'
<1> DEFINE q == Tail(todo[t])
           h == Head(todo[t])
<1>1. todo[t] # <<>> /\ camera' = camera /\ parked' = parked
  BY DEF StopStep, BeginStop, StreamOff, StreamOffFails, SetStopped, At, callVars, threadVars
<1>2. /\ WellFormed(q) /\ Marked(q) = Left(t) \ {h.op} /\ WellFormed(todo[t])
      /\ h.op \in Marks => h.op \in Left(t) /\ OpsOf(q) \subseteq Later(h.op)
      /\ Belongs(Left(t)) /\ Concerns(t, Left(t))
      /\ InTheMiddle(Left(t), m_flag_camera_start, streaming)
  BY <1>1, HeadDone DEF StreamInv, Sequenced
<1>3. h.op \in Stops
  BY DEF StopStep, BeginStop, StreamOff, StreamOffFails, SetStopped, At, Stops
<1>4. t = "preview" /\ h.op \in Left(t)
  <2>1. h.op \in Left(t)
    BY <1>2, <1>3 DEF Marks, Stops
  <2>2. t = "service" => Left(t) \cap {"stop", "streamoff", "stopped", "look", "park"} = {}
    BY <1>2 DEF Concerns
  <2>3. QED
    BY <1>3, <2>1, <2>2 DEF Stops, Threads
<1>5. (\A u \in Threads : Untouched(Left(u))) => cut \/ (m_flag_camera_start <=> streaming)
  BY DEF StreamInv, FlagAndStream
<1>6. \A u \in Threads \ {t} : Untouched(Left(u))
  BY <1>1, <1>4, OthersIdle
<1>7. t # "service" /\ Marked(q) \subseteq OpsOf(q)
  BY <1>4 DEF Marked
<1>8. Marked(q) \cap {"wake", "halt"} = {}
  BY <1>2, <1>7 DEF Concerns
<1> HIDE DEF q, h
<1>9. CASE BeginStop(t)
  <2>1. /\ h.op = "stop"
        /\ m_flag_camera_start' = m_flag_camera_start /\ streaming' = streaming /\ cut' = cut
        /\ Do(t, (IF ~m_flag_camera_start THEN <<>>
                  ELSE (IF m_params.flash = "torch" THEN Set("flash", "off", None) ELSE <<>>)
                         \o <<[op |-> "streamoff"], [op |-> "stopped"]>>)
                   \o q)
    BY <1>9 DEF BeginStop, At, streamVars, q, h
  <2>2. OpsOf(q) \subseteq {"look", "park"}
    BY <1>2, <2>1 DEF Marks, Later
  <2>3. cut \/ (m_flag_camera_start <=> streaming)
    <3>1. Untouched(Left(t))
      BY <1>2, <1>4, <2>1 DEF Untouched, Belongs
    <3>2. QED
      BY <1>5, <1>6, <3>1
  <2>4. CASE ~m_flag_camera_start
    <3>1. WellFormed(<<>> \o q) /\ Marked(<<>> \o q) = Marked(q)
      BY <1>2, PlainEmpty, PlainFirst
    <3>2. Belongs(Marked(q)) /\ Concerns(t, Marked(q))
      BY <1>7, <1>8, <2>2 DEF Belongs, Concerns
    <3>3. InTheMiddle(Marked(q), m_flag_camera_start, streaming)
      BY <1>7, <2>2 DEF InTheMiddle
    <3>4. Do(t, <<>> \o q)
      BY <2>1, <2>4
    <3>5. QED
      BY <1>1, <1>7, <2>1, <2>3, <3>1, <3>2, <3>3, <3>4, MovesStream
  <2>5. CASE m_flag_camera_start
    <3> DEFINE p == IF m_params.flash = "torch" THEN Set("flash", "off", None) ELSE <<>>
               s == <<[op |-> "streamoff"], [op |-> "stopped"]>>
    <3>1. Plain(p)
      BY SettersPlain, PlainEmpty
    <3>2. WellFormed(s) /\ OpsOf(s) = {"streamoff", "stopped"}
      BY PairFormed DEF Later, Marks
    <3>3. Do(t, p \o s \o q)
      BY <2>1, <2>5
    <3> HIDE DEF p, s
    <3>4. /\ WellFormed(p \o s) /\ Marked(p \o s) = Marked(s)
          /\ OpsOf(p \o s) = OpsOf(p) \cup OpsOf(s)
      BY <3>1, <3>2, PlainFirst
    <3>5. Marked(s) = {"streamoff", "stopped"}
      BY <3>2 DEF Marked, Marks
    <3>6. WellFormed(p \o s \o q) /\ OpsOf(p \o s \o q) = OpsOf(p \o s) \cup OpsOf(q)
      <4>1. \A a \in Marked(p \o s) : OpsOf(q) \subseteq Later(a)
        BY <2>2, <3>4, <3>5 DEF Later
      <4>2. "send" \notin OpsOf(p \o s)
        BY <3>1, <3>2, <3>4 DEF Plain
      <4>3. QED
        BY <1>2, <3>4, <4>1, <4>2, JoinFormed
    <3>7. Marked(p \o s \o q) = {"streamoff", "stopped"} \cup Marked(q)
      BY <3>4, <3>5, <3>6 DEF Marked
    <3> DEFINE r == p \o s \o q
    <3> HIDE DEF r
    <3>8. WellFormed(r) /\ Marked(r) = {"streamoff", "stopped"} \cup Marked(q) /\ Do(t, r)
      BY <3>3, <3>6, <3>7 DEF r
    <3>9. Belongs(Marked(r)) /\ Concerns(t, Marked(r))
      BY <1>7, <1>8, <2>2, <3>8 DEF Belongs, Concerns
    <3>10. InTheMiddle(Marked(r), m_flag_camera_start, streaming)
      BY <1>7, <2>2, <2>5, <3>8 DEF InTheMiddle
    <3>11. QED
      BY <1>1, <1>7, <2>1, <2>3, <3>8, <3>9, <3>10, MovesStream
  <2>6. QED
    BY <2>4, <2>5
<1>10. CASE StreamOff(t)
  <2>1. /\ h.op = "streamoff" /\ streaming' = FALSE
        /\ m_flag_camera_start' = m_flag_camera_start /\ cut' = cut /\ Do(t, q)
    BY <1>10 DEF StreamOff, At, Done, q, h
  <2>2. "streamoff" \in Left(t) /\ "stopped" \in Left(t)
    BY <1>2, <1>4, <2>1 DEF Belongs
  <2>3. Marked(q) \subseteq {"stopped", "look", "park"} /\ "stopped" \in Marked(q)
    BY <1>2, <1>7, <2>1, <2>2 DEF Marks, Later
  <2>4. Belongs(Marked(q)) /\ Concerns(t, Marked(q))
    BY <1>7, <1>8, <2>3 DEF Belongs, Concerns
  <2>5. InTheMiddle(Marked(q), m_flag_camera_start, FALSE)
    BY <1>2, <2>2, <2>3 DEF InTheMiddle
  <2>6. ~Untouched(Marked(q))
    BY <2>3 DEF Untouched
  <2>7. QED
    BY <1>1, <1>2, <1>7, <2>1, <2>4, <2>5, <2>6, MovesStream
<1>11. CASE StreamOffFails(t)
  <2> DEFINE r == Tail(Tail(todo[t]))
  <2>1. /\ h.op = "streamoff" /\ streaming' = streaming
        /\ m_flag_camera_start' = m_flag_camera_start /\ cut' = cut /\ Do(t, r)
    BY <1>11 DEF StreamOffFails, At, streamVars, h
  <2>2. WellFormed(r) /\ Marked(r) = Left(t) \ {"streamoff", "stopped"}
    BY <1>1, <1>2, <2>1, PairSkipped DEF h, Left
  <2> HIDE DEF r
  <2>3. "streamoff" \in Left(t) /\ "stopped" \in Left(t)
    BY <1>2, <1>4, <2>1 DEF Belongs
  <2>4. Left(t) \subseteq {"streamoff", "stopped", "look", "park"}
    BY <1>2, <1>7, <2>1 DEF Marks, Later
  <2>5. Belongs(Marked(r)) /\ Concerns(t, Marked(r))
    BY <1>7, <2>2, <2>4 DEF Belongs, Concerns
  <2>6. InTheMiddle(Marked(r), m_flag_camera_start, streaming)
    BY <2>2, <2>4 DEF InTheMiddle
  <2>7. cut \/ (m_flag_camera_start <=> streaming)
    <3>1. Untouched(Left(t))
      BY <2>3, <2>4 DEF Untouched
    <3>2. QED
      BY <1>5, <1>6, <3>1
  <2>8. QED
    BY <1>1, <1>7, <2>1, <2>2, <2>5, <2>6, <2>7, MovesStream
<1>12. CASE SetStopped(t)
  <2>1. /\ h.op = "stopped" /\ streaming' = streaming
        /\ m_flag_camera_start' = FALSE /\ Do(t, q)
    BY <1>12 DEF SetStopped, At, Done, q, h
  <2>2. Marked(q) \subseteq {"look", "park"}
    BY <1>2, <1>7, <2>1 DEF Marks, Later
  <2>3. "stopped" \in Left(t) /\ "streamoff" \notin Left(t)
    BY <1>2, <1>4, <2>1, <2>2
  <2>4. ~streaming
    BY <1>2, <2>3 DEF InTheMiddle
  <2>5. Belongs(Marked(q)) /\ Concerns(t, Marked(q))
    BY <1>7, <1>8, <2>2 DEF Belongs, Concerns
  <2>6. InTheMiddle(Marked(q), FALSE, streaming)
    BY <2>2 DEF InTheMiddle
  <2>7. FALSE <=> streaming
    BY <2>4
  <2>8. QED
    BY <1>1, <1>2, <1>7, <2>1, <2>5, <2>6, <2>7, MovesStream
<1>13. QED
  BY <1>9, <1>10, <1>11, <1>12 DEF StopStep

(* A call that is over at once. *)
LEMMA Unmoved ==
  ASSUME StreamInv, todo' = todo, m_flag_camera_start' = m_flag_camera_start,
         streaming' = streaming, cut' = cut, camera' = camera,
         parked' = parked \/ (camera # None /\ "wake" \notin Left("service") /\ ~parked')
  PROVE  StreamInv'
<1>1. \A t \in Threads : Left(t)' = Left(t)
  BY DEF Left
<1>2. Sequenced'
  BY <1>1 DEF StreamInv, Sequenced
<1>3. TakeTurns'
  <2>1. Left("service")' = Left("service")
    BY <1>1 DEF Threads
  <2>2. QED
    BY <2>1 DEF StreamInv, TakeTurns
<1>4. FlagAndStream'
  <2>1. \A t \in Threads : InTheMiddle(Left(t)', m_flag_camera_start', streaming')
    BY <1>1 DEF StreamInv, FlagAndStream
  <2>2. ASSUME \A t \in Threads : Untouched(Left(t)')
        PROVE  cut' \/ (m_flag_camera_start' <=> streaming')
    BY <1>1, <2>2 DEF StreamInv, FlagAndStream
  <2>3. QED
    BY <2>1, <2>2 DEF FlagAndStream
<1>5. QED
  BY <1>2, <1>3, <1>4 DEF StreamInv

(* A thread that has nothing left takes up an operation. *)
LEMMA TakesUp ==
  ASSUME StreamInv, NEW t \in Threads, NEW q, todo[t] = <<>>, WellFormed(q), Do(t, q),
         camera' # None, m_flag_camera_start' = m_flag_camera_start,
         streaming' = streaming, cut' = cut,
         Belongs(Marked(q)), Concerns(t, Marked(q)), Untouched(Marked(q)),
         Marked(q) \cap {"stopped"} = {},
         "streamon" \in Marked(q) => "buffers" \in Marked(q),
         "started" \in Marked(q) => "begin" \in Marked(q) /\ "streamon" \in Marked(q),
         t = "service" => /\ "wake" \in Marked(q) => parked'
                          /\ parked' => todo["preview"] = <<>>,
         t = "preview" => ~parked /\ ~parked'
  PROVE  StreamInv'
<1>1. InTheMiddle(Marked(q), m_flag_camera_start', streaming')
  BY DEF InTheMiddle
<1>2. \A u \in Threads \ {t} : InTheMiddle(Left(u), m_flag_camera_start', streaming')
  BY DEF StreamInv, FlagAndStream
<1>3. Untouched(Left(t))
  BY EmptyFormed DEF Left, Untouched
<1>4. ASSUME \A u \in Threads \ {t} : Untouched(Left(u))
      PROVE  cut' \/ (m_flag_camera_start' <=> streaming')
  <2>1. cut \/ (m_flag_camera_start <=> streaming)
    BY <1>3, <1>4 DEF StreamInv, FlagAndStream
  <2>2. QED
    BY <2>1
<1>5. QED
  BY <1>1, <1>2, <1>4, MovesOn

(* A sequence without steps is empty. *)
LEMMA NothingLeft ==
  ASSUME NEW q, WellFormed(q), OpsOf(q) = {}
  PROVE  q = <<>>
<1>1. Len(q) \in Nat /\ DOMAIN q = 1 .. Len(q) /\ (q = <<>> <=> Len(q) = 0)
  BY Elements DEF WellFormed
<1>2. DOMAIN q = {}
  BY DEF OpsOf
<1>3. Len(q) = 0
  BY <1>1, <1>2
<1>4. QED
  BY <1>1, <1>3

(* The preview thread's own steps. *)
LEMMA PreviewKeepsStream ==
  ASSUME StreamInv, PreviewStep
  PROVE  StreamInv'
<1> DEFINE q == Tail(todo["preview"])
           h == Head(todo["preview"])
<1>1. /\ camera' = camera /\ "preview" \in Threads
      /\ m_flag_camera_start' = m_flag_camera_start /\ streaming' = streaming /\ cut' = cut
  BY DEF PreviewStep, NoData, InputFound, InputNotFound, PreviewStops, Park, callVars,
         streamVars, Threads
<1>2. ASSUME todo["preview"] # <<>>
      PROVE  /\ WellFormed(q) /\ Marked(q) = Left("preview") \ {h.op} /\ camera # None
             /\ h.op \in Marks => h.op \in Left("preview") /\ OpsOf(q) \subseteq Later(h.op)
             /\ ~parked
  BY <1>1, <1>2, HeadDone DEF StreamInv, TakeTurns
<1>3. \A u \in Threads \ {"preview"} :
        InTheMiddle(Left(u), m_flag_camera_start, streaming)
  BY DEF StreamInv, FlagAndStream
<1>4. (\A u \in Threads : Untouched(Left(u))) => cut \/ (m_flag_camera_start <=> streaming)
  BY DEF StreamInv, FlagAndStream
<1>5. camera = None => parked
  BY DEF StreamInv, TakeTurns
<1>6. CASE NoData \/ PreviewStops
  <2>1. PICK r \in {<<[op |-> "stop"], [op |-> "look"]>>, <<[op |-> "stop"], [op |-> "park"]>>} :
          Do("preview", r)
    BY <1>6 DEF NoData, PreviewStops
  <2>2. todo["preview"] = <<>> /\ ~parked /\ parked' = parked
    BY <1>6 DEF NoData, PreviewStops, threadVars
  <2>3. WellFormed(r) /\ (Marked(r) = {"stop", "look"} \/ Marked(r) = {"stop", "park"})
    BY StopsFormed
  <2> HIDE DEF q, h
  <2>4. /\ Belongs(Marked(r)) /\ Concerns("preview", Marked(r)) /\ Untouched(Marked(r))
        /\ Marked(r) \cap {"stopped"} = {} /\ "streamon" \notin Marked(r)
        /\ "started" \notin Marked(r)
    BY <2>3 DEF Belongs, Concerns, Untouched
  <2>5. camera' # None
    BY <1>1, <1>5, <2>2
  <2>6. QED
    BY <1>1, <2>1, <2>2, <2>3, <2>4, <2>5, TakesUp
<1>7. CASE InputFound
  <2>1. /\ todo["preview"] # <<>> /\ h.op = "look" /\ Do("preview", q)
        /\ UNCHANGED <<camera, parked, streamVars>>
    BY <1>7 DEF InputFound, At, Done, callVars, threadVars
  <2>2. WellFormed(q) /\ Marked(q) = Left("preview") \ {"look"}
    BY <1>2, <2>1
  <2> HIDE DEF q, h
  <2>3. QED
    BY <1>1, <2>1, <2>2, MovesAside
<1>8. CASE InputNotFound
  <2>1. /\ todo["preview"] # <<>> /\ h.op = "look" /\ Do("preview", Start(camera))
        /\ parked' = parked
    BY <1>8 DEF InputNotFound, At, threadVars
  <2>2. WellFormed(Start(camera)) /\ Marked(Start(camera)) = StartMarks
    BY StartFormed
  <2>3. OpsOf(q) = {} /\ Left("preview") \subseteq {"look"} /\ ~parked /\ camera # None
    <3>1. OpsOf(q) \subseteq {}
      BY <1>2, <2>1 DEF Marks, Later
    <3>2. Marked(q) \subseteq OpsOf(q)
      BY DEF Marked
    <3>3. QED
      BY <1>2, <2>1, <3>1, <3>2
  <2> DEFINE r == Start(camera)
  <2> HIDE DEF q, h, r
  <2>4. WellFormed(r) /\ Marked(r) = StartMarks /\ Do("preview", r)
    BY <2>1, <2>2 DEF r
  <2>5. Belongs(Marked(r)) /\ Concerns("preview", Marked(r))
    BY <2>4 DEF StartMarks, Belongs, Concerns
  <2>6. InTheMiddle(Marked(r), m_flag_camera_start, streaming)
    BY <2>4 DEF InTheMiddle, StartMarks
  <2>7. Untouched(Left("preview"))
    BY <2>3 DEF Untouched
  <2>8. (\A u \in Threads \ {"preview"} : Untouched(Left(u)))
          => cut \/ (m_flag_camera_start <=> streaming)
    BY <1>4, <2>7
  <2>9. QED
    BY <1>1, <1>3, <2>1, <2>3, <2>4, <2>5, <2>6, <2>8, MovesOn
<1>9. CASE Park
  <2>1. /\ todo["preview"] # <<>> /\ h.op = "park" /\ Do("preview", q) /\ parked' = TRUE
    BY <1>9 DEF Park, At, Done
  <2>2. OpsOf(q) = {} /\ WellFormed(q) /\ camera # None
    BY <1>2, <2>1 DEF Marks, Later
  <2>3. q = <<>> /\ Marked(q) = {}
    BY <2>2, NothingLeft, EmptyFormed
  <2>4. Left("preview") \subseteq {"park"}
    BY <1>2, <2>1, <2>3
  <2> HIDE DEF q, h
  <2>5. /\ Belongs({}) /\ Concerns("preview", {}) /\ Untouched(Left("preview"))
        /\ InTheMiddle({}, m_flag_camera_start, streaming)
    BY <2>4 DEF Belongs, Concerns, Untouched, InTheMiddle
  <2>6. (\A u \in Threads \ {"preview"} : Untouched(Left(u)))
          => cut \/ (m_flag_camera_start <=> streaming)
    BY <1>4, <2>5
  <2>7. QED
    BY <1>1, <1>3, <2>1, <2>2, <2>3, <2>5, <2>6, MovesOn
<1>10. QED
  BY <1>6, <1>7, <1>8, <1>9 DEF PreviewStep

(* The service's calls. *)
LEMMA ServiceKeepsStream ==
  ASSUME StreamInv, ServiceStep, client \in Clients
  PROVE  StreamInv'
<1> DEFINE t == "service"
<1>1. /\ "service" \in Threads /\ "preview" \in Threads
      /\ parked => todo["preview"] = <<>>
      /\ camera = None => parked
  BY DEF Threads, StreamInv, TakeTurns
<1>2. /\ Belongs({}) /\ Concerns("service", {}) /\ Untouched({})
      /\ {} \cap {"stopped"} = {} /\ \A x : x \notin {}
      /\ InTheMiddle({}, m_flag_camera_start, streaming)
  BY DEF Belongs, Concerns, Untouched, InTheMiddle
<1>3. ASSUME todo["service"] = <<>>  PROVE Left("service") = {}
  BY <1>3, EmptyFormed DEF Left
<1>4. ASSUME NEW q, todo["service"] = <<>>, WellFormed(q), Marked(q) \subseteq {"halt"},
             Do("service", q), camera' # None, UNCHANGED streamVars,
             parked' => todo["preview"] = <<>>
      PROVE  StreamInv'
  <2>1. m_flag_camera_start' = m_flag_camera_start /\ streaming' = streaming /\ cut' = cut
    BY <1>4 DEF streamVars
  <2>2. /\ Belongs(Marked(q)) /\ Concerns("service", Marked(q)) /\ Untouched(Marked(q))
        /\ Marked(q) \cap {"stopped"} = {} /\ "streamon" \notin Marked(q)
        /\ "started" \notin Marked(q) /\ "wake" \notin Marked(q)
    BY <1>4 DEF Belongs, Concerns, Untouched
  <2>3. QED
    BY <1>1, <1>4, <2>1, <2>2, TakesUp
<1>5. ASSUME NEW q, Plain(q)  PROVE WellFormed(q) /\ Marked(q) = {}
  BY <1>5 DEF Plain
<1>6. CASE \E c \in client.cameras : Open(c)
  <2>1. PICK c \in client.cameras : Open(c)
    BY <1>6
  <2> DEFINE q == Parameters(c, Defaults(c)) \o Initial(c)
  <2>2. /\ todo["service"] = <<>> /\ camera = None /\ camera' = c /\ Do("service", q)
        /\ UNCHANGED streamVars
    BY <2>1 DEF Open, Calling, Free
  <2>3. Plain(q)
    BY PartsPlain, InitialPlain, PlainJoin
  <2> HIDE DEF q
  <2>4. c # None
    BY ClientsAssumption
  <2>5. QED
    BY <1>1, <1>4, <1>5, <2>2, <2>3, <2>4
<1>7. CASE \E r \in client.changes : SetParameters(r)
  <2>1. PICK r \in client.changes : SetParameters(r)
    BY <1>7
  <2> DEFINE p == [k \in Keys |-> IF k \in DOMAIN r THEN r[k] ELSE mParameters[k]]
             q == Parameters(camera, p)
  <2>2. /\ todo["service"] = <<>> /\ camera # None /\ camera' = camera /\ Do("service", q)
        /\ UNCHANGED streamVars /\ parked' = parked
    BY <2>1 DEF SetParameters, Opened, Calling, Free, threadVars
  <2> HIDE DEF p
  <2>3. Plain(q)
    BY PartsPlain
  <2> HIDE DEF q
  <2>4. QED
    BY <1>1, <1>4, <1>5, <2>2, <2>3
<1>8. CASE \E r \in client.changes : SendCommand(r)
  <2>1. PICK r \in client.changes : SendCommand(r)
    BY <1>8
  <2> DEFINE q == IF mParameters.face = r.face THEN <<>> ELSE Set("face", r.face, r.face)
  <2>2. /\ todo["service"] = <<>> /\ camera # None /\ camera' = camera
        /\ (Do("service", q) \/ todo' = todo)
        /\ UNCHANGED streamVars /\ parked' = parked
    BY <2>1 DEF SendCommand, Opened, Calling, Free, threadVars
  <2>3. Plain(q)
    BY SettersPlain, PlainEmpty
  <2> HIDE DEF q
  <2>4. CASE Do("service", q)
    BY <1>1, <1>4, <1>5, <2>2, <2>3, <2>4
  <2>5. CASE todo' = todo
    BY <2>2, <2>5, Unmoved DEF streamVars
  <2>6. QED
    BY <2>2, <2>4, <2>5
<1>9. CASE StartPreview
  <2> DEFINE q == Start(camera) \o Wake
  <2>1. /\ todo["service"] = <<>> /\ ~Waiting /\ camera # None /\ camera' = camera
        /\ IF mPreviewRunning THEN todo' = todo ELSE Do("service", q)
        /\ UNCHANGED streamVars /\ parked' = parked
    BY <1>9 DEF StartPreview, Opened, Calling, Free
  <2>2. WellFormed(q) /\ Marked(q) = StartMarks \cup {"wake"}
    BY StartFormed
  <2> HIDE DEF q
  <2>3. CASE mPreviewRunning
    BY <2>1, <2>3, Unmoved DEF streamVars
  <2>4. CASE ~mPreviewRunning
    <3>1. parked
      BY <2>1, <2>4 DEF Waiting
    <3>2. /\ Belongs(Marked(q)) /\ Concerns("service", Marked(q)) /\ Untouched(Marked(q))
          /\ Marked(q) \cap {"stopped"} = {} /\ "streamon" \in Marked(q)
          /\ "buffers" \in Marked(q) /\ "begin" \in Marked(q)
      BY <2>2 DEF Belongs, Concerns, Untouched, StartMarks
    <3>3. QED
      BY <1>1, <2>1, <2>2, <2>4, <3>1, <3>2, TakesUp DEF streamVars
  <2>5. QED
    BY <2>3, <2>4
<1>10. CASE StopPreview
  <2> DEFINE p == IF mParameters.face = "on" THEN Set("face", "off", "off") ELSE <<>>
             s == <<[op |-> "halt"]>>
  <2>1. /\ todo["service"] = <<>> /\ camera # None /\ camera' = camera
        /\ (Do("service", <<>>) \/ Do("service", p \o s))
        /\ UNCHANGED streamVars /\ parked' = parked
    BY <1>10 DEF StopPreview, Opened, Calling, Free, threadVars
  <2>2. Plain(p)
    BY SettersPlain, PlainEmpty
  <2>3. WellFormed(s) /\ Marked(s) \subseteq {"halt"}
    BY OneFormed DEF Marked
  <2> HIDE DEF p, s
  <2>4. WellFormed(p \o s) /\ Marked(p \o s) \subseteq {"halt"}
    BY <2>2, <2>3, PlainFirst
  <2>5. CASE Do("service", <<>>)
    BY <1>1, <1>4, <1>5, <2>1, <2>5, PlainEmpty
  <2>6. CASE Do("service", p \o s)
    BY <1>1, <1>4, <2>1, <2>4, <2>6
  <2>7. QED
    BY <2>1, <2>5, <2>6
<1>11. CASE Halt
  <2> DEFINE q == Tail(todo["service"])
  <2>1. /\ todo["service"] # <<>> /\ Head(todo["service"]).op = "halt" /\ Do("service", q)
        /\ camera' = camera /\ UNCHANGED streamVars /\ parked' = FALSE
    BY <1>11 DEF Halt, At, Done, callVars
  <2>2. /\ WellFormed(q) /\ Marked(q) = Left("service") \ {"halt"} /\ camera # None
        /\ OpsOf(q) = {}
    <3>1. OpsOf(q) \subseteq {}
      BY <1>1, <2>1, HeadDone DEF Marks, Later
    <3>2. QED
      BY <1>1, <2>1, <3>1, HeadDone
  <2>3. Marked(q) = {} /\ Left("service") \subseteq {"halt"}
    BY <2>2 DEF Marked
  <2> HIDE DEF q
  <2>4. Untouched(Left("service"))
    BY <2>3 DEF Untouched
  <2>5. (\A u \in Threads \ {"service"} : Untouched(Left(u)))
          => cut \/ (m_flag_camera_start <=> streaming)
    BY <2>4 DEF StreamInv, FlagAndStream
  <2>6. \A u \in Threads \ {"service"} :
          InTheMiddle(Left(u), m_flag_camera_start, streaming)
    BY DEF StreamInv, FlagAndStream
  <2>7. m_flag_camera_start' = m_flag_camera_start /\ streaming' = streaming /\ cut' = cut
    BY <2>1 DEF streamVars
  <2>8. QED
    BY <1>1, <1>2, <2>1, <2>2, <2>3, <2>5, <2>6, <2>7, MovesOn
<1>12. CASE Release
  <2>1. /\ todo["service"] = <<>> /\ camera # None /\ camera' = camera /\ todo' = todo
        /\ UNCHANGED streamVars /\ parked' = FALSE
    BY <1>12 DEF Release, Opened, Calling, Free
  <2>2. "wake" \notin Left("service")
    BY <1>3, <2>1
  <2>3. QED
    BY <2>1, <2>2, Unmoved DEF streamVars
<1>13. CASE Close
  <2>1. /\ todo["service"] = <<>> /\ ~Waiting /\ mExitPreviewThread /\ todo' = todo
        /\ camera' = None /\ streaming' = FALSE /\ cut' = m_flag_camera_start
        /\ m_flag_camera_start' = m_flag_camera_start /\ parked' = parked
    BY <1>13 DEF Close, Free, threadVars
  <2>2. parked /\ todo["preview"] = <<>>
    BY <1>1, <2>1 DEF Waiting
  <2>3. \A u \in Threads : todo[u] = <<>>
    BY <2>1, <2>2 DEF Threads
  <2>4. \A u \in Threads : Left(u)' = Left(u) /\ Left(u) = {}
    BY <2>1, <2>3, EmptyFormed DEF Left
  <2>5. Sequenced'
    BY <2>1, <2>4 DEF StreamInv, Sequenced
  <2>6. TakeTurns'
    BY <2>1, <2>2 DEF TakeTurns
  <2>7. FlagAndStream'
    <3>1. \A u \in Threads : InTheMiddle(Left(u)', m_flag_camera_start', streaming')
      BY <2>4 DEF InTheMiddle
    <3>2. cut' \/ (m_flag_camera_start' <=> streaming')
      BY <2>1
    <3>3. QED
      BY <3>1, <3>2 DEF FlagAndStream
  <2>8. QED
    BY <2>5, <2>6, <2>7 DEF StreamInv
<1>14. QED
  BY <1>6, <1>7, <1>8, <1>9, <1>10, <1>11, <1>12, <1>13 DEF ServiceStep

-----------------------------------------------------------------------------
(* FlagTellsStream, for every set of clients. *)
LEMMA StreamInvInit == Init => StreamInv
<1> SUFFICES ASSUME Init  PROVE StreamInv
  OBVIOUS
<1>1. /\ DOMAIN todo = Threads /\ \A t \in Threads : todo[t] = <<>>
      /\ todo["preview"] = <<>> /\ todo["service"] = <<>>
      /\ parked /\ m_flag_camera_start = FALSE /\ streaming = FALSE
  BY DEF Init, Threads
<1>2. \A t \in Threads : WellFormed(todo[t]) /\ Left(t) = {}
  BY <1>1, EmptyFormed DEF Left
<1>3. \A t : Belongs({}) /\ Concerns(t, {}) /\ InTheMiddle({}, FALSE, FALSE)
  BY DEF Belongs, Concerns, InTheMiddle
<1>4. Sequenced
  BY <1>1, <1>2, <1>3 DEF Sequenced
<1>5. TakeTurns
  BY <1>1 DEF TakeTurns
<1>6. FlagAndStream
  BY <1>1, <1>2, <1>3 DEF FlagAndStream
<1>7. QED
  BY <1>4, <1>5, <1>6 DEF StreamInv

(* Every step keeps the invariant, and the client stays. *)
LEMMA StreamInvStep ==
  StreamInv /\ client \in Clients /\ [Next]_vars => StreamInv' /\ (client \in Clients)'
<1> SUFFICES ASSUME StreamInv, client \in Clients, [Next]_vars
             PROVE  StreamInv' /\ (client \in Clients)'
  OBVIOUS
<1>1. client' = client
  <2>1. CASE \E t \in Threads : Setter(t) \/ ParameterStep(t) \/ StartStep(t) \/ StopStep(t)
    BY <2>1 DEF Setter, Same, Store, Check, Tell, TellRefused, Displace, DisplaceRefused,
         ParameterStep, Refuse, ShowFps, BatchReflection, StartStep, AlreadyStarted,
         RequestBuffers, BuffersRefused, SendSettings, StreamOn, SetStarted, FirstFrame,
         StartFails, WakePreview, StopStep, BeginStop, StreamOff, StreamOffFails, SetStopped,
         callVars
  <2>2. CASE PreviewStep
    BY <2>2 DEF PreviewStep, NoData, InputFound, InputNotFound, PreviewStops, Park, callVars
  <2>3. CASE ServiceStep
    BY <2>3 DEF ServiceStep, Open, SetParameters, SendCommand, StartPreview, StopPreview, Halt,
         Release, Close, Calling, callVars
  <2>4. CASE UNCHANGED vars
    BY <2>4 DEF vars, callVars
  <2>5. QED
    BY <2>1, <2>2, <2>3, <2>4 DEF Next
<1>2. ASSUME Next  PROVE StreamInv'
  <2>1. ASSUME NEW t \in Threads, Setter(t) \/ ParameterStep(t) \/ StartStep(t) \/ StopStep(t)
        PROVE  StreamInv'
    BY <2>1, SetterKeepsStream, StartKeepsStream, StopKeepsStream
  <2>2. PreviewStep \/ ServiceStep => StreamInv'
    BY PreviewKeepsStream, ServiceKeepsStream
  <2>3. QED
    BY <1>2, <2>1, <2>2 DEF Next
<1>3. ASSUME UNCHANGED vars  PROVE StreamInv'
  BY <1>3, Unmoved DEF vars, streamVars, callVars, threadVars
<1>4. QED
  BY <1>1, <1>2, <1>3

(* In every reachable state the steps left are in order, the threads take turns
   with the stream, and the flag and the device are as those steps say. *)
THEOREM StreamInvariant == Spec => []StreamInv
<1>1. Init => StreamInv /\ client \in Clients
  BY StreamInvInit DEF Init
<1>2. StreamInv /\ client \in Clients /\ [Next]_vars => (StreamInv /\ client \in Clients)'
  BY StreamInvStep
<1>3. QED
  BY <1>1, <1>2, PTL DEF Spec

(* When nobody has anything left, that is FlagTellsStream. *)
LEMMA RestAgrees == StreamInv => FlagTellsStream
<1> SUFFICES ASSUME StreamInv, Rest, ~cut  PROVE m_flag_camera_start <=> streaming
  BY DEF FlagTellsStream
<1>1. \A t \in Threads : Left(t) = {}
  BY EmptyFormed DEF Rest, Left
<1>2. \A t \in Threads : Untouched(Left(t))
  BY <1>1 DEF Untouched
<1>3. QED
  BY <1>2 DEF StreamInv, FlagAndStream

(* m_flag_camera_start tells whether the device streams whenever nobody is
   starting or stopping it, but for a start that failed with the stream on and a
   close after a stream that could not be stopped. *)
THEOREM FlagAlwaysTells == Spec => []FlagTellsStream
  BY StreamInvariant, RestAgrees, PTL

-----------------------------------------------------------------------------
(* What is in a sequence, wherever it stands. *)
ElementsOf(q) == {q[i] : i \in DOMAIN q}

\* The first element and the others.
LEMMA ElementsTail ==
  ASSUME NEW q, IsSequence(q), q # <<>>
  PROVE  /\ ElementsOf(q) = {Head(q)} \cup ElementsOf(Tail(q))
         /\ IsSequence(Tail(q)) /\ Head(q) \in ElementsOf(q)
<1> DEFINE r == Tail(q)
<1>1. /\ Len(q) \in Nat \ {0} /\ DOMAIN q = 1 .. Len(q) /\ Head(q) = q[1]
      /\ IsSequence(r) /\ Len(r) = Len(q) - 1
      /\ \A i \in 1 .. Len(q) - 1 : r[i] = q[i + 1]
  BY Elements
<1>2. DOMAIN r = 1 .. Len(r)
  BY <1>1, Elements
<1> HIDE DEF r
<1>3. \A i \in DOMAIN q : i = 1 \/ (i - 1 \in DOMAIN r /\ r[i - 1] = q[i])
  BY <1>1, <1>2
<1>4. \A i \in DOMAIN r : i + 1 \in DOMAIN q /\ r[i] = q[i + 1]
  BY <1>1, <1>2
<1>5. 1 \in DOMAIN q
  BY <1>1
<1>6. ElementsOf(q) = {Head(q)} \cup ElementsOf(r)
  <2>1. Head(q) = q[1]
    BY <1>1
  <2>2. QED
    BY <1>3, <1>4, <1>5, <2>1 DEF ElementsOf
<1>7. QED
  BY <1>1, <1>6 DEF r

\* Two sequences, one after the other.
LEMMA ElementsJoin ==
  ASSUME NEW p, NEW q, IsSequence(p), IsSequence(q)
  PROVE  /\ IsSequence(p \o q) /\ ElementsOf(p \o q) = ElementsOf(p) \cup ElementsOf(q)
         /\ Len(p) \in Nat /\ Len(q) \in Nat
         /\ DOMAIN (p \o q) = 1 .. Len(p) + Len(q)
         /\ \A i \in 1 .. Len(p) + Len(q) :
              (p \o q)[i] = IF i <= Len(p) THEN p[i] ELSE q[i - Len(p)]
<1> DEFINE r == p \o q
           m == Len(p)
           n == Len(q)
<1>1. PICK S, T : p \in Seq(S) /\ q \in Seq(T)
  BY DEF IsSequence
<1>2. p \in Seq(S \cup T) /\ q \in Seq(S \cup T)
  BY <1>1
<1>3. /\ r \in Seq(S \cup T) /\ m \in Nat /\ n \in Nat
      /\ DOMAIN p = 1 .. m /\ DOMAIN q = 1 .. n
      /\ DOMAIN r = 1 .. m + n
      /\ \A i \in 1 .. m + n : r[i] = IF i <= m THEN p[i] ELSE q[i - m]
  BY <1>2
<1> HIDE DEF r, m, n
<1>4. ASSUME NEW i \in DOMAIN r  PROVE r[i] \in ElementsOf(p) \cup ElementsOf(q)
  <2>1. CASE i <= m
    <3>1. i \in DOMAIN p /\ r[i] = p[i]
      BY <1>3, <2>1
    <3>2. QED
      BY <3>1 DEF ElementsOf
  <2>2. CASE ~(i <= m)
    <3>1. i - m \in DOMAIN q /\ r[i] = q[i - m]
      BY <1>3, <2>2
    <3>2. QED
      BY <3>1 DEF ElementsOf
  <2>3. QED
    BY <2>1, <2>2
<1>5. \A i \in DOMAIN p : i \in DOMAIN r /\ r[i] = p[i]
  BY <1>3
<1>6. ASSUME NEW j \in DOMAIN q  PROVE m + j \in DOMAIN r /\ r[m + j] = q[j]
  <2>1. m + j \in 1 .. m + n /\ ~(m + j <= m) /\ m + j - m = j
    BY <1>3
  <2>2. QED
    BY <1>3, <2>1
<1>7. ElementsOf(r) = ElementsOf(p) \cup ElementsOf(q)
  BY <1>4, <1>5, <1>6 DEF ElementsOf
<1>8. QED
  BY <1>3, <1>7 DEF IsSequence, r, m, n

\* No element, and one.
LEMMA ElementsFew ==
  /\ IsSequence(<<>>) /\ ElementsOf(<<>>) = {}
  /\ \A o : IsSequence(<<o>>) /\ ElementsOf(<<o>>) = {o} /\ DOMAIN <<o>> = {1}
            /\ <<o>>[1] = o /\ <<o>> # <<>> /\ Head(<<o>>) = o
<1>1. <<>> \in Seq({}) /\ DOMAIN <<>> = {}
  OBVIOUS
<1>2. ASSUME NEW o
      PROVE  /\ IsSequence(<<o>>) /\ ElementsOf(<<o>>) = {o} /\ DOMAIN <<o>> = {1}
             /\ <<o>>[1] = o /\ <<o>> # <<>> /\ Head(<<o>>) = o
  <2> DEFINE q == <<o>>
  <2>1. q \in Seq({o}) /\ DOMAIN q = {1} /\ q[1] = o /\ q # <<>> /\ Head(q) = o
    OBVIOUS
  <2> HIDE DEF q
  <2>2. IsSequence(q) /\ ElementsOf(q) = {o}
    BY <2>1 DEF IsSequence, ElementsOf
  <2>3. QED
    BY <2>1, <2>2 DEF q
<1>3. QED
  BY <1>1, <1>2 DEF IsSequence, ElementsOf

\* The head of two sequences is that of the first.
LEMMA HeadJoin ==
  ASSUME NEW o, NEW q, IsSequence(q)
  PROVE  /\ IsSequence(<<o>> \o q) /\ <<o>> \o q # <<>> /\ Head(<<o>> \o q) = o
         /\ Tail(<<o>> \o q) = q
         /\ ElementsOf(<<o>> \o q) = {o} \cup ElementsOf(q)
<1>1. PICK S : q \in Seq(S)
  BY DEF IsSequence
<1>2. q \in Seq(S \cup {o}) /\ <<o>> \in Seq(S \cup {o})
  BY <1>1
<1>3. <<o>> \o q # <<>> /\ Head(<<o>> \o q) = o /\ Tail(<<o>> \o q) = q
  BY <1>2
<1>4. QED
  BY <1>3, ElementsFew, ElementsJoin

-----------------------------------------------------------------------------
(* Setters and what the sensor has been told. *)
Setting == {"set", "check", "tell"}
Domains == DOMAIN mParameters = Keys /\ DOMAIN m_params = Settings /\ DOMAIN sensor = Settings

\* Only the step at the head may be in the middle of a setter, except that
\* face detection first moves the focus.
Quiet(q) == \A e \in ElementsOf(q) : e.op \notin {"check", "tell", "displace"}
Paired(q) == Head(q).op = "displace" =>
               Tail(q) # <<>> /\ Head(Tail(q)).op = "tell" /\ Head(Tail(q)).key = "face"
SetterNext(q) ==
  q = <<>> \/ /\ Paired(q)
              /\ Quiet(IF Head(q).op = "displace" THEN Tail(Tail(q)) ELSE Tail(q))
Stored(t, e) ==
  e.op \in {"check", "tell"} =>
    \/ m_params[e.key] = e.value
    \/ t = "preview"
    \/ e.key = "flash" /\ m_params.flash = "off"
SetterOf(t, e) ==
  e.op \in Setting =>
    /\ DOMAIN e = {"op", "key", "value", "shown"} /\ e.key \in Settings /\ Stored(t, e)
    /\ t = "preview" => e.key = "flash" /\ e.value = "off" /\ e.shown = None
    /\ t = "service" => "started" \notin Left(t)
Setters ==
  \A t \in Threads :
    SetterNext(todo[t]) /\ \A e \in ElementsOf(todo[t]) : SetterOf(t, e)

\* A setting is as the field has it, or is about to be told.
Sent(q, k) == \E e \in ElementsOf(q) : e.op = "send" /\ k \in e.keys
Telling(k) == \E t \in Threads :
  todo[t] # <<>> /\ Head(todo[t]).op \in {"check", "tell"} /\ Head(todo[t]).key = k
Current(k) == k \in untold \/ m_params[k] = None \/ sensor[k] = m_params[k] \/ Telling(k)

\* A start that has found the flag down ...
Going(m) == "started" \in m /\ "begin" \notin m
\* ... sends each setting while the sensor can keep it.
SendsInOrder(c, q) ==
  \A i, j \in DOMAIN q : q[i].op = "send" =>
    /\ q[j].op = "begin" => j < i
    /\ q[j].op = "streamon" /\ q[i].keys \cap NotKept(c) # {} => j < i
Sends(q) ==
  /\ SendsInOrder(camera, q)
  /\ "begin" \in Marked(q) => \A k \in Resent(camera) : Sent(q, k)
  /\ "streamon" \in Marked(q) => \A k \in Resent(camera) \cap NotKept(camera) : Sent(q, k)
  /\ Going(Marked(q)) => \A k \in Resent(camera) : Current(k) \/ Sent(q, k)
ToldSoFar ==
  /\ camera = None => ~streaming
  /\ m_flag_camera_start /\ streaming => \A k \in Resent(camera) : Current(k)
  /\ \A t \in Threads : Sends(todo[t])
Excused ==
  /\ faults \in Nat
  /\ faults = 0 => "started" \notin Left("preview") /\ untold \subseteq {"focus", "flash"}

SensorInv == Domains /\ Setters /\ ToldSoFar /\ Excused

\* What is quiet is a sequence in which each setter may come next.
LEMMA QuietNext == ASSUME NEW q, IsSequence(q), Quiet(q) PROVE SetterNext(q)
<1>1. CASE q = <<>>
  BY <1>1 DEF SetterNext
<1>2. CASE q # <<>>
  <2>1. Head(q) \in ElementsOf(q) /\ ElementsOf(Tail(q)) \subseteq ElementsOf(q)
    BY <1>2, ElementsTail
  <2>2. QED
    BY <2>1 DEF Quiet, SetterNext, Paired
<1>3. QED
  BY <1>1, <1>2

\* What the invariants say of the sequences.
LEMMA Sequences ==
  ASSUME StreamInv, NEW t \in Threads
  PROVE  /\ DOMAIN todo = Threads /\ IsSequence(todo[t]) /\ Left(t) = Marked(todo[t])
         /\ todo[t] # <<>> => /\ IsSequence(Tail(todo[t])) /\ Head(todo[t]) \in ElementsOf(todo[t])
                              /\ ElementsOf(todo[t]) = {Head(todo[t])} \cup ElementsOf(Tail(todo[t]))
                              /\ "op" \in DOMAIN Head(todo[t])
                              /\ camera # None
<1>1. DOMAIN todo = Threads /\ WellFormed(todo[t])
  BY DEF StreamInv, Sequenced
<1>2. IsSequence(todo[t])
  BY <1>1 DEF WellFormed
<1>3. QED
  BY <1>1, <1>2, ElementsTail, HeadDone DEF Left

\* Sequences of sends one after the other.
LEMMA JoinOrder ==
  ASSUME NEW c, NEW p, NEW q, IsSequence(p), IsSequence(q),
         SendsInOrder(c, p), SendsInOrder(c, q),
         \A e \in ElementsOf(p) : e.op = "send" =>
           \A f \in ElementsOf(q) : /\ f.op # "begin"
                                    /\ f.op = "streamon" => e.keys \cap NotKept(c) = {}
  PROVE  SendsInOrder(c, p \o q)
<1> DEFINE r == p \o q
           m == Len(p)
           n == Len(q)
<1>1. /\ m \in Nat /\ n \in Nat /\ DOMAIN r = 1 .. m + n
      /\ DOMAIN p = 1 .. m /\ DOMAIN q = 1 .. n
      /\ \A i \in 1 .. m + n : r[i] = IF i <= m THEN p[i] ELSE q[i - m]
  BY ElementsJoin, Elements
<1> HIDE DEF r, m, n
<1>2. ASSUME NEW i \in DOMAIN r, NEW j \in DOMAIN r, r[i].op = "send"
      PROVE  /\ r[j].op = "begin" => j < i
             /\ r[j].op = "streamon" /\ r[i].keys \cap NotKept(c) # {} => j < i
  <2>1. CASE i <= m /\ j <= m
    <3>1. i \in DOMAIN p /\ j \in DOMAIN p /\ r[i] = p[i] /\ r[j] = p[j]
      BY <1>1, <2>1
    <3>2. QED
      BY <1>2, <3>1 DEF SendsInOrder
  <2>2. CASE ~(i <= m) /\ ~(j <= m)
    <3>1. i - m \in DOMAIN q /\ j - m \in DOMAIN q /\ r[i] = q[i - m] /\ r[j] = q[j - m]
      BY <1>1, <2>2
    <3>2. j - m < i - m => j < i
      BY <1>1
    <3>3. QED
      BY <1>2, <3>1, <3>2 DEF SendsInOrder
  <2>3. CASE i <= m /\ ~(j <= m)
    <3>1. i \in DOMAIN p /\ j - m \in DOMAIN q /\ r[i] = p[i] /\ r[j] = q[j - m]
      BY <1>1, <2>3
    <3>2. r[i] \in ElementsOf(p) /\ r[j] \in ElementsOf(q)
      BY <3>1 DEF ElementsOf
    <3>3. QED
      BY <1>2, <3>2
  <2>4. CASE ~(i <= m) /\ j <= m
    BY <1>1, <2>4
  <2>5. QED
    BY <2>1, <2>2, <2>3, <2>4
<1>3. QED
  BY <1>2 DEF SendsInOrder, r

\* Sequences without sends, or without the two marks, are in order; and what is
\* left of one that is.
LEMMA FewInOrder ==
  ASSUME NEW c, NEW q
  PROVE  /\ "send" \notin OpsOf(q) => SendsInOrder(c, q)
         /\ "begin" \notin OpsOf(q) /\ "streamon" \notin OpsOf(q) => SendsInOrder(c, q)
BY DEF SendsInOrder, OpsOf

\* What is left of a start after a step still sends in order.
LEMMA TailInOrder ==
  ASSUME NEW c, NEW q, IsSequence(q), q # <<>>, SendsInOrder(c, q)
  PROVE  SendsInOrder(c, Tail(q))
<1> DEFINE r == Tail(q)
<1>1. /\ Len(q) \in Nat /\ DOMAIN q = 1 .. Len(q) /\ IsSequence(r) /\ Len(r) = Len(q) - 1
      /\ \A i \in 1 .. Len(q) - 1 : r[i] = q[i + 1]
  BY Elements
<1>2. DOMAIN r = 1 .. Len(r)
  BY <1>1, Elements
<1> HIDE DEF r
<1>3. \A i \in DOMAIN r : i + 1 \in DOMAIN q /\ r[i] = q[i + 1] /\ i \in Nat
  BY <1>1, <1>2
<1>4. \A i, j \in Nat : j + 1 < i + 1 => j < i
  OBVIOUS
<1>5. QED
  BY <1>3, <1>4 DEF SendsInOrder, r

\* The first of several sends comes after both marks.
LEMMA HeadInOrder ==
  ASSUME NEW c, NEW q, IsSequence(q), q # <<>>, SendsInOrder(c, q), Head(q).op = "send"
  PROVE  /\ "begin" \notin OpsOf(q)
         /\ "streamon" \in OpsOf(q) => Head(q).keys \cap NotKept(c) = {}
<1>1. 1 \in DOMAIN q /\ Head(q) = q[1] /\ \A j \in DOMAIN q : ~(j < 1)
  BY Elements
<1>2. QED
  BY <1>1 DEF SendsInOrder, OpsOf

\* What a start sends.
LEMMA SendOne ==
  ASSUME NEW keys
  PROVE  /\ IsSequence(Send(keys)) /\ ElementsOf(Send(keys)) = {[op |-> "send", keys |-> keys]}
         /\ OpsOf(Send(keys)) \subseteq {"send"} /\ \A k \in keys : Sent(Send(keys), k)
<1> DEFINE o == [op |-> "send", keys |-> keys]
<1>1. Send(keys) = <<o>> /\ o.op = "send" /\ o.keys = keys
  BY DEF Send
<1> HIDE DEF o
<1>2. IsSequence(<<o>>) /\ ElementsOf(<<o>>) = {o}
  BY ElementsFew
<1>3. \A k \in keys : Sent(Send(keys), k)
  BY <1>1, <1>2 DEF Sent
<1>4. QED
  BY <1>1, <1>2, <1>3, SendsFormed DEF o

\* Settings sent one after the other are each sent.
LEMMA SendMany ==
  ASSUME NEW S, NEW keys \in Seq(S)
  PROVE  /\ IsSequence(SendEach(keys)) /\ OpsOf(SendEach(keys)) \subseteq {"send"}
         /\ \A i \in DOMAIN keys : Sent(SendEach(keys), keys[i])
         /\ \A e \in ElementsOf(SendEach(keys)) : \E i \in DOMAIN keys : e.keys = {keys[i]}
<1>1. WellFormed(SendEach(keys)) /\ OpsOf(SendEach(keys)) \subseteq {"send"}
  BY SendsFormed
<1>2. DOMAIN SendEach(keys) = DOMAIN keys
      /\ \A i \in DOMAIN keys : SendEach(keys)[i] = [op |-> "send", keys |-> {keys[i]}]
  BY DEF SendEach
<1>3. \A i \in DOMAIN keys : /\ SendEach(keys)[i] \in ElementsOf(SendEach(keys))
                             /\ SendEach(keys)[i].op = "send"
                             /\ SendEach(keys)[i].keys = {keys[i]}
  BY <1>2 DEF ElementsOf
<1>4. \A i \in DOMAIN keys : Sent(SendEach(keys), keys[i])
  BY <1>3 DEF Sent
<1>5. \A e \in ElementsOf(SendEach(keys)) : \E i \in DOMAIN keys : e.keys = {keys[i]}
  BY <1>2, <1>3 DEF ElementsOf
<1>6. QED
  BY <1>1, <1>4, <1>5 DEF WellFormed

\* A sequence behind which no mark of a start comes, or in which nothing is sent.
LEMMA JoinSends ==
  ASSUME NEW c, NEW p, NEW q, IsSequence(p), IsSequence(q),
         SendsInOrder(c, p), SendsInOrder(c, q),
         "send" \notin OpsOf(p) \/ OpsOf(q) \cap {"begin", "streamon"} = {}
  PROVE  /\ IsSequence(p \o q) /\ SendsInOrder(c, p \o q)
         /\ OpsOf(p \o q) = OpsOf(p) \cup OpsOf(q)
         /\ \A k : Sent(p \o q, k) <=> Sent(p, k) \/ Sent(q, k)
<1>1. IsSequence(p \o q) /\ ElementsOf(p \o q) = ElementsOf(p) \cup ElementsOf(q)
  BY ElementsJoin
<1>2. \A r, e : e \in ElementsOf(r) => e.op \in OpsOf(r)
  BY DEF ElementsOf, OpsOf
<1>3. SendsInOrder(c, p \o q)
  BY <1>2, JoinOrder
<1>4. \A r : OpsOf(r) = {e.op : e \in ElementsOf(r)}
  BY DEF ElementsOf, OpsOf
<1>5. OpsOf(p \o q) = OpsOf(p) \cup OpsOf(q)
  BY <1>1, <1>4
<1>6. QED
  BY <1>1, <1>3, <1>5 DEF Sent

\* A start sends every setting of Resent, and those the sensor does not keep after
\* the stream is on.
LEMMA StartSends ==
  ASSUME NEW c
  PROVE  /\ SendsInOrder(c, Start(c)) /\ \A k \in Resent(c) : Sent(Start(c), k)
         /\ SendsInOrder(c, Start(c) \o Wake) /\ \A k \in Resent(c) : Sent(Start(c) \o Wake, k)
         /\ OpsOf(Start(c)) \subseteq {"begin", "buffers", "send", "streamon", "started", "frame"}
         /\ OpsOf(Start(c) \o Wake) \subseteq
              {"begin", "buffers", "send", "streamon", "started", "frame", "wake"}
<1> DEFINE A == <<[op |-> "begin"], [op |-> "buffers"]>>
           B == StartStream(c)
           D == <<[op |-> "started"], [op |-> "frame"]>>
           On == <<[op |-> "streamon"]>>
           P == SendEach(BeforeStreamOn)
           Q == SendEach(AfterStreamOn)
           R == Send({"brightness"})
           T == Send(StreamParams)
           U == Send({"blur"})
           S == {"effect", "iso", "metering", "scene", "whiteBalance", "zoom", "contrast",
                 "focus", "saturation", "sharpness"}
<1>1. /\ IsSequence(A) /\ OpsOf(A) = {"begin", "buffers"}
      /\ IsSequence(D) /\ OpsOf(D) = {"started", "frame"}
      /\ IsSequence(On) /\ OpsOf(On) = {"streamon"}
      /\ IsSequence(Wake) /\ OpsOf(Wake) = {"wake"}
  BY PairFormed, OneFormed DEF Later, Marks, Wake, WellFormed
<1>2. BeforeStreamOn \in Seq(S) /\ AfterStreamOn \in Seq(S)
  BY DEF BeforeStreamOn, AfterStreamOn
<1>3. /\ DOMAIN BeforeStreamOn = 1 .. 5 /\ DOMAIN AfterStreamOn = 1 .. 5
      /\ \A i \in 1 .. 5, j \in 1 .. 5 : BeforeStreamOn[i] # AfterStreamOn[j]
  BY DEF BeforeStreamOn, AfterStreamOn
<1> HIDE DEF A, B, D, On, S
<1>4. /\ IsSequence(P) /\ OpsOf(P) \subseteq {"send"}
      /\ \A i \in DOMAIN BeforeStreamOn : Sent(P, BeforeStreamOn[i])
      /\ \A e \in ElementsOf(P) : \E i \in DOMAIN BeforeStreamOn : e.keys = {BeforeStreamOn[i]}
      /\ IsSequence(Q) /\ OpsOf(Q) \subseteq {"send"}
      /\ \A i \in DOMAIN AfterStreamOn : Sent(Q, AfterStreamOn[i])
  BY <1>2, SendMany
<1>5. /\ IsSequence(R) /\ OpsOf(R) \subseteq {"send"} /\ Sent(R, "brightness")
      /\ IsSequence(T) /\ OpsOf(T) \subseteq {"send"} /\ \A k \in StreamParams : Sent(T, k)
      /\ IsSequence(U) /\ OpsOf(U) \subseteq {"send"} /\ Sent(U, "blur")
  BY SendOne
<1> HIDE DEF P, Q, R, T, U
<1>6. /\ \A q : OpsOf(q) \subseteq {"send"} =>
           SendsInOrder(c, q) /\ OpsOf(q) \cap {"begin", "streamon"} = {}
      /\ SendsInOrder(c, A) /\ SendsInOrder(c, D) /\ SendsInOrder(c, On) /\ SendsInOrder(c, Wake)
  BY <1>1, FewInOrder
<1>0. ASSUME NEW p, NEW q, IsSequence(p), SendsInOrder(c, p),
             OpsOf(p) \subseteq {"send", "streamon"},
             IsSequence(q), OpsOf(q) \subseteq {"send"}
      PROVE  /\ IsSequence(p \o q) /\ SendsInOrder(c, p \o q)
             /\ OpsOf(p \o q) \subseteq {"send", "streamon"}
             /\ \A k : Sent(p \o q, k) <=> Sent(p, k) \/ Sent(q, k)
  <2>1. SendsInOrder(c, q) /\ OpsOf(q) \cap {"begin", "streamon"} = {}
    BY <1>0, <1>6
  <2>2. /\ IsSequence(p \o q) /\ SendsInOrder(c, p \o q)
        /\ OpsOf(p \o q) = OpsOf(p) \cup OpsOf(q)
        /\ \A k : Sent(p \o q, k) <=> Sent(p, k) \/ Sent(q, k)
    BY <1>0, <2>1, JoinSends
  <2>3. QED
    BY <1>0, <2>2
<1>7. ASSUME c = "back"
      PROVE  /\ IsSequence(B) /\ SendsInOrder(c, B) /\ OpsOf(B) \subseteq {"send", "streamon"}
             /\ \A k \in Resent(c) : Sent(B, k)
  <2>1. /\ IsSequence(P \o On) /\ SendsInOrder(c, P \o On)
        /\ OpsOf(P \o On) \subseteq {"send", "streamon"}
        /\ \A k : Sent(P, k) => Sent(P \o On, k)
    <3>1. IsSequence(P \o On) /\ ElementsOf(P \o On) = ElementsOf(P) \cup ElementsOf(On)
      BY <1>1, <1>4, ElementsJoin
    <3>2. \A r : OpsOf(r) = {e.op : e \in ElementsOf(r)}
      BY DEF ElementsOf, OpsOf
    <3>3. NotKept(c) = {AfterStreamOn[j] : j \in DOMAIN AfterStreamOn}
      BY <1>7 DEF NotKept
    <3>4. \A e \in ElementsOf(P) : e.keys \cap NotKept(c) = {}
      BY <1>3, <1>4, <3>3
    <3>5. \A f \in ElementsOf(On) : f.op # "begin"
      BY <1>1, <3>2
    <3>6. SendsInOrder(c, P \o On)
      BY <1>1, <1>4, <1>6, <3>4, <3>5, JoinOrder
    <3>7. OpsOf(P \o On) = OpsOf(P) \cup OpsOf(On)
      BY <3>1, <3>2
    <3>8. \A k : Sent(P, k) => Sent(P \o On, k)
      BY <3>1 DEF Sent
    <3>9. QED
      BY <1>1, <1>4, <3>1, <3>6, <3>7, <3>8
  <2> DEFINE V == P \o On
  <2> HIDE DEF V
  <2>2. /\ IsSequence(V \o R) /\ SendsInOrder(c, V \o R)
        /\ OpsOf(V \o R) \subseteq {"send", "streamon"}
        /\ \A k : Sent(V \o R, k) <=> Sent(V, k) \/ Sent(R, k)
    BY <1>0, <1>5, <2>1 DEF V
  <2> DEFINE W == V \o R
  <2> HIDE DEF W
  <2>3. /\ IsSequence(W \o Q) /\ SendsInOrder(c, W \o Q)
        /\ OpsOf(W \o Q) \subseteq {"send", "streamon"}
        /\ \A k : Sent(W \o Q, k) <=> Sent(W, k) \/ Sent(Q, k)
    BY <1>0, <1>4, <2>2 DEF W
  <2>4. B = W \o Q
    BY <1>7 DEF B, StartStream, W, V, P, On, R, Q
  <2>5. /\ \A i \in DOMAIN BeforeStreamOn : Sent(B, BeforeStreamOn[i])
        /\ \A i \in DOMAIN AfterStreamOn : Sent(B, AfterStreamOn[i])
        /\ Sent(B, "brightness")
    BY <1>4, <1>5, <2>1, <2>2, <2>3, <2>4 DEF V, W
  <2>6. \A k \in Resent(c) : Sent(B, k)
    BY <1>7, <2>5 DEF Resent
  <2>7. QED
    BY <2>3, <2>4, <2>6
<1>8. ASSUME c # "back"
      PROVE  /\ IsSequence(B) /\ SendsInOrder(c, B) /\ OpsOf(B) \subseteq {"send", "streamon"}
             /\ \A k \in Resent(c) : Sent(B, k)
  <2>1. /\ IsSequence(On \o T) /\ SendsInOrder(c, On \o T)
        /\ OpsOf(On \o T) \subseteq {"send", "streamon"}
        /\ \A k : Sent(On \o T, k) <=> Sent(On, k) \/ Sent(T, k)
    BY <1>0, <1>1, <1>5, <1>6
  <2> DEFINE V == On \o T
  <2> HIDE DEF V
  <2>2. /\ IsSequence(V \o U) /\ SendsInOrder(c, V \o U)
        /\ OpsOf(V \o U) \subseteq {"send", "streamon"}
        /\ \A k : Sent(V \o U, k) <=> Sent(V, k) \/ Sent(U, k)
    BY <1>0, <1>5, <2>1 DEF V
  <2> DEFINE W == V \o U
  <2> HIDE DEF W
  <2>3. /\ IsSequence(W \o R) /\ SendsInOrder(c, W \o R)
        /\ OpsOf(W \o R) \subseteq {"send", "streamon"}
        /\ \A k : Sent(W \o R, k) <=> Sent(W, k) \/ Sent(R, k)
    BY <1>0, <1>5, <2>2 DEF W
  <2>4. B = W \o R
    BY <1>8 DEF B, StartStream, W, V, T, On, R, U
  <2>5. \A k \in Resent(c) : Sent(B, k)
    BY <1>5, <1>8, <2>1, <2>2, <2>3, <2>4 DEF Resent, V, W
  <2>6. QED
    BY <2>3, <2>4, <2>5
<1>9. /\ IsSequence(B) /\ SendsInOrder(c, B) /\ OpsOf(B) \subseteq {"send", "streamon"}
      /\ \A k \in Resent(c) : Sent(B, k)
  BY <1>7, <1>8
<1>n. OpsOf(D) \cap {"begin", "streamon"} = {} /\ OpsOf(Wake) \cap {"begin", "streamon"} = {}
  BY <1>1
<1>10. /\ IsSequence(A \o B) /\ SendsInOrder(c, A \o B)
       /\ OpsOf(A \o B) = OpsOf(A) \cup OpsOf(B)
       /\ \A k : Sent(A \o B, k) <=> Sent(A, k) \/ Sent(B, k)
  BY <1>1, <1>6, <1>9, JoinSends
<1> DEFINE V == A \o B
<1> HIDE DEF V
<1>11. /\ IsSequence(V \o D) /\ SendsInOrder(c, V \o D)
       /\ OpsOf(V \o D) = OpsOf(V) \cup OpsOf(D)
       /\ \A k : Sent(V \o D, k) <=> Sent(V, k) \/ Sent(D, k)
  <2>1. IsSequence(V) /\ SendsInOrder(c, V) /\ IsSequence(D) /\ SendsInOrder(c, D)
    BY <1>1, <1>6, <1>10 DEF V
  <2>2. QED
    BY <1>n, <2>1, JoinSends
<1> DEFINE W == V \o D
<1> HIDE DEF W
<1>12. /\ IsSequence(W \o Wake) /\ SendsInOrder(c, W \o Wake)
       /\ OpsOf(W \o Wake) = OpsOf(W) \cup OpsOf(Wake)
       /\ \A k : Sent(W \o Wake, k) <=> Sent(W, k) \/ Sent(Wake, k)
  BY <1>1, <1>6, <1>n, <1>11, JoinSends DEF W
<1>13. Start(c) = W
  BY DEF Start, W, V, A, B, D
<1>14. OpsOf(W) \subseteq {"begin", "buffers", "send", "streamon", "started", "frame"}
  BY <1>1, <1>9, <1>10, <1>11 DEF W, V
<1>15. \A k \in Resent(c) : Sent(W, k)
  BY <1>9, <1>10, <1>11 DEF W, V
<1>16. QED
  BY <1>1, <1>11, <1>12, <1>13, <1>14, <1>15 DEF W

-----------------------------------------------------------------------------
(* A thread goes on with q. *)
LEMMA ToldMoves ==
  ASSUME StreamInv, ToldSoFar, NEW t \in Threads, NEW q, Do(t, q), camera # None,
         camera' = camera,
         m_flag_camera_start' /\ streaming' => \A k \in Resent(camera) : Current(k)',
         \A u \in Threads \ {t} : Going(Left(u)) =>
           \A k \in Resent(camera) : Current(k) => Current(k)' \/ Sent(todo[u], k),
         SendsInOrder(camera, q),
         "begin" \in Marked(q) => \A k \in Resent(camera) : Sent(q, k),
         "streamon" \in Marked(q) => \A k \in Resent(camera) \cap NotKept(camera) : Sent(q, k),
         Going(Marked(q)) => \A k \in Resent(camera) : Current(k)' \/ Sent(q, k)
  PROVE  ToldSoFar'
<1>1. /\ todo'[t] = q /\ \A u \in Threads \ {t} : todo'[u] = todo[u]
      /\ \A u \in Threads : Left(u) = Marked(todo[u])
  BY Sequences DEF Do
<1>2. ASSUME NEW u \in Threads  PROVE Sends(todo[u])'
  <2>1. CASE u = t
    BY <1>1, <2>1 DEF Sends
  <2>2. CASE u # t
    <3>1. Sends(todo[u])
      BY DEF ToldSoFar
    <3>2. Going(Marked(todo[u])) =>
            \A k \in Resent(camera) : Current(k)' \/ Sent(todo[u], k)
      BY <1>1, <2>2, <3>1 DEF Sends
    <3>3. QED
      BY <1>1, <2>2, <3>1, <3>2 DEF Sends
  <2>3. QED
    BY <2>1, <2>2
<1>3. QED
  BY <1>2 DEF ToldSoFar

\* After a step that sends nothing the others are still to be sent.
LEMMA SentTail ==
  ASSUME StreamInv, NEW t \in Threads, todo[t] # <<>>, NEW k
  PROVE  /\ Sent(todo[t], k) =>
              Sent(Tail(todo[t]), k) \/ (Head(todo[t]).op = "send" /\ k \in Head(todo[t]).keys)
         /\ Sent(Tail(todo[t]), k) => Sent(todo[t], k)
BY Sequences DEF Sent

\* What other threads tell stays to be told, and what this one was not telling.
LEMMA StillTelling ==
  ASSUME StreamInv, NEW t \in Threads, NEW q, Do(t, q), NEW k, Telling(k),
         \/ Head(todo[t]).op \notin {"check", "tell"} \/ Head(todo[t]).key # k
         \/ q # <<>> /\ Head(q).op \in {"check", "tell"} /\ Head(q).key = k
  PROVE  Telling(k)'
<1>1. todo'[t] = q /\ \A u \in Threads \ {t} : todo'[u] = todo[u]
  BY Sequences DEF Do
<1>2. PICK u \in Threads :
        todo[u] # <<>> /\ Head(todo[u]).op \in {"check", "tell"} /\ Head(todo[u]).key = k
  BY DEF Telling
<1>3. CASE u = t
  BY <1>1, <1>2, <1>3 DEF Telling
<1>4. CASE u # t
  BY <1>1, <1>2, <1>4 DEF Telling
<1>5. QED
  BY <1>3, <1>4

(* A step that is neither of a start nor of a stop. *)
StreamSteps == {"begin", "streamon", "started"}

\* A step that starts nothing and sends nothing leaves the sensor told.
LEMMA ToldAside ==
  ASSUME StreamInv, ToldSoFar, NEW t \in Threads, NEW q, Do(t, q), todo[t] # <<>>,
         camera' = camera, m_flag_camera_start' = m_flag_camera_start, streaming' = streaming,
         Head(todo[t]).op \notin StreamSteps \cup {"send"},
         Marked(q) \cap StreamSteps = Marked(Tail(todo[t])) \cap StreamSteps,
         \A k : Sent(Tail(todo[t]), k) => Sent(q, k), SendsInOrder(camera, q),
         \A k \in Resent(camera) : Current(k) =>
           \/ Current(k)'
           \/ ~m_flag_camera_start /\ \A u \in Threads : Going(Left(u)) => Sent(todo[u], k)
  PROVE  ToldSoFar'
<1> DEFINE r == Tail(todo[t])
<1>1. /\ Marked(r) = Left(t) \ {Head(todo[t]).op} /\ camera # None
      /\ Left(t) = Marked(todo[t])
  BY HeadDone, Sequences
<1>2. \A k : Sent(todo[t], k) => Sent(q, k)
  BY SentTail
<1>3. Sends(todo[t]) /\ \A u \in Threads : Sends(todo[u]) /\ Left(u) = Marked(todo[u])
  BY Sequences DEF ToldSoFar
<1>4. Marked(q) \cap StreamSteps = Left(t) \cap StreamSteps
  BY <1>1
<1>5. \A x \in StreamSteps : x \in Marked(q) <=> x \in Left(t)
  BY <1>4
<1> HIDE DEF r
<1>6. /\ "begin" \in Marked(q) <=> "begin" \in Left(t)
      /\ "streamon" \in Marked(q) <=> "streamon" \in Left(t)
      /\ Going(Marked(q)) <=> Going(Left(t))
  BY <1>5 DEF StreamSteps, Going
<1>7. /\ "begin" \in Marked(q) => \A k \in Resent(camera) : Sent(q, k)
      /\ "streamon" \in Marked(q) => \A k \in Resent(camera) \cap NotKept(camera) : Sent(q, k)
  BY <1>2, <1>3, <1>6 DEF Sends
<1>8. Going(Marked(q)) => \A k \in Resent(camera) : Current(k)' \/ Sent(q, k)
  BY <1>2, <1>3, <1>6 DEF Sends
<1>9. m_flag_camera_start' /\ streaming' => \A k \in Resent(camera) : Current(k)'
  BY DEF ToldSoFar
<1>10. \A u \in Threads \ {t} : Going(Left(u)) =>
         \A k \in Resent(camera) : Current(k) => Current(k)' \/ Sent(todo[u], k)
  OBVIOUS
<1>11. QED
  BY <1>1, <1>7, <1>8, <1>9, <1>10, ToldMoves

(* A step after which this thread is not starting the stream any more. *)
LEMMA ToldApart ==
  ASSUME StreamInv, ToldSoFar, NEW t \in Threads, NEW q, Do(t, q), camera # None,
         camera' = camera, m_flag_camera_start' /\ streaming' => m_flag_camera_start /\ streaming,
         OpsOf(q) \cap StreamSteps = {},
         \A k \in Resent(camera) : Current(k) => Current(k)'
  PROVE  ToldSoFar'
<1>1. /\ "begin" \notin OpsOf(q) /\ "streamon" \notin OpsOf(q) /\ "started" \notin OpsOf(q)
      /\ Marked(q) \subseteq OpsOf(q)
  BY DEF StreamSteps, Marked
<1>2. SendsInOrder(camera, q)
  BY <1>1, FewInOrder
<1>3. /\ "begin" \notin Marked(q) /\ "streamon" \notin Marked(q) /\ ~Going(Marked(q))
  BY <1>1 DEF Going
<1>4. m_flag_camera_start' /\ streaming' => \A k \in Resent(camera) : Current(k)'
  BY DEF ToldSoFar
<1>5. QED
  BY <1>2, <1>3, <1>4, ToldMoves

(* One that changes nothing the sensor or a setter knows of. *)
LEMMA CurrentKept ==
  ASSUME StreamInv, NEW t \in Threads, NEW q, Do(t, q), UNCHANGED <<m_params, sensor, untold>>,
         todo[t] = <<>> \/ Head(todo[t]).op \notin {"check", "tell"}
  PROVE  \A k : Current(k) => Current(k)'
<1>1. ASSUME NEW k, Telling(k)  PROVE Telling(k)'
  <2>1. todo'[t] = q /\ \A u \in Threads \ {t} : todo'[u] = todo[u]
    BY Sequences DEF Do
  <2>2. PICK u \in Threads :
          todo[u] # <<>> /\ Head(todo[u]).op \in {"check", "tell"} /\ Head(todo[u]).key = k
    BY <1>1 DEF Telling
  <2>3. QED
    BY <2>1, <2>2 DEF Telling
<1>2. QED
  BY <1>1 DEF Current

-----------------------------------------------------------------------------
(* The steps of a setter. *)
LEMMA ResentKeys == \A c : Resent(c) \subseteq Settings \ {"face"}
<1>1. /\ StreamParams \cup {"blur", "brightness"} \subseteq Settings \ {"face"}
      /\ \A i \in DOMAIN BeforeStreamOn : BeforeStreamOn[i] \in Settings \ {"face"}
      /\ \A i \in DOMAIN AfterStreamOn : AfterStreamOn[i] \in Settings \ {"face"}
  BY DEF StreamParams, Settings, Keys, BeforeStreamOn, AfterStreamOn
<1>2. QED
  BY <1>1 DEF Resent

\* Setters in front of the rest change nothing that is to be sent.
LEMMA FrontSends ==
  ASSUME NEW c, NEW p, NEW q, Plain(p), WellFormed(q), SendsInOrder(c, q)
  PROVE  /\ Marked(p \o q) = Marked(q) /\ SendsInOrder(c, p \o q) /\ WellFormed(p \o q)
         /\ \A k : Sent(q, k) => Sent(p \o q, k)
<1>1. IsSequence(p) /\ IsSequence(q) /\ "send" \notin OpsOf(p)
  BY DEF Plain, WellFormed
<1>2. SendsInOrder(c, p)
  BY <1>1, FewInOrder
<1>3. SendsInOrder(c, p \o q) /\ \A k : Sent(q, k) => Sent(p \o q, k)
  BY <1>1, <1>2, JoinSends
<1>4. QED
  BY <1>3, PlainFirst

\* What Check puts in front of the rest.
Tells(h) == (IF h.key = "face" /\ h.value = "on" THEN <<[op |-> "displace"]>> ELSE <<>>)
              \o <<[h EXCEPT !.op = "tell"]>>

\* What Check puts there comes first: the setter, after face detection's focus.
LEMMA TellsFirst ==
  ASSUME NEW h, DOMAIN h = {"op", "key", "value", "shown"}, NEW q, IsSequence(q)
  PROVE  LET o == [h EXCEPT !.op = "tell"] IN
         /\ o.op = "tell" /\ o.key = h.key /\ o.value = h.value /\ o.shown = h.shown
         /\ DOMAIN o = {"op", "key", "value", "shown"}
         /\ Plain(Tells(h)) /\ IsSequence(Tells(h) \o q) /\ Tells(h) \o q # <<>>
         /\ \A e \in ElementsOf(Tells(h) \o q) :
              e = o \/ e \in ElementsOf(q) \/ e = [op |-> "displace"]
         /\ \/ Head(Tells(h) \o q) = o /\ Tail(Tells(h) \o q) = q
            \/ /\ Head(Tells(h) \o q) = [op |-> "displace"] /\ h.key = "face"
               /\ Tail(Tells(h) \o q) # <<>> /\ Head(Tail(Tells(h) \o q)) = o
               /\ Tail(Tail(Tells(h) \o q)) = q
<1> DEFINE o == [h EXCEPT !.op = "tell"]
           d == [op |-> "displace"]
<1>1. /\ o.op = "tell" /\ o.key = h.key /\ o.value = h.value /\ o.shown = h.shown
      /\ DOMAIN o = {"op", "key", "value", "shown"} /\ "op" \in DOMAIN o
  OBVIOUS
<1>2. d.op = "displace" /\ "op" \in DOMAIN d
  OBVIOUS
<1>3. Tells(h) = (IF h.key = "face" /\ h.value = "on" THEN <<d>> ELSE <<>>) \o <<o>>
  BY DEF Tells
<1> HIDE DEF o, d
<1>4. <<>> \o <<o>> = <<o>>
  OBVIOUS
<1>5. Plain(<<o>>)
  BY <1>1, PlainOne DEF Marks
<1>6. Plain(<<d>> \o <<o>>)
  <2>1. IsSequence(<<o>>) /\ ElementsOf(<<o>>) = {o}
    BY ElementsFew
  <2>2. WellFormed(<<d>> \o <<o>>) /\ OpsOf(<<d>> \o <<o>>) = {"displace", "tell"}
    <3> DEFINE w == <<o>>
               a == <<d>> \o w
    <3>0. IsSequence(w) /\ ElementsOf(w) = {o} /\ Len(w) = 1 /\ w[1] = o
      BY <2>1
    <3> HIDE DEF w
    <3>1. IsSequence(a) /\ Head(a) = d /\ Tail(a) = w /\ a # <<>> /\ ElementsOf(a) = {d, o}
      BY <3>0, HeadJoin
    <3> HIDE DEF a
    <3>2. /\ DOMAIN a = 1 .. Len(a) /\ Len(a) \in Nat /\ a[1] = d /\ Len(w) = Len(a) - 1
          /\ \A i \in 1 .. Len(a) - 1 : w[i] = a[i + 1]
      BY <3>1, Elements
    <3>3. Len(a) - 1 = 1 /\ Len(a) \in Nat
      BY <3>0, <3>2
    <3>4. Len(a) = 2
      BY <3>3
    <3>5. DOMAIN a = {1, 2} /\ a[2] = o
      <4>1. 1 \in 1 .. Len(a) - 1 /\ 1 .. 2 = {1, 2} /\ 1 + 1 = 2
        BY <3>4
      <4>2. QED
        BY <3>0, <3>2, <3>4, <4>1
    <3>6. WellFormed(a) /\ OpsOf(a) = {"displace", "tell"}
      <4>1. d.op \notin Marks /\ a[1] = d
        BY <1>2, <3>2 DEF Marks
      <4>2. WellFormed(a) /\ OpsOf(a) = {d.op, o.op}
        BY <1>1, <1>2, <3>1, <3>5, <4>1, TwoFormed
      <4>3. QED
        BY <1>1, <1>2, <4>2
    <3>7. QED
      BY <3>6 DEF a, w
  <2>3. QED
    BY <2>2 DEF Plain, Marked, Marks
<1>7. /\ Plain(Tells(h)) /\ IsSequence(Tells(h) \o q) /\ Tells(h) \o q # <<>>
      /\ \A e \in ElementsOf(Tells(h) \o q) : e = o \/ e \in ElementsOf(q) \/ e = d
      /\ \/ Head(Tells(h) \o q) = o /\ Tail(Tells(h) \o q) = q
         \/ /\ Head(Tells(h) \o q) = d /\ h.key = "face"
            /\ Tail(Tells(h) \o q) # <<>> /\ Head(Tail(Tells(h) \o q)) = o
            /\ Tail(Tail(Tells(h) \o q)) = q
  <2>1. CASE h.key = "face" /\ h.value = "on"
    <3>1. Tells(h) = <<d>> \o <<o>>
      BY <1>3, <2>1
    <3> DEFINE a == <<d>>
               b == <<o>>
               w == a \o b
    <3>2. a = <<d>> /\ b = <<o>>
      OBVIOUS
    <3>3. Tells(h) = w /\ Plain(w)
      BY <1>6, <3>1
    <3> HIDE DEF a, b, w
    <3>4. /\ IsSequence(a \o b \o q) /\ a \o b \o q # <<>>
          /\ Head(a \o b \o q) = d /\ Tail(a \o b \o q) # <<>>
          /\ Head(Tail(a \o b \o q)) = o /\ Tail(Tail(a \o b \o q)) = q
          /\ ElementsOf(a \o b \o q) = {d, o} \cup ElementsOf(q)
      <4>1. PICK S : q \in Seq(S)
        BY DEF IsSequence
      <4> DEFINE T == S \cup {d, o}
      <4>2. q \in Seq(T) /\ a \in Seq(T) /\ b \in Seq(T)
        BY <4>1 DEF a, b
      <4>3. a \o b \o q = a \o (b \o q)
        BY <4>2
      <4> DEFINE z == b \o q
      <4>4. IsSequence(z) /\ z # <<>> /\ Head(z) = o /\ Tail(z) = q
            /\ ElementsOf(z) = {o} \cup ElementsOf(q)
        BY HeadJoin DEF b
      <4> HIDE DEF z
      <4>5. IsSequence(a \o z) /\ a \o z # <<>> /\ Head(a \o z) = d /\ Tail(a \o z) = z
            /\ ElementsOf(a \o z) = {d} \cup ElementsOf(z)
        BY <4>4, HeadJoin DEF a
      <4>6. a \o b \o q = a \o z
        BY <4>3 DEF z
      <4> DEFINE v == a \o z
                 u == a \o b \o q
      <4>7. u = v
        BY <4>6
      <4>8. /\ IsSequence(v) /\ v # <<>> /\ Head(v) = d /\ Tail(v) = z
            /\ ElementsOf(v) = {d} \cup ElementsOf(z)
        BY <4>5
      <4> HIDE DEF u, v
      <4>9. /\ IsSequence(u) /\ u # <<>> /\ Head(u) = d /\ Tail(u) # <<>>
            /\ Head(Tail(u)) = o /\ Tail(Tail(u)) = q /\ ElementsOf(u) = {d, o} \cup ElementsOf(q)
        BY <4>4, <4>7, <4>8
      <4>10. QED
        BY <4>9 DEF u
    <3>6. /\ IsSequence(w \o q) /\ w \o q # <<>> /\ Head(w \o q) = d /\ Tail(w \o q) # <<>>
          /\ Head(Tail(w \o q)) = o /\ Tail(Tail(w \o q)) = q
          /\ ElementsOf(w \o q) = {d, o} \cup ElementsOf(q)
      BY <3>4 DEF w
    <3>7. QED
      BY <2>1, <3>3, <3>6
  <2>2. CASE ~(h.key = "face" /\ h.value = "on")
    <3> DEFINE w == <<o>>
    <3>1. Tells(h) = w
      BY <1>3, <1>4, <2>2
    <3>2. /\ IsSequence(w \o q) /\ w \o q # <<>> /\ Head(w \o q) = o
          /\ Tail(w \o q) = q /\ ElementsOf(w \o q) = {o} \cup ElementsOf(q) /\ Plain(w)
      BY <1>5, HeadJoin
    <3> HIDE DEF w
    <3>3. QED
      BY <3>1, <3>2
  <2>3. QED
    BY <2>1, <2>2
<1>8. QED
  BY <1>1, <1>7 DEF o, d

-----------------------------------------------------------------------------
(* What a step leaves of the setters, and of the settings not told. *)
LEMMA SettersMove ==
  ASSUME StreamInv, Setters, NEW t \in Threads, NEW q, Do(t, q), SetterNext(q),
         t = "preview" => \A k \in Settings :
           m_params'[k] = m_params[k] \/ (k = "flash" /\ m_params'["flash"] = "off"),
         \A e \in ElementsOf(q) : e.op \in Setting =>
           /\ DOMAIN e = {"op", "key", "value", "shown"} /\ e.key \in Settings
           /\ e.op \in {"check", "tell"} =>
                \/ m_params'[e.key] = e.value
                \/ t = "preview"
                \/ e.key = "flash" /\ m_params'["flash"] = "off"
           /\ t = "preview" => e.key = "flash" /\ e.value = "off" /\ e.shown = None
           /\ t = "service" => "started" \notin Marked(q)
  PROVE  Setters'
<1>1. /\ todo'[t] = q /\ \A u \in Threads \ {t} : todo'[u] = todo[u]
      /\ Left(t)' = Marked(q) /\ \A u \in Threads \ {t} : Left(u)' = Left(u)
  BY Sequences DEF Do, Left
<1>2. SetterNext(todo[t])' /\ \A e \in ElementsOf(todo[t])' : SetterOf(t, e)'
  BY <1>1 DEF SetterOf, Stored
<1>3. ASSUME NEW u \in Threads \ {t}
      PROVE  SetterNext(todo[u])' /\ \A e \in ElementsOf(todo[u])' : SetterOf(u, e)'
  <2>1. SetterNext(todo[u]) /\ \A e \in ElementsOf(todo[u]) : SetterOf(u, e)
    BY DEF Setters
  <2>2. ASSUME NEW e \in ElementsOf(todo[u]), e.op \in Setting
        PROVE  SetterOf(u, e)'
    <3>1. /\ DOMAIN e = {"op", "key", "value", "shown"} /\ e.key \in Settings /\ Stored(u, e)
          /\ u = "preview" => e.key = "flash" /\ e.value = "off" /\ e.shown = None
          /\ u = "service" => "started" \notin Left(u)
      BY <2>1, <2>2 DEF SetterOf
    <3>2. Stored(u, e)'
      <4>1. CASE u = "preview"
        BY <4>1 DEF Stored
      <4>2. CASE u # "preview"
        <5>1. t = "preview"
          BY <4>2 DEF Threads
        <5>2. "flash" \in Settings
          BY DEF Settings, Keys
        <5>3. QED
          BY <3>1, <4>2, <5>1, <5>2 DEF Stored
      <4>3. QED
        BY <4>1, <4>2
    <3>3. QED
      BY <1>1, <3>1, <3>2 DEF SetterOf
  <2>3. \A e \in ElementsOf(todo[u]) : e.op \notin Setting => SetterOf(u, e)'
    BY DEF SetterOf
  <2>4. QED
    BY <1>1, <2>1, <2>2, <2>3
<1>4. QED
  BY <1>2, <1>3 DEF Setters

\* What comes after a step of a setter.
LEMMA TailNext ==
  ASSUME NEW q, IsSequence(q), q # <<>>, SetterNext(q)
  PROVE  /\ SetterNext(Tail(q))
         /\ Head(q).op # "displace" => Quiet(Tail(q))
         /\ Head(q).op = "displace" => /\ Tail(q) # <<>> /\ Head(Tail(q)).op = "tell"
                                       /\ Head(Tail(q)).key = "face"
                                       /\ SetterNext(Tail(Tail(q)))
<1>1. IsSequence(Tail(q))
  BY ElementsTail
<1>2. CASE Head(q).op # "displace"
  BY <1>1, <1>2, QuietNext DEF SetterNext
<1>3. CASE Head(q).op = "displace"
  <2>1. /\ Tail(q) # <<>> /\ Head(Tail(q)).op = "tell" /\ Head(Tail(q)).key = "face"
        /\ Quiet(Tail(Tail(q)))
    BY <1>3 DEF SetterNext, Paired
  <2>2. IsSequence(Tail(Tail(q)))
    BY <1>1, <2>1, ElementsTail
  <2>3. SetterNext(Tail(q))
    BY <2>1 DEF SetterNext, Paired
  <2>4. QED
    BY <1>3, <2>1, <2>2, <2>3, QuietNext
<1>4. QED
  BY <1>2, <1>3

\* A step that leaves some of the steps there were.
LEMMA SettersLess ==
  ASSUME StreamInv, Setters, NEW t \in Threads, NEW q, Do(t, q), SetterNext(q),
         m_params' = m_params, ElementsOf(q) \subseteq ElementsOf(todo[t])
  PROVE  Setters'
<1>1. \A e \in ElementsOf(q) : SetterOf(t, e)
  BY DEF Setters
<1>2. Marked(q) \subseteq Marked(todo[t])
  <2>1. \A r : OpsOf(r) = {e.op : e \in ElementsOf(r)}
    BY DEF ElementsOf, OpsOf
  <2>2. QED
    BY <2>1 DEF Marked
<1>3. Left(t) = Marked(todo[t])
  BY DEF Left
<1>4. QED
  BY <1>1, <1>2, <1>3, SettersMove DEF SetterOf, Stored

\* The tail, in particular, or two steps skipped.
LEMMA SettersTail ==
  ASSUME StreamInv, Setters, NEW t \in Threads, todo[t] # <<>>, m_params' = m_params,
         \/ Do(t, Tail(todo[t]))
         \/ Head(todo[t]).op \in {"displace", "streamoff"} /\ Do(t, Tail(Tail(todo[t])))
  PROVE  Setters'
<1> DEFINE q == todo[t]
<1>1. IsSequence(q) /\ SetterNext(q) /\ WellFormed(q)
  BY Sequences DEF Setters, StreamInv, Sequenced
<1>2. IsSequence(Tail(q)) /\ SetterNext(Tail(q)) /\ ElementsOf(Tail(q)) \subseteq ElementsOf(q)
  BY <1>1, TailNext, ElementsTail
<1> HIDE DEF q
<1>3. CASE Do(t, Tail(todo[t]))
  BY <1>2, <1>3, SettersLess DEF q
<1>4. CASE Head(todo[t]).op \in {"displace", "streamoff"} /\ Do(t, Tail(Tail(todo[t])))
  <2>1. Tail(q) # <<>> /\ q # <<>>
    BY <1>1, <1>4, PairSkipped DEF q
  <2>2. SetterNext(Tail(Tail(q))) /\ ElementsOf(Tail(Tail(q))) \subseteq ElementsOf(q)
    BY <1>2, <2>1, TailNext, ElementsTail
  <2>3. QED
    BY <1>4, <2>2, SettersLess DEF q
<1>5. QED
  BY <1>3, <1>4

\* Without a failing call only the focus and the flash may be untold, whatever
\* a thread goes on with.
LEMMA ExcusedKept ==
  ASSUME StreamInv, Excused, NEW t \in Threads, NEW q, Do(t, q),
         \/ /\ faults' = faults /\ (faults = 0 => untold' \subseteq {"focus", "flash"})
            /\ t = "preview" => ("started" \in Marked(q) => "started" \in Left(t))
         \/ faults' = faults + 1
  PROVE  Excused'
<1>1. Left(t)' = Marked(q) /\ \A u \in Threads \ {t} : Left(u)' = Left(u)
  BY Sequences DEF Do, Left
<1>2. faults \in Nat
  BY DEF Excused
<1>3. CASE faults' = faults + 1
  BY <1>2, <1>3 DEF Excused
<1>4. CASE faults' # faults + 1
  <2>1. "preview" \in Threads
    BY DEF Threads
  <2>2. faults = 0 => "started" \notin Left("preview")'
    BY <1>1, <1>4, <2>1 DEF Excused
  <2>3. QED
    BY <1>2, <1>4, <2>2 DEF Excused
<1>5. QED
  BY <1>3, <1>4

\* The thread's next step of those that have nothing to do with the sensor.
LEMMA AsideKeepsSensor ==
  ASSUME StreamInv, SensorInv, NEW t \in Threads, todo[t] # <<>>, Do(t, Tail(todo[t])),
         Head(todo[t]).op \notin StreamSteps \cup {"send", "check", "tell"},
         UNCHANGED <<camera, m_flag_camera_start, streaming, m_params, sensor, untold>>,
         DOMAIN mParameters' = DOMAIN mParameters, faults' \in {faults, faults + 1}
  PROVE  SensorInv'
<1> DEFINE q == Tail(todo[t])
<1>1. /\ m_flag_camera_start' = m_flag_camera_start /\ streaming' = streaming
      /\ camera' = camera /\ m_params' = m_params /\ sensor' = sensor /\ untold' = untold
  OBVIOUS
<1>2. Domains /\ Setters /\ ToldSoFar /\ Excused
  BY DEF SensorInv
<1>3. Marked(q) = Left(t) \ {Head(todo[t]).op} /\ IsSequence(todo[t])
  BY HeadDone, Sequences
<1>4. SendsInOrder(camera, q)
  <2>1. SendsInOrder(camera, todo[t])
    BY <1>2 DEF ToldSoFar, Sends
  <2>2. QED
    BY <1>3, <2>1, TailInOrder
<1>5. \A k : Current(k) => Current(k)'
  BY <1>1, CurrentKept
<1>6. Marked(q) \cap StreamSteps = Marked(Tail(todo[t])) \cap StreamSteps
  OBVIOUS
<1>7. Do(t, q)
  OBVIOUS
<1> HIDE DEF q
<1>8. ToldSoFar'
  <2>1. \A k : Sent(Tail(todo[t]), k) => Sent(q, k)
    BY DEF q
  <2>2. Head(todo[t]).op \notin StreamSteps \cup {"send"}
    OBVIOUS
  <2>3. QED
    BY <1>1, <1>2, <1>4, <1>5, <1>6, <1>7, <2>1, <2>2, ToldAside
<1>9. Setters'
  BY <1>1, <1>2, SettersTail
<1>10. Excused'
  <2>1. faults = 0 => untold' \subseteq {"focus", "flash"}
    BY <1>1, <1>2 DEF Excused
  <2>2. QED
    BY <1>2, <1>3, <1>7, <2>1, ExcusedKept
<1>11. Domains'
  BY <1>1, <1>2 DEF Domains
<1>12. QED
  BY <1>8, <1>9, <1>10, <1>11 DEF SensorInv
-----------------------------------------------------------------------------
(* The steps of a setter keep what the sensor has been told. *)
LEMMA SetterHead ==
  ASSUME StreamInv, SensorInv, NEW t \in Threads, todo[t] # <<>>
  PROVE  LET h == Head(todo[t]) IN
         /\ Domains /\ Setters /\ ToldSoFar /\ Excused
         /\ Marked(Tail(todo[t])) = Left(t) \ {h.op} /\ IsSequence(todo[t])
         /\ WellFormed(Tail(todo[t])) /\ WellFormed(todo[t])
         /\ SendsInOrder(camera, todo[t]) /\ SendsInOrder(camera, Tail(todo[t]))
         /\ SetterOf(t, h) /\ SetterNext(todo[t])
         /\ \A e \in ElementsOf(Tail(todo[t])) : SetterOf(t, e)
         /\ camera # None /\ Left(t) = Marked(todo[t])
<1>1. Domains /\ Setters /\ ToldSoFar /\ Excused
  BY DEF SensorInv
<1>2. /\ Marked(Tail(todo[t])) = Left(t) \ {Head(todo[t]).op} /\ IsSequence(todo[t])
      /\ camera # None /\ WellFormed(Tail(todo[t])) /\ WellFormed(todo[t])
  BY HeadDone, Sequences DEF StreamInv, Sequenced
<1>3. SendsInOrder(camera, todo[t]) /\ SendsInOrder(camera, Tail(todo[t]))
  <2>1. SendsInOrder(camera, todo[t])
    BY <1>1 DEF ToldSoFar, Sends
  <2>2. QED
    BY <1>2, <2>1, TailInOrder
<1>4. SetterNext(todo[t]) /\ \A e \in ElementsOf(todo[t]) : SetterOf(t, e)
  BY <1>1 DEF Setters
<1>5. ElementsOf(todo[t]) = {Head(todo[t])} \cup ElementsOf(Tail(todo[t]))
  BY Sequences
<1>6. QED
  BY <1>1, <1>2, <1>3, <1>4, <1>5 DEF Left

\* Finding the value in place.
LEMMA SameKeepsSensor ==
  ASSUME StreamInv, SensorInv, NEW t \in Threads, Same(t)
  PROVE  SensorInv'
<1>1. /\ todo[t] # <<>> /\ Head(todo[t]).op = "set" /\ Do(t, Tail(todo[t]))
      /\ UNCHANGED <<camera, m_flag_camera_start, streaming, m_params, sensor, untold, faults>>
      /\ Show(Head(todo[t]))
  BY DEF Same, At, Done, streamVars, callVars
<1>2. DOMAIN mParameters' = DOMAIN mParameters
  BY <1>1 DEF Show
<1>3. "set" \notin StreamSteps \cup {"send", "check", "tell"}
  BY DEF StreamSteps
<1>4. QED
  BY <1>1, <1>2, <1>3, AsideKeepsSensor

\* Keeping a value.
LEMMA StoreKeepsSensor ==
  ASSUME StreamInv, SensorInv, NEW t \in Threads, Store(t)
  PROVE  SensorInv'
<1> DEFINE h == Head(todo[t])
           r == Tail(todo[t])
           o == [h EXCEPT !.op = "check"]
           p == <<o>>
           q == p \o r
<1>1. /\ todo[t] # <<>> /\ h.op = "set" /\ Do(t, q)
      /\ m_params' = [m_params EXCEPT ![h.key] = h.value]
      /\ camera' = camera /\ m_flag_camera_start' = m_flag_camera_start
      /\ streaming' = streaming /\ sensor' = sensor /\ untold' = untold /\ faults' = faults
      /\ mParameters' = mParameters
  BY DEF Store, At, streamVars, callVars
<1>2. /\ Domains /\ Setters /\ ToldSoFar /\ Excused
      /\ Marked(r) = Left(t) \ {h.op} /\ IsSequence(todo[t]) /\ WellFormed(r)
      /\ SendsInOrder(camera, r) /\ SetterOf(t, h) /\ SetterNext(todo[t])
      /\ \A e \in ElementsOf(r) : SetterOf(t, e)
      /\ camera # None /\ Left(t) = Marked(todo[t])
  BY <1>1, SetterHead
<1>3. /\ DOMAIN h = {"op", "key", "value", "shown"} /\ h.key \in Settings
      /\ t = "preview" => h.key = "flash" /\ h.value = "off" /\ h.shown = None
      /\ t = "service" => "started" \notin Left(t)
  BY <1>1, <1>2 DEF SetterOf, Setting
<1>4. /\ DOMAIN o = {"op", "key", "value", "shown"} /\ o.op = "check" /\ o.key = h.key
      /\ o.value = h.value /\ o.shown = h.shown
  BY <1>3
<1>5. Quiet(r)
  BY <1>1, <1>2, TailNext
<1> HIDE DEF h, o
<1>6. Plain(p)
  BY <1>4, PlainOne DEF Marks
<1>7. /\ IsSequence(q) /\ q # <<>> /\ Head(q) = o /\ Tail(q) = r
      /\ ElementsOf(q) = {o} \cup ElementsOf(r)
  <2>1. IsSequence(r)
    BY <1>2 DEF WellFormed
  <2> HIDE DEF r
  <2>2. QED
    BY <2>1, HeadJoin
<1>8. /\ Marked(q) = Marked(r) /\ SendsInOrder(camera, q)
      /\ \A k : Sent(r, k) => Sent(q, k)
  <2> HIDE DEF p, r
  <2>1. QED
    BY <1>2, <1>6, FrontSends
<1> HIDE DEF p, q, r
<1>9. /\ m_params'[h.key] = h.value /\ DOMAIN m_params' = Settings
      /\ \A k \in Settings : k # h.key => m_params'[k] = m_params[k]
  BY <1>1, <1>2, <1>3 DEF Domains
<1>10. Setters'
  <2>1. SetterNext(q)
    BY <1>4, <1>5, <1>7 DEF SetterNext, Paired
  <2>2. t = "preview" => \A k \in Settings :
          m_params'[k] = m_params[k] \/ (k = "flash" /\ m_params'["flash"] = "off")
    BY <1>3, <1>9
  <2>3. ASSUME NEW e \in ElementsOf(q), e.op \in Setting
        PROVE  /\ DOMAIN e = {"op", "key", "value", "shown"} /\ e.key \in Settings
               /\ e.op \in {"check", "tell"} =>
                    \/ m_params'[e.key] = e.value
                    \/ t = "preview"
                    \/ e.key = "flash" /\ m_params'["flash"] = "off"
               /\ t = "preview" => e.key = "flash" /\ e.value = "off" /\ e.shown = None
               /\ t = "service" => "started" \notin Marked(q)
    <3>1. "started" \in Marked(q) => "started" \in Left(t)
      BY <1>2, <1>8
    <3>2. CASE e = o
      BY <1>3, <1>4, <1>9, <3>1, <3>2
    <3>3. CASE e # o
      <4>1. e \in ElementsOf(r) /\ e.op \notin {"check", "tell"}
        BY <1>5, <1>7, <3>3 DEF Quiet
      <4>2. QED
        BY <1>2, <2>3, <3>1, <4>1 DEF SetterOf
    <3>4. QED
      BY <3>2, <3>3
  <2>4. QED
    BY <1>1, <1>2, <2>1, <2>2, <2>3, SettersMove
<1>11. ToldSoFar'
  <2>1. ASSUME NEW k \in Resent(camera), Current(k)  PROVE Current(k)'
    <3>1. k \in Settings
      BY ResentKeys
    <3>2. CASE k = h.key
      <4>1. todo'[t] = q
        BY <1>1, Sequences DEF Do
      <4>2. Telling(k)'
        BY <1>4, <1>7, <3>2, <4>1 DEF Telling
      <4>3. QED
        BY <4>2 DEF Current
    <3>3. CASE k # h.key
      <4>1. Telling(k) => Telling(k)'
        BY <1>1, <3>3, StillTelling DEF h
      <4>2. m_params'[k] = m_params[k]
        BY <1>9, <3>1, <3>3
      <4>3. QED
        BY <1>1, <2>1, <4>1, <4>2 DEF Current
    <3>4. QED
      BY <3>2, <3>3
  <2>2. Head(todo[t]).op \notin StreamSteps \cup {"send"}
    BY <1>1 DEF h, StreamSteps
  <2>3. Marked(q) \cap StreamSteps = Marked(Tail(todo[t])) \cap StreamSteps
    BY <1>8 DEF r
  <2>4. \A k : Sent(Tail(todo[t]), k) => Sent(q, k)
    BY <1>8 DEF r
  <2>5. QED
    BY <1>1, <1>2, <1>8, <2>1, <2>2, <2>3, <2>4, ToldAside
<1>12. Excused'
  <2>1. faults = 0 => untold' \subseteq {"focus", "flash"}
    BY <1>1, <1>2 DEF Excused
  <2>2. "started" \in Marked(q) => "started" \in Left(t)
    BY <1>2, <1>8
  <2>3. QED
    BY <1>1, <1>2, <2>1, <2>2, ExcusedKept
<1>13. Domains'
  BY <1>1, <1>2, <1>9 DEF Domains
<1>14. QED
  BY <1>10, <1>11, <1>12, <1>13 DEF SensorInv
\* A step that takes one of a setter's steps away.
LEMMA TakenKeepsSensor ==
  ASSUME StreamInv, SensorInv, NEW t \in Threads, todo[t] # <<>>,
         Do(t, Tail(todo[t])), Head(todo[t]).op \notin StreamSteps \cup {"send"},
         camera' = camera, m_flag_camera_start' = m_flag_camera_start,
         streaming' = streaming, m_params' = m_params,
         DOMAIN sensor' = DOMAIN sensor, DOMAIN mParameters' = DOMAIN mParameters,
         \A k \in Resent(camera) : Current(k) =>
           \/ Current(k)'
           \/ ~m_flag_camera_start /\ \A u \in Threads : Going(Left(u)) => Sent(todo[u], k),
         \/ faults' = faults /\ (faults = 0 => untold' \subseteq {"focus", "flash"})
         \/ faults' = faults + 1
  PROVE  SensorInv'
<1> DEFINE r == Tail(todo[t])
<1>1. /\ Domains /\ Setters /\ ToldSoFar /\ Excused
      /\ Marked(r) = Left(t) \ {Head(todo[t]).op} /\ SendsInOrder(camera, r)
  BY SetterHead
<1>2. Setters'
  BY <1>1, SettersTail
<1>3. Do(t, r) /\ Marked(r) \cap StreamSteps = Marked(Tail(todo[t])) \cap StreamSteps
      /\ \A k : Sent(Tail(todo[t]), k) => Sent(r, k)
  OBVIOUS
<1> HIDE DEF r
<1>4. ToldSoFar'
  BY <1>1, <1>3, ToldAside
<1>5. Excused'
  <2>1. "started" \in Marked(r) => "started" \in Left(t)
    BY <1>1
  <2>2. QED
    BY <1>1, <1>3, <2>1, ExcusedKept
<1>6. Domains'
  BY <1>1 DEF Domains
<1>7. QED
  BY <1>2, <1>4, <1>5, <1>6 DEF SensorInv

\* Finding the flag: up, the sensor is to be told; down, a start that is still to
\* send the setting will, and one that is past it leaves it untold.
LEMMA CheckKeepsSensor ==
  ASSUME StreamInv, SensorInv, NEW t \in Threads, Check(t)
  PROVE  SensorInv'
<1> DEFINE h == Head(todo[t])
           r == Tail(todo[t])
           o == [h EXCEPT !.op = "tell"]
           p == Tells(h)
           q == p \o r
<1>1. /\ todo[t] # <<>> /\ h.op = "check"
      /\ m_params' = m_params /\ camera' = camera
      /\ m_flag_camera_start' = m_flag_camera_start
      /\ streaming' = streaming /\ sensor' = sensor /\ faults' = faults
  BY DEF Check, At, streamVars, callVars
<1>2. /\ Domains /\ Setters /\ ToldSoFar /\ Excused
      /\ Marked(r) = Left(t) \ {h.op} /\ IsSequence(todo[t]) /\ WellFormed(r)
      /\ SendsInOrder(camera, r) /\ SetterOf(t, h) /\ SetterNext(todo[t])
      /\ \A e \in ElementsOf(r) : SetterOf(t, e)
      /\ camera # None /\ Left(t) = Marked(todo[t])
  BY <1>1, SetterHead
<1>3. /\ DOMAIN h = {"op", "key", "value", "shown"} /\ h.key \in Settings
      /\ Stored(t, h)
      /\ t = "preview" => h.key = "flash" /\ h.value = "off" /\ h.shown = None
      /\ t = "service" => "started" \notin Left(t)
  BY <1>1, <1>2 DEF SetterOf, Setting
<1>4. Quiet(r)
  BY <1>1, <1>2, TailNext
<1>5. CASE ~m_flag_camera_start
  <2>1. /\ Do(t, Tail(todo[t])) /\ Show(h)
        /\ untold' = IF Passed(h.key) THEN untold \cup {h.key} ELSE untold
    BY <1>5 DEF Check, Done
  <2>2. DOMAIN mParameters' = DOMAIN mParameters /\ DOMAIN sensor' = DOMAIN sensor
    BY <1>1, <2>1 DEF Show
  <2> HIDE DEF r
  <2>3. ASSUME NEW k \in Resent(camera), Current(k)
        PROVE  \/ Current(k)'
               \/ ~m_flag_camera_start /\ \A u \in Threads : Going(Left(u)) => Sent(todo[u], k)
    <3>1. CASE k = h.key
      <4>1. CASE Passed(h.key)
        BY <2>1, <3>1, <4>1 DEF Current
      <4>2. CASE ~Passed(h.key)
        <5>1. ASSUME NEW u \in Threads, Going(Left(u))  PROVE Sent(todo[u], k)
          <6>1. "started" \in OpsOf(todo[u])
            BY <5>1 DEF Going, Left, Marked
          <6>2. \E i \in DOMAIN todo[u] : todo[u][i].op = "started"
            BY <6>1 DEF OpsOf
          <6>3. \E i \in DOMAIN todo[u] : todo[u][i].op = "send" /\ k \in todo[u][i].keys
            BY <3>1, <4>2, <6>2 DEF Passed
          <6>4. QED
            BY <6>3 DEF Sent, ElementsOf
        <5>2. QED
          BY <1>5, <5>1
      <4>3. QED
        BY <4>1, <4>2
    <3>2. CASE k # h.key
      <4>1. Telling(k) => Telling(k)'
        BY <2>1, <3>2, StillTelling DEF h
      <4>2. k \in untold => k \in untold'
        BY <2>1
      <4>3. QED
        BY <1>1, <2>3, <4>1, <4>2 DEF Current
    <3>3. QED
      BY <3>1, <3>2
  <2>4. faults = 0 => untold' \subseteq {"focus", "flash"}
    <3>1. ASSUME faults = 0  PROVE untold' \subseteq {"focus", "flash"}
      <4>1. untold \subseteq {"focus", "flash"} /\ "started" \notin Left("preview")
        BY <1>2, <3>1 DEF Excused
      <4>2. CASE t = "preview"
        BY <1>3, <2>1, <4>1, <4>2
      <4>3. CASE t # "preview"
        <5>1. \A u \in Threads : "started" \notin Left(u)
          BY <1>3, <4>1, <4>3 DEF Threads
        <5>2. \A u \in Threads : "started" \notin OpsOf(todo[u])
          BY <5>1 DEF Left, Marked, Marks
        <5>3. ~Passed(h.key)
          BY <5>2 DEF Passed, OpsOf
        <5>4. QED
          BY <2>1, <4>1, <5>3
      <4>4. QED
        BY <4>2, <4>3
    <3>2. QED
      BY <3>1
  <2>5. Head(todo[t]).op \notin StreamSteps \cup {"send"}
    BY <1>1 DEF StreamSteps
  <2>6. QED
    BY <1>1, <2>1, <2>2, <2>3, <2>4, <2>5, TakenKeepsSensor
<1>6. CASE m_flag_camera_start
  <2>1. Do(t, q) /\ mParameters' = mParameters /\ untold' = untold
    BY <1>6 DEF Check, Tells
  <2>2. IsSequence(r)
    BY <1>2 DEF WellFormed
  <2> HIDE DEF h, r
  <2>3. /\ o.op = "tell" /\ o.key = h.key /\ o.value = h.value /\ o.shown = h.shown
        /\ DOMAIN o = {"op", "key", "value", "shown"}
        /\ Plain(p) /\ IsSequence(q) /\ q # <<>>
        /\ \A e \in ElementsOf(q) : e = o \/ e \in ElementsOf(r) \/ e = [op |-> "displace"]
        /\ \/ Head(q) = o /\ Tail(q) = r
           \/ /\ Head(q) = [op |-> "displace"] /\ h.key = "face"
              /\ Tail(q) # <<>> /\ Head(Tail(q)) = o
              /\ Tail(Tail(q)) = r
    BY <1>3, <2>2, TellsFirst
  <2> HIDE DEF o, p
  <2>4. /\ Marked(q) = Marked(r) /\ SendsInOrder(camera, q)
        /\ \A k : Sent(r, k) => Sent(q, k)
    <3>1. Plain(p) /\ WellFormed(r) /\ SendsInOrder(camera, r)
      BY <1>2, <2>3
    <3>2. /\ Marked(p \o r) = Marked(r) /\ SendsInOrder(camera, p \o r) /\ WellFormed(p \o r)
          /\ \A k : Sent(r, k) => Sent(p \o r, k)
      BY <3>1, FrontSends, Zenon
    <3>3. QED
      BY <3>2
  <2> HIDE DEF q
  <2>5. [op |-> "displace"].op = "displace"
    OBVIOUS
  <2> DEFINE d == [op |-> "displace"]
  <2>6. /\ d.op = "displace"
        /\ \A e \in ElementsOf(q) : e = o \/ e \in ElementsOf(r) \/ e = d
        /\ \/ Head(q) = o /\ Tail(q) = r
           \/ Head(q) = d /\ h.key = "face" /\ Tail(q) # <<>> /\ Head(Tail(q)) = o
              /\ Tail(Tail(q)) = r
    BY <2>3
  <2> HIDE DEF d
  <2>7. SetterNext(q)
    BY <1>4, <2>3, <2>6 DEF SetterNext, Paired
  <2>8. Setters'
    <3>1. ASSUME NEW e \in ElementsOf(q), e.op \in Setting
          PROVE  /\ DOMAIN e = {"op", "key", "value", "shown"} /\ e.key \in Settings
                 /\ e.op \in {"check", "tell"} =>
                      \/ m_params'[e.key] = e.value
                      \/ t = "preview"
                      \/ e.key = "flash" /\ m_params'["flash"] = "off"
                 /\ t = "preview" => e.key = "flash" /\ e.value = "off" /\ e.shown = None
                 /\ t = "service" => "started" \notin Marked(q)
      <4>1. "started" \in Marked(q) => "started" \in Left(t)
        BY <1>2, <2>4
      <4>2. CASE e = o
        <5>1. \/ m_params[h.key] = h.value
              \/ t = "preview"
              \/ h.key = "flash" /\ m_params["flash"] = "off"
          BY <1>1, <1>3 DEF Stored
        <5>2. QED
          BY <1>1, <1>3, <2>3, <4>1, <4>2, <5>1
      <4>3. CASE e = d
        BY <2>6, <3>1, <4>3 DEF Setting
      <4>4. CASE e \in ElementsOf(r)
        BY <1>1, <1>2, <3>1, <4>1, <4>4 DEF SetterOf, Stored
      <4>5. QED
        BY <2>6, <4>2, <4>3, <4>4
    <3>2. t = "preview" => \A k \in Settings :
            m_params'[k] = m_params[k] \/ (k = "flash" /\ m_params'["flash"] = "off")
      BY <1>1
    <3>3. QED
      BY <1>2, <2>1, <2>7, <3>1, <3>2, SettersMove
  <2>9. ToldSoFar'
    <3>1. ASSUME NEW k \in Resent(camera), Current(k)  PROVE Current(k)'
      <4>1. k # "face"
        BY ResentKeys
      <4>2. Telling(k) => Telling(k)'
        <5>1. CASE k = h.key
          <6>1. q # <<>> /\ Head(q).op \in {"check", "tell"} /\ Head(q).key = k
            BY <2>3, <2>6, <4>1, <5>1
          <6>2. QED
            BY <2>1, <6>1, StillTelling
        <5>2. CASE k # h.key
          BY <2>1, <5>2, StillTelling DEF h
        <5>3. QED
          BY <5>1, <5>2
      <4>3. QED
        BY <1>1, <2>1, <3>1, <4>2 DEF Current
    <3>2. Head(todo[t]).op \notin StreamSteps \cup {"send"}
      BY <1>1 DEF h, StreamSteps
    <3>3. Marked(q) \cap StreamSteps = Marked(Tail(todo[t])) \cap StreamSteps
      BY <2>4 DEF r
    <3>4. \A k : Sent(Tail(todo[t]), k) => Sent(q, k)
      BY <2>4 DEF r
    <3>5. QED
      BY <1>1, <1>2, <2>1, <2>4, <3>1, <3>2, <3>3, <3>4, ToldAside
  <2>10. Excused'
    <3>1. faults = 0 => untold' \subseteq {"focus", "flash"}
      BY <1>2, <2>1 DEF Excused
    <3>2. "started" \in Marked(q) => "started" \in Left(t)
      BY <1>2, <2>4
    <3>3. QED
      BY <1>1, <1>2, <2>1, <3>1, <3>2, ExcusedKept
  <2>11. Domains'
    BY <1>1, <1>2, <2>1 DEF Domains
  <2>12. QED
    BY <2>8, <2>9, <2>10, <2>11 DEF SensorInv
<1>7. QED
  BY <1>5, <1>6
\* Telling the sensor.
LEMMA TellKeepsSensor ==
  ASSUME StreamInv, SensorInv, NEW t \in Threads, Tell(t)
  PROVE  SensorInv'
<1> DEFINE h == Head(todo[t])
<1>1. /\ todo[t] # <<>> /\ h.op = "tell" /\ Do(t, Tail(todo[t])) /\ Show(h)
      /\ sensor' = [sensor EXCEPT ![h.key] = h.value]
      /\ untold' = IF m_params[h.key] = h.value THEN untold \ {h.key} ELSE untold \cup {h.key}
      /\ m_params' = m_params /\ camera' = camera
      /\ m_flag_camera_start' = m_flag_camera_start
      /\ streaming' = streaming /\ faults' = faults
  BY DEF Tell, At, Done, streamVars, callVars
<1>2. Domains /\ Excused /\ SetterOf(t, h)
  BY <1>1, SetterHead
<1>3. /\ h.key \in Settings /\ Stored(t, h)
      /\ t = "preview" => h.key = "flash"
  BY <1>1, <1>2 DEF SetterOf, Setting
<1>4. /\ DOMAIN mParameters' = DOMAIN mParameters /\ DOMAIN sensor' = DOMAIN sensor
      /\ sensor'[h.key] = h.value
      /\ \A k \in Settings : k # h.key => sensor'[k] = sensor[k]
  BY <1>1, <1>2, <1>3 DEF Show, Domains
<1>5. ASSUME NEW k \in Resent(camera), Current(k)  PROVE Current(k)'
  <2>1. k \in Settings
    BY ResentKeys
  <2>2. CASE k = h.key
    BY <1>1, <1>4, <2>2 DEF Current
  <2>3. CASE k # h.key
    <3>1. Telling(k) => Telling(k)'
      BY <1>1, <2>3, StillTelling
    <3>2. k \in untold => k \in untold'
      BY <1>1, <2>3
    <3>3. sensor'[k] = sensor[k]
      BY <1>4, <2>1, <2>3
    <3>4. QED
      BY <1>1, <1>5, <3>1, <3>2, <3>3 DEF Current
  <2>4. QED
    BY <2>2, <2>3
<1>6. faults = 0 => untold' \subseteq {"focus", "flash"}
  <2>1. m_params[h.key] # h.value => h.key = "flash"
    BY <1>1, <1>3 DEF Stored, Threads
  <2>2. QED
    BY <1>1, <1>2, <2>1 DEF Excused
<1>7. Head(todo[t]).op \notin StreamSteps \cup {"send"}
  BY <1>1 DEF StreamSteps
<1>8. QED
  BY <1>1, <1>4, <1>5, <1>6, <1>7, TakenKeepsSensor

\* A sensor that refuses it.
LEMMA RefusedKeepsSensor ==
  ASSUME StreamInv, SensorInv, NEW t \in Threads, TellRefused(t)
  PROVE  SensorInv'
<1> DEFINE h == Head(todo[t])
<1>1. /\ todo[t] # <<>> /\ h.op = "tell" /\ Do(t, Tail(todo[t]))
      /\ untold' = untold \cup {h.key} /\ sensor' = sensor /\ mParameters' = mParameters
      /\ m_params' = m_params /\ camera' = camera
      /\ m_flag_camera_start' = m_flag_camera_start
      /\ streaming' = streaming /\ faults' = faults + 1
  BY DEF TellRefused, At, Done, Fault, streamVars, callVars
<1>2. ASSUME NEW k \in Resent(camera), Current(k)  PROVE Current(k)'
  <2>1. k = h.key \/ (Telling(k) => Telling(k)')
    BY <1>1, StillTelling
  <2>2. QED
    BY <1>1, <1>2, <2>1 DEF Current
<1>3. Head(todo[t]).op \notin StreamSteps \cup {"send"}
  BY <1>1 DEF StreamSteps
<1>4. DOMAIN sensor' = DOMAIN sensor /\ DOMAIN mParameters' = DOMAIN mParameters
  BY <1>1
<1>5. QED
  BY <1>1, <1>2, <1>3, <1>4, TakenKeepsSensor

\* Face detection moves the focus of the sensor ...
LEMMA DisplaceKeepsSensor ==
  ASSUME StreamInv, SensorInv, NEW t \in Threads, Displace(t)
  PROVE  SensorInv'
<1> DEFINE h == Head(todo[t])
<1>1. /\ todo[t] # <<>> /\ h.op = "displace" /\ Do(t, Tail(todo[t]))
      /\ sensor' = [sensor EXCEPT !["focus"] = "auto"]
      /\ untold' = IF m_params["focus"] = "auto" THEN untold \ {"focus"} ELSE untold \cup {"focus"}
      /\ m_params' = m_params /\ camera' = camera /\ mParameters' = mParameters
      /\ m_flag_camera_start' = m_flag_camera_start
      /\ streaming' = streaming /\ faults' = faults
  BY DEF Displace, At, Done, streamVars, callVars
<1>2. Domains /\ Excused
  BY <1>1, SetterHead
<1>3. /\ DOMAIN sensor' = DOMAIN sensor /\ sensor'["focus"] = "auto"
      /\ \A k \in Settings : k # "focus" => sensor'[k] = sensor[k]
  BY <1>1, <1>2 DEF Domains, Settings, Keys
<1>4. ASSUME NEW k \in Resent(camera), Current(k)  PROVE Current(k)'
  <2>1. k \in Settings
    BY ResentKeys
  <2>2. CASE k = "focus"
    BY <1>1, <1>3, <2>2 DEF Current
  <2>3. CASE k # "focus"
    <3>1. Telling(k) => Telling(k)'
      BY <1>1, <2>3, StillTelling
    <3>2. k \in untold => k \in untold'
      BY <1>1, <2>3
    <3>3. sensor'[k] = sensor[k]
      BY <1>3, <2>1, <2>3
    <3>4. QED
      BY <1>1, <1>4, <3>1, <3>2, <3>3 DEF Current
  <2>4. QED
    BY <2>2, <2>3
<1>5. faults = 0 => untold' \subseteq {"focus", "flash"}
  BY <1>1, <1>2 DEF Excused
<1>6. Head(todo[t]).op \notin StreamSteps \cup {"send"}
  BY <1>1 DEF StreamSteps
<1>7. DOMAIN mParameters' = DOMAIN mParameters
  BY <1>1
<1>8. QED
  BY <1>1, <1>3, <1>4, <1>5, <1>6, <1>7, TakenKeepsSensor

\* ... or is refused it, and gives up.
LEMMA SkippedKeepsSensor ==
  ASSUME StreamInv, SensorInv, NEW t \in Threads, DisplaceRefused(t)
  PROVE  SensorInv'
<1> DEFINE h == Head(todo[t])
           r == Tail(todo[t])
           q == Tail(r)
<1>1. /\ todo[t] # <<>> /\ h.op = "displace" /\ Do(t, q)
      /\ untold' = untold \cup {"face"} /\ sensor' = sensor /\ mParameters' = mParameters
      /\ m_params' = m_params /\ camera' = camera
      /\ m_flag_camera_start' = m_flag_camera_start
      /\ streaming' = streaming /\ faults' = faults + 1
  BY DEF DisplaceRefused, At, Fault, streamVars, callVars
<1>2. /\ Domains /\ Setters /\ ToldSoFar /\ Excused
      /\ Marked(r) = Left(t) \ {h.op} /\ WellFormed(r)
      /\ SendsInOrder(camera, r) /\ SetterNext(todo[t]) /\ IsSequence(todo[t])
      /\ camera # None /\ Left(t) = Marked(todo[t]) /\ WellFormed(todo[t])
  BY <1>1, SetterHead
<1>3. Setters'
  BY <1>1, <1>2, SettersTail
<1>4. r # <<>> /\ Head(r).op = "tell"
  BY <1>1, <1>2, TailNext
<1>5. Marked(q) = Left(t) /\ "displace" \notin Left(t)
  <2>1. Marked(q) = Marked(todo[t])
    BY <1>1, <1>2, PairSkipped
  <2>2. QED
    BY <1>2, <2>1 DEF Marked, Marks
<1>6. Marked(q) \cap StreamSteps = Marked(Tail(todo[t])) \cap StreamSteps
  BY <1>1, <1>2, <1>5
<1> HIDE DEF q
<1>7. SendsInOrder(camera, q)
  BY <1>2, <1>4, TailInOrder DEF WellFormed, q
<1>8. \A k : Sent(Tail(todo[t]), k) => Sent(q, k)
  <2>1. IsSequence(r)
    BY <1>2 DEF WellFormed
  <2>2. ElementsOf(r) = {Head(r)} \cup ElementsOf(q)
    BY <1>4, <2>1, ElementsTail DEF q
  <2>3. QED
    BY <1>4, <2>2 DEF Sent
<1>9. \A k \in Resent(camera) : Current(k) => Current(k)'
  <2>1. \A k : Telling(k) => Telling(k)'
    BY <1>1, StillTelling
  <2>2. QED
    BY <1>1, <2>1 DEF Current
<1>10. ToldSoFar'
  <2>1. Head(todo[t]).op \notin StreamSteps \cup {"send"}
    BY <1>1 DEF StreamSteps
  <2>2. QED
    BY <1>1, <1>2, <1>6, <1>7, <1>8, <1>9, <2>1, ToldAside
<1>11. Excused'
  BY <1>1, <1>2, ExcusedKept
<1>12. Domains'
  BY <1>1, <1>2 DEF Domains
<1>13. QED
  BY <1>3, <1>10, <1>11, <1>12 DEF SensorInv

\* The setters, and the other steps of a call with parameters.
LEMMA SetterKeepsSensor ==
  ASSUME StreamInv, SensorInv, NEW t \in Threads, Setter(t) \/ ParameterStep(t)
  PROVE  SensorInv'
<1>1. CASE Setter(t)
  BY <1>1, SameKeepsSensor, StoreKeepsSensor, CheckKeepsSensor, TellKeepsSensor,
     RefusedKeepsSensor, DisplaceKeepsSensor, SkippedKeepsSensor DEF Setter
<1>2. CASE ParameterStep(t)
  <2>1. /\ todo[t] # <<>> /\ Do(t, Tail(todo[t]))
        /\ Head(todo[t]).op \in {"refuse", "fps", "batch"}
    BY <1>2 DEF ParameterStep, Refuse, ShowFps, BatchReflection, At, Done
  <2>2. /\ UNCHANGED <<camera, m_flag_camera_start, streaming, m_params, sensor, untold>>
        /\ DOMAIN mParameters' = DOMAIN mParameters
    BY <1>2 DEF ParameterStep, Refuse, ShowFps, BatchReflection, streamVars, callVars,
       settingVars
  <2>3. faults' \in {faults, faults + 1}
    BY <1>2 DEF ParameterStep, Refuse, ShowFps, BatchReflection, Fault
  <2>4. Head(todo[t]).op \notin StreamSteps \cup {"send", "check", "tell"}
    BY <2>1 DEF StreamSteps
  <2>5. QED
    BY <2>1, <2>2, <2>3, <2>4, AsideKeepsSensor
<1>3. QED
  BY <1>1, <1>2
-----------------------------------------------------------------------------
(* The steps of a start keep what the sensor has been told. *)

\* A step after which the setters are as before, and this thread is not starting.
LEMMA ApartKeepsSensor ==
  ASSUME StreamInv, SensorInv, NEW t \in Threads, NEW q, Do(t, q), camera # None,
         IsSequence(q), OpsOf(q) \cap StreamSteps = {}, Quiet(q),
         camera' = camera, m_flag_camera_start' /\ streaming' => m_flag_camera_start /\ streaming,
         m_params' = m_params, sensor' = sensor, untold' = untold, mParameters' = mParameters,
         todo[t] = <<>> \/ Head(todo[t]).op \notin {"check", "tell"},
         \A e \in ElementsOf(q) : e \in ElementsOf(todo[t]) \/
           (e.op \in Setting => /\ e.op = "set" /\ e.key \in Settings
                                /\ DOMAIN e = {"op", "key", "value", "shown"}
                                /\ t = "preview" => /\ e.key = "flash" /\ e.value = "off"
                                                    /\ e.shown = None),
         faults' \in {faults, faults + 1}
  PROVE  SensorInv'
<1>1. Domains /\ Setters /\ ToldSoFar /\ Excused
  BY DEF SensorInv
<1>2. "started" \notin Marked(q)
  BY DEF Marked, StreamSteps
<1>3. Setters'
  <2>1. SetterNext(q)
    BY QuietNext
  <2>2. ASSUME NEW e \in ElementsOf(q), e.op \in Setting
        PROVE  /\ DOMAIN e = {"op", "key", "value", "shown"} /\ e.key \in Settings
               /\ e.op \notin {"check", "tell"}
               /\ t = "preview" => e.key = "flash" /\ e.value = "off" /\ e.shown = None
    <3>1. CASE e \in ElementsOf(todo[t])
      <4>1. SetterOf(t, e)
        BY <1>1, <3>1 DEF Setters
      <4>2. e.op \notin {"check", "tell"}
        BY DEF Quiet
      <4>3. QED
        BY <2>2, <4>1, <4>2 DEF SetterOf
    <3>2. CASE e \notin ElementsOf(todo[t])
      BY <2>2, <3>2
    <3>3. QED
      BY <3>1, <3>2
  <2>3. QED
    BY <1>1, <1>2, <2>1, <2>2, SettersMove
<1>4. ToldSoFar'
  <2>1. \A k : Current(k) => Current(k)'
    BY CurrentKept
  <2>2. QED
    BY <1>1, <2>1, ToldApart
<1>5. Excused'
  <2>1. faults = 0 => untold' \subseteq {"focus", "flash"}
    BY <1>1 DEF Excused
  <2>2. QED
    BY <1>1, <1>2, <2>1, ExcusedKept
<1>6. Domains'
  BY <1>1 DEF Domains
<1>7. QED
  BY <1>3, <1>4, <1>5, <1>6 DEF SensorInv

\* Nothing left.
LEMMA NothingQuiet == IsSequence(<<>>) /\ OpsOf(<<>>) = {} /\ Quiet(<<>>) /\ ElementsOf(<<>>) = {}
  BY EmptyFormed, ElementsFew DEF Quiet

\* What is seen of the next step of a start.
LEMMA StartHead ==
  ASSUME StreamInv, SensorInv, NEW t \in Threads, todo[t] # <<>>
  PROVE  LET h == Head(todo[t])
             q == Tail(todo[t])
         IN  /\ Marked(q) = Left(t) \ {h.op} /\ Marked(q) \subseteq OpsOf(q)
             /\ h.op \in Marks => h.op \in Left(t) /\ OpsOf(q) \subseteq Later(h.op)
             /\ SendsInOrder(camera, q) /\ camera # None
             /\ "begin" \in Left(t) => \A k \in Resent(camera) : Sent(todo[t], k)
             /\ "streamon" \in Left(t) =>
                  \A k \in Resent(camera) \cap NotKept(camera) : Sent(todo[t], k)
             /\ Going(Left(t)) => \A k \in Resent(camera) : Current(k) \/ Sent(todo[t], k)
             /\ \A k : Sent(todo[t], k) => Sent(q, k) \/ (h.op = "send" /\ k \in h.keys)
<1>1. /\ Domains /\ Setters /\ ToldSoFar /\ Excused
      /\ SendsInOrder(camera, Tail(todo[t])) /\ Left(t) = Marked(todo[t]) /\ camera # None
  BY SetterHead
<1>2. Sends(todo[t])
  BY <1>1 DEF ToldSoFar
<1>3. /\ "begin" \in Left(t) => \A k \in Resent(camera) : Sent(todo[t], k)
      /\ "streamon" \in Left(t) => \A k \in Resent(camera) \cap NotKept(camera) : Sent(todo[t], k)
      /\ Going(Left(t)) => \A k \in Resent(camera) : Current(k) \/ Sent(todo[t], k)
  BY <1>1, <1>2 DEF Sends
<1>4. /\ Marked(Tail(todo[t])) = Left(t) \ {Head(todo[t]).op}
      /\ Head(todo[t]).op \in Marks =>
           Head(todo[t]).op \in Left(t) /\ OpsOf(Tail(todo[t])) \subseteq Later(Head(todo[t]).op)
  BY HeadDone
<1>5. Marked(Tail(todo[t])) \subseteq OpsOf(Tail(todo[t]))
  BY DEF Marked
<1>6. \A k : Sent(todo[t], k) =>
        Sent(Tail(todo[t]), k) \/ (Head(todo[t]).op = "send" /\ k \in Head(todo[t]).keys)
  BY SentTail
<1>7. QED
  BY <1>1, <1>3, <1>4, <1>5, <1>6

\* Finding the flag up or down.
LEMMA BeginKeepsSensor ==
  ASSUME StreamInv, SensorInv, NEW t \in Threads, AlreadyStarted(t)
  PROVE  SensorInv'
<1> DEFINE h == Head(todo[t])
           q == Tail(todo[t])
<1>1. /\ todo[t] # <<>> /\ h.op = "begin"
      /\ camera' = camera /\ m_flag_camera_start' = m_flag_camera_start
      /\ streaming' = streaming /\ m_params' = m_params /\ sensor' = sensor
      /\ untold' = untold /\ mParameters' = mParameters /\ faults' = faults
      /\ IF m_flag_camera_start THEN Do(t, IF t = "service" THEN Wake ELSE <<>>) ELSE Do(t, q)
  BY DEF AlreadyStarted, At, Done, streamVars, callVars, settingVars
<1>2. Domains /\ Setters /\ ToldSoFar /\ Excused
  BY DEF SensorInv
<1>3. /\ Marked(q) = Left(t) \ {h.op} /\ "begin" \in Left(t)
      /\ SendsInOrder(camera, q) /\ camera # None
      /\ \A k \in Resent(camera) : Sent(todo[t], k)
      /\ \A k : Sent(todo[t], k) => Sent(q, k)
  BY <1>1, StartHead DEF Marks
<1>4. CASE m_flag_camera_start
  <2> DEFINE r == IF t = "service" THEN Wake ELSE <<>>
  <2>1. Do(t, r)
    BY <1>1, <1>4
  <2>2. IsSequence(r) /\ OpsOf(r) \subseteq {"wake"} /\ Quiet(r)
        /\ \A e \in ElementsOf(r) : e.op = "wake"
    <3> DEFINE o == [op |-> "wake"]
    <3>1. o.op = "wake" /\ Wake = <<o>> /\ "op" \in DOMAIN o
      BY DEF Wake
    <3> HIDE DEF o
    <3>2. IsSequence(<<o>>) /\ ElementsOf(<<o>>) = {o}
      BY ElementsFew
    <3>3. OpsOf(<<o>>) = {"wake"}
      BY <3>1, OneFormed
    <3>4. IsSequence(Wake) /\ OpsOf(Wake) = {"wake"} /\ ElementsOf(Wake) = {o}
      BY <3>1, <3>2, <3>3
    <3>5. QED
      BY <3>1, <3>4, NothingQuiet DEF Quiet
  <2> HIDE DEF r
  <2>3. OpsOf(r) \cap StreamSteps = {}
    BY <2>2 DEF StreamSteps
  <2>4. \A e \in ElementsOf(r) : e.op \notin Setting
    BY <2>2 DEF Setting
  <2>5. Head(todo[t]).op \notin {"check", "tell"} /\ faults' \in {faults, faults + 1}
    BY <1>1
  <2>6. QED
    BY <1>1, <1>3, <2>1, <2>2, <2>3, <2>4, <2>5, ApartKeepsSensor
<1>5. CASE ~m_flag_camera_start
  <2>1. Do(t, q)
    BY <1>1, <1>5
  <2>2. Setters'
    BY <1>1, <1>2, <2>1, SettersTail
  <2>3. Excused'
    BY <1>1, <1>2, <1>3, <2>1, ExcusedKept DEF Excused
  <2>4. Domains'
    BY <1>1, <1>2 DEF Domains
  <2>5. \A k : Current(k) => Current(k)'
    BY <1>1, <2>1, CurrentKept
  <2>6. \A k \in Resent(camera) : Sent(q, k)
    BY <1>3
  <2> HIDE DEF q
  <2>7. ToldSoFar'
    BY <1>1, <1>2, <1>3, <1>5, <2>1, <2>5, <2>6, ToldMoves
  <2>8. QED
    BY <2>2, <2>3, <2>4, <2>7 DEF SensorInv
<1>6. QED
  BY <1>4, <1>5

\* Sending a setting as the field has it.
LEMMA SendKeepsSensor ==
  ASSUME StreamInv, SensorInv, NEW t \in Threads, SendSettings(t)
  PROVE  SensorInv'
<1> DEFINE h == Head(todo[t])
           q == Tail(todo[t])
           told == {k \in h.keys : m_params[k] # None}
<1>1. /\ todo[t] # <<>> /\ h.op = "send" /\ Do(t, q)
      /\ camera' = camera /\ m_flag_camera_start' = m_flag_camera_start
      /\ streaming' = streaming /\ m_params' = m_params
      /\ mParameters' = mParameters /\ faults' = faults
      /\ sensor' = [k \in Settings |-> IF k \in told THEN m_params[k] ELSE sensor[k]]
      /\ untold' = untold \ told
  BY DEF SendSettings, At, Done, streamVars, callVars
<1>2. /\ Domains /\ Setters /\ ToldSoFar /\ Excused /\ IsSequence(todo[t])
      /\ SendsInOrder(camera, todo[t]) /\ Left(t) = Marked(todo[t])
  BY <1>1, SetterHead
<1>3. /\ Marked(q) = Left(t) \ {h.op}
      /\ SendsInOrder(camera, q) /\ camera # None
      /\ "streamon" \in Left(t) =>
           \A k \in Resent(camera) \cap NotKept(camera) : Sent(todo[t], k)
      /\ Going(Left(t)) => \A k \in Resent(camera) : Current(k) \/ Sent(todo[t], k)
      /\ \A k : Sent(todo[t], k) => Sent(q, k) \/ k \in h.keys
  BY <1>1, StartHead
<1>4. /\ "begin" \notin OpsOf(todo[t])
      /\ "streamon" \in OpsOf(todo[t]) => h.keys \cap NotKept(camera) = {}
  BY <1>1, <1>2, HeadInOrder
<1>5. "send" \notin Left(t)
  BY <1>2 DEF Marked, Marks
<1>6. Marked(q) = Left(t) /\ Left(t) \subseteq OpsOf(todo[t])
  BY <1>1, <1>2, <1>3, <1>5 DEF Marked
<1>7. /\ DOMAIN sensor' = Settings
      /\ \A k \in Settings : sensor'[k] = IF k \in told THEN m_params[k] ELSE sensor[k]
  BY <1>1
<1>8. ASSUME NEW k \in Resent(camera), Current(k) \/ k \in h.keys  PROVE Current(k)'
  <2>1. k \in Settings
    BY ResentKeys
  <2>2. CASE k \in told
    <3>1. sensor'[k] = m_params[k]
      BY <1>7, <2>1, <2>2
    <3>2. QED
      BY <1>1, <3>1 DEF Current
  <2>3. CASE k \notin told
    <3>1. Telling(k) => Telling(k)'
      BY <1>1, StillTelling
    <3>2. k \in untold => k \in untold'
      BY <1>1, <2>3
    <3>3. sensor'[k] = sensor[k]
      BY <1>7, <2>1, <2>3
    <3>4. k \in h.keys => m_params[k] = None
      BY <2>3
    <3>5. QED
      BY <1>1, <1>8, <3>1, <3>2, <3>3, <3>4 DEF Current
  <2>4. QED
    BY <2>2, <2>3
<1>9. Setters'
  BY <1>1, <1>2, SettersTail
<1> HIDE DEF told
<1>10. Excused'
  <2>1. faults = 0 => untold' \subseteq {"focus", "flash"}
    BY <1>1, <1>2 DEF Excused
  <2>2. QED
    BY <1>1, <1>2, <1>6, <2>1, ExcusedKept
<1>11. Domains'
  BY <1>1, <1>2, <1>7 DEF Domains
<1> HIDE DEF h, q
<1>12. ToldSoFar'
  <2>1. m_flag_camera_start' /\ streaming' => \A k \in Resent(camera) : Current(k)'
    BY <1>1, <1>2, <1>8 DEF ToldSoFar
  <2>2. \A u \in Threads \ {t} : Going(Left(u)) =>
          \A k \in Resent(camera) : Current(k) => Current(k)' \/ Sent(todo[u], k)
    BY <1>8
  <2>3. "begin" \in Marked(q) => \A k \in Resent(camera) : Sent(q, k)
    BY <1>4, <1>6
  <2>4. "streamon" \in Marked(q) => \A k \in Resent(camera) \cap NotKept(camera) : Sent(q, k)
    BY <1>3, <1>4, <1>6
  <2>5. Going(Marked(q)) => \A k \in Resent(camera) : Current(k)' \/ Sent(q, k)
    BY <1>3, <1>6, <1>8
  <2>6. QED
    BY <1>1, <1>2, <1>3, <2>1, <2>2, <2>3, <2>4, <2>5, ToldMoves
<1>13. QED
  BY <1>9, <1>10, <1>11, <1>12 DEF SensorInv
\* The sensor forgets what it cannot keep, all of which is still to be sent.
LEMMA OnKeepsSensor ==
  ASSUME StreamInv, SensorInv, NEW t \in Threads, StreamOn(t)
  PROVE  SensorInv'
<1> DEFINE h == Head(todo[t])
           q == Tail(todo[t])
<1>1. /\ todo[t] # <<>> /\ h.op = "streamon" /\ Do(t, q)
      /\ camera' = camera /\ m_flag_camera_start' = m_flag_camera_start
      /\ streaming' = TRUE /\ m_params' = m_params /\ untold' = untold
      /\ mParameters' = mParameters /\ faults' = faults
      /\ sensor' = [k \in Settings |-> IF k \in NotKept(camera) THEN None ELSE sensor[k]]
  BY DEF StreamOn, At, Done, callVars
<1>2. Domains /\ Setters /\ ToldSoFar /\ Excused
  BY DEF SensorInv
<1>3. /\ Marked(q) = Left(t) \ {h.op} /\ Marked(q) \subseteq OpsOf(q)
      /\ "streamon" \in Left(t) /\ OpsOf(q) \subseteq Later("streamon")
      /\ SendsInOrder(camera, q) /\ camera # None
      /\ \A k \in Resent(camera) \cap NotKept(camera) : Sent(todo[t], k)
      /\ Going(Left(t)) => \A k \in Resent(camera) : Current(k) \/ Sent(todo[t], k)
      /\ \A k : Sent(todo[t], k) => Sent(q, k)
  BY <1>1, StartHead DEF Marks
<1>4. /\ "started" \in Left(t) /\ "begin" \notin Left(t) /\ ~m_flag_camera_start
      /\ t = "service" => "wake" \in Left(t)
  <2>1. /\ Belongs(Left(t)) /\ Concerns(t, Left(t))
        /\ InTheMiddle(Left(t), m_flag_camera_start, streaming)
    BY <1>1, HeadDone
  <2>2. "started" \in Left(t)
    BY <1>3, <2>1 DEF Belongs
  <2>3. "begin" \notin Left(t)
    BY <1>1, <1>3 DEF Later
  <2>4. QED
    BY <2>1, <2>2, <2>3 DEF InTheMiddle, Concerns
<1>5. \A u \in Threads \ {t} : ~Going(Left(u))
  <2>1. \A u \in Threads \ {t} : InTheMiddle(Left(u), TRUE, TRUE)
    BY <1>1, <1>4, OthersIdle
  <2>2. QED
    BY <2>1 DEF InTheMiddle, Going
<1>6. /\ DOMAIN sensor' = Settings
      /\ \A k \in Settings : sensor'[k] = IF k \in NotKept(camera) THEN None ELSE sensor[k]
  BY <1>1
<1>7. ASSUME NEW k \in Resent(camera) \ NotKept(camera), Current(k)  PROVE Current(k)'
  <2>1. k \in Settings
    BY ResentKeys
  <2>2. Telling(k) => Telling(k)'
    BY <1>1, StillTelling
  <2>3. sensor'[k] = sensor[k]
    BY <1>6, <2>1
  <2>4. QED
    BY <1>1, <1>7, <2>2, <2>3 DEF Current
<1>8. Setters'
  BY <1>1, <1>2, SettersTail
<1>9. Excused'
  BY <1>1, <1>2, <1>3, ExcusedKept DEF Excused
<1>10. Domains'
  BY <1>1, <1>2, <1>6 DEF Domains
<1> HIDE DEF h, q
<1>11. ToldSoFar'
  <2>1. "begin" \notin Marked(q) /\ "streamon" \notin Marked(q)
    BY <1>1, <1>3, <1>4
  <2>2. Going(Left(t))
    BY <1>4 DEF Going
  <2>3. \A k \in Resent(camera) : Current(k)' \/ Sent(q, k)
    BY <1>3, <1>7, <2>2
  <2>4. ~(m_flag_camera_start' /\ streaming')
    BY <1>1, <1>4
  <2>5. QED
    BY <1>1, <1>2, <1>3, <1>5, <2>1, <2>3, <2>4, ToldMoves
<1>12. QED
  BY <1>8, <1>9, <1>10, <1>11 DEF SensorInv

\* The flag goes up when nothing is left to send.
LEMMA StartedKeepsSensor ==
  ASSUME StreamInv, SensorInv, NEW t \in Threads, SetStarted(t)
  PROVE  SensorInv'
<1> DEFINE h == Head(todo[t])
           q == Tail(todo[t])
<1>1. /\ todo[t] # <<>> /\ h.op = "started" /\ Do(t, q)
      /\ camera' = camera /\ m_flag_camera_start' = TRUE
      /\ streaming' = streaming /\ m_params' = m_params /\ untold' = untold
      /\ mParameters' = mParameters /\ faults' = faults /\ sensor' = sensor
  BY DEF SetStarted, At, Done, callVars, settingVars
<1>2. Domains /\ Setters /\ ToldSoFar /\ Excused
  BY DEF SensorInv
<1>3. /\ Marked(q) = Left(t) \ {h.op} /\ Marked(q) \subseteq OpsOf(q)
      /\ "started" \in Left(t) /\ OpsOf(q) \subseteq Later("started")
      /\ SendsInOrder(camera, q) /\ camera # None
      /\ Going(Left(t)) => \A k \in Resent(camera) : Current(k) \/ Sent(todo[t], k)
      /\ \A k : Sent(todo[t], k) => Sent(q, k)
  BY <1>1, StartHead DEF Marks
<1>4. OpsOf(q) \subseteq {"frame", "wake"}
  BY <1>3 DEF Later
<1>5. /\ Marked(q) \cap {"begin", "streamon", "started"} = {} /\ "send" \notin OpsOf(q)
      /\ "begin" \notin Left(t)
  BY <1>1, <1>3, <1>4
<1>6. \A k : ~Sent(q, k)
  <2>1. \A e \in ElementsOf(q) : e.op \in OpsOf(q)
    BY DEF ElementsOf, OpsOf
  <2>2. QED
    BY <1>5, <2>1 DEF Sent
<1>7. \A k : Current(k) => Current(k)'
  BY <1>1, CurrentKept
<1>8. Setters'
  BY <1>1, <1>2, SettersTail
<1>9. Excused'
  BY <1>1, <1>2, <1>3, ExcusedKept DEF Excused
<1>10. Domains'
  BY <1>1, <1>2 DEF Domains
<1> HIDE DEF h, q
<1>11. ToldSoFar'
  <2>1. "begin" \notin Marked(q) /\ "streamon" \notin Marked(q) /\ ~Going(Marked(q))
    BY <1>5 DEF Going
  <2>2. \A k \in Resent(camera) : Current(k)'
    BY <1>3, <1>5, <1>6, <1>7 DEF Going
  <2>3. QED
    BY <1>1, <1>2, <1>3, <1>7, <2>1, <2>2, ToldMoves
<1>12. QED
  BY <1>8, <1>9, <1>10, <1>11 DEF SensorInv

\* The steps of a start.
LEMMA StartKeepsSensor ==
  ASSUME StreamInv, SensorInv, NEW t \in Threads, StartStep(t)
  PROVE  SensorInv'
<1>1. CASE RequestBuffers(t) \/ FirstFrame(t) \/ WakePreview(t)
  <2>1. /\ todo[t] # <<>> /\ Do(t, Tail(todo[t]))
        /\ Head(todo[t]).op \in {"buffers", "frame", "wake"}
    BY <1>1 DEF RequestBuffers, FirstFrame, WakePreview, At, Done
  <2>2. /\ UNCHANGED <<camera, m_flag_camera_start, streaming, m_params, sensor, untold>>
        /\ DOMAIN mParameters' = DOMAIN mParameters /\ faults' \in {faults, faults + 1}
    BY <1>1 DEF RequestBuffers, FirstFrame, WakePreview, streamVars, callVars, settingVars
  <2>3. Head(todo[t]).op \notin StreamSteps \cup {"send", "check", "tell"}
    BY <2>1 DEF StreamSteps
  <2>4. QED
    BY <2>1, <2>2, <2>3, AsideKeepsSensor
<1>2. CASE BuffersRefused(t) \/ StartFails(t)
  <2>1. /\ todo[t] # <<>> /\ Do(t, <<>>)
        /\ Head(todo[t]).op \in {"buffers", "send", "streamon", "frame"}
    BY <1>2 DEF BuffersRefused, StartFails, At
  <2>2. /\ camera' = camera /\ m_flag_camera_start' = m_flag_camera_start
        /\ streaming' = streaming /\ m_params' = m_params /\ untold' = untold
        /\ mParameters' = mParameters /\ faults' \in {faults, faults + 1} /\ sensor' = sensor
    BY <1>2 DEF BuffersRefused, StartFails, Fault, streamVars, callVars, settingVars
  <2>3. camera # None
    BY <2>1, HeadDone
  <2> DEFINE q == <<>>
  <2>4. /\ IsSequence(q) /\ OpsOf(q) \cap StreamSteps = {} /\ Quiet(q) /\ ElementsOf(q) = {}
    BY NothingQuiet
  <2>5. Head(todo[t]).op \notin {"check", "tell"} /\ Do(t, q)
    BY <2>1
  <2> HIDE DEF q
  <2>6. QED
    BY <2>2, <2>3, <2>4, <2>5, ApartKeepsSensor
<1>3. QED
  BY <1>1, <1>2, BeginKeepsSensor, SendKeepsSensor, OnKeepsSensor, StartedKeepsSensor
  DEF StartStep

-----------------------------------------------------------------------------
(* The steps of a stop, and the preview thread's. *)

\* The stream ends, and the sensor forgets everything.
LEMMA OffKeepsSensor ==
  ASSUME StreamInv, SensorInv, NEW t \in Threads, StreamOff(t)
  PROVE  SensorInv'
<1> DEFINE h == Head(todo[t])
           q == Tail(todo[t])
<1>1. /\ todo[t] # <<>> /\ h.op = "streamoff" /\ Do(t, q)
      /\ camera' = camera /\ m_flag_camera_start' = m_flag_camera_start
      /\ streaming' = FALSE /\ m_params' = m_params /\ untold' = untold
      /\ mParameters' = mParameters /\ faults' = faults
      /\ sensor' = [k \in Settings |-> None]
  BY DEF StreamOff, At, Done, callVars
<1>2. Domains /\ Setters /\ ToldSoFar /\ Excused
  BY DEF SensorInv
<1>3. /\ Marked(q) = Left(t) \ {h.op} /\ Marked(q) \subseteq OpsOf(q)
      /\ "streamoff" \in Left(t) /\ OpsOf(q) \subseteq Later("streamoff")
      /\ SendsInOrder(camera, q) /\ camera # None
  BY <1>1, StartHead DEF Marks
<1>4. Marked(q) \cap {"begin", "streamon", "started"} = {}
  BY <1>3 DEF Later
<1>5. t = "preview"
  <2>1. Concerns(t, Left(t))
    BY <1>1, HeadDone
  <2>2. t = "service" => "streamoff" \notin Left(t)
    BY <2>1 DEF Concerns
  <2>3. QED
    BY <1>3, <2>2 DEF Threads
<1>6. \A u \in Threads \ {t} : ~Going(Left(u))
  <2>1. \A u \in Threads \ {t} : InTheMiddle(Left(u), TRUE, TRUE)
    BY <1>1, <1>5, OthersIdle
  <2>2. QED
    BY <2>1 DEF InTheMiddle, Going
<1>7. Setters'
  BY <1>1, <1>2, SettersTail
<1>8. Excused'
  BY <1>1, <1>2, <1>3, ExcusedKept DEF Excused
<1>9. Domains'
  BY <1>1, <1>2 DEF Domains
<1> HIDE DEF h, q
<1>10. ToldSoFar'
  <2>1. "begin" \notin Marked(q) /\ "streamon" \notin Marked(q) /\ ~Going(Marked(q))
    BY <1>4 DEF Going
  <2>2. QED
    BY <1>1, <1>2, <1>3, <1>6, <2>1, ToldMoves
<1>11. QED
  BY <1>7, <1>8, <1>9, <1>10 DEF SensorInv

\* The torch is put out, and the stream is to end.
LEMMA StopQuiet ==
  ASSUME NEW q, IsSequence(q), Quiet(q), OpsOf(q) \cap StreamSteps = {},
         NEW light, light = <<>> \/ light = Set("flash", "off", None)
  PROVE  LET s == <<[op |-> "streamoff"], [op |-> "stopped"]>>
             r == light \o s \o q
         IN  /\ IsSequence(r) /\ Quiet(r) /\ OpsOf(r) \cap StreamSteps = {}
             /\ \A e \in ElementsOf(r) : e \in ElementsOf(q) \/
                  (e.op \in Setting => /\ e.op = "set" /\ e.key = "flash" /\ e.value = "off"
                                       /\ e.shown = None
                                       /\ DOMAIN e = {"op", "key", "value", "shown"})
             /\ \A e \in ElementsOf(r) : e \in ElementsOf(q) \/ e.op # "fps"
<1> DEFINE a == [op |-> "streamoff"]
           b == [op |-> "stopped"]
           o == [op |-> "set", key |-> "flash", value |-> "off", shown |-> None]
           s == <<a, b>>
           r == light \o s \o q
<1>1. /\ a.op = "streamoff" /\ b.op = "stopped" /\ "op" \in DOMAIN a /\ "op" \in DOMAIN b
      /\ o.op = "set" /\ o.key = "flash" /\ o.value = "off" /\ o.shown = None
      /\ DOMAIN o = {"op", "key", "value", "shown"}
      /\ light = <<>> \/ light = <<o>>
  BY DEF Set
<1> HIDE DEF a, b, o
<1>2. s \in Seq({a, b}) /\ \A i \in DOMAIN s : s[i] \in {a, b}
  OBVIOUS
<1>3. IsSequence(light) /\ ElementsOf(light) \subseteq {o}
  BY <1>1, ElementsFew
<1> HIDE DEF s
<1>4. IsSequence(s) /\ ElementsOf(s) \subseteq {a, b}
  BY <1>2 DEF IsSequence, ElementsOf
<1>5. IsSequence(light \o s) /\ ElementsOf(light \o s) = ElementsOf(light) \cup ElementsOf(s)
  BY <1>3, <1>4, ElementsJoin
<1>6. IsSequence(r) /\ ElementsOf(r) = ElementsOf(light \o s) \cup ElementsOf(q)
  BY <1>5, ElementsJoin
<1>7. ElementsOf(r) \subseteq {o, a, b} \cup ElementsOf(q)
  BY <1>3, <1>4, <1>5, <1>6
<1> HIDE DEF r
<1>8. Quiet(r)
  BY <1>1, <1>7 DEF Quiet
<1>9. OpsOf(r) \cap StreamSteps = {}
  <2>1. \A p : OpsOf(p) = {e.op : e \in ElementsOf(p)}
    BY DEF ElementsOf, OpsOf
  <2>2. \A e \in ElementsOf(r) : e.op \in {"set", "streamoff", "stopped"} \cup OpsOf(q)
    BY <1>1, <1>7, <2>1
  <2>3. QED
    BY <2>1, <2>2 DEF StreamSteps
<1>10. \A e \in ElementsOf(r) : e \in ElementsOf(q) \/
         (e.op \in Setting => /\ e.op = "set" /\ e.key = "flash" /\ e.value = "off"
                              /\ e.shown = None
                              /\ DOMAIN e = {"op", "key", "value", "shown"})
  BY <1>1, <1>7 DEF Setting
<1>11. \A e \in ElementsOf(r) : e \in ElementsOf(q) \/ e.op # "fps"
  BY <1>1, <1>7
<1>12. QED
  BY <1>6, <1>8, <1>9, <1>10, <1>11 DEF r, s, a, b

\* The steps of a stop.
LEMMA StopKeepsSensor ==
  ASSUME StreamInv, SensorInv, NEW t \in Threads, StopStep(t)
  PROVE  SensorInv'
<1> DEFINE h == Head(todo[t])
           q == Tail(todo[t])
<1>1. /\ todo[t] # <<>> /\ h.op \in Stops /\ camera' = camera
      /\ m_params' = m_params /\ untold' = untold /\ mParameters' = mParameters
      /\ faults' \in {faults, faults + 1}
  BY DEF StopStep, BeginStop, StreamOff, StreamOffFails, SetStopped, At, Stops, callVars,
         settingVars, Fault
<1>2. /\ Marked(q) = Left(t) \ {h.op} /\ Marked(q) \subseteq OpsOf(q)
      /\ h.op \in Left(t) /\ OpsOf(q) \subseteq Later(h.op) /\ camera # None
  BY <1>1, StartHead DEF Marks, Stops
<1>3. t = "preview"
  <2>1. Concerns(t, Left(t))
    BY <1>1, HeadDone
  <2>2. t = "service" => Left(t) \cap Stops = {}
    BY <2>1 DEF Concerns, Stops
  <2>3. QED
    BY <1>1, <1>2, <2>2 DEF Threads
<1>4. /\ IsSequence(q) /\ Quiet(q) /\ SetterNext(todo[t]) /\ IsSequence(todo[t])
      /\ ElementsOf(q) \subseteq ElementsOf(todo[t]) /\ WellFormed(todo[t])
      /\ Domains /\ Setters /\ ToldSoFar /\ Excused
  <2>1. SetterNext(todo[t]) /\ IsSequence(todo[t]) /\ WellFormed(todo[t])
        /\ Domains /\ Setters /\ ToldSoFar /\ Excused
    BY <1>1, SetterHead
  <2>2. Quiet(q)
    BY <1>1, <2>1, TailNext DEF Stops
  <2>3. IsSequence(q) /\ ElementsOf(q) \subseteq ElementsOf(todo[t])
    BY <1>1, <2>1, ElementsTail
  <2>4. QED
    BY <2>1, <2>2, <2>3
<1>5. /\ OpsOf(q) \cap StreamSteps = {} /\ h.op \notin {"check", "tell"}
  BY <1>1, <1>2 DEF Later, Stops, StreamSteps
<1> HIDE DEF h, q
<1>6. CASE BeginStop(t)
  <2> DEFINE light == IF m_params.flash = "torch" THEN Set("flash", "off", None) ELSE <<>>
             s == <<[op |-> "streamoff"], [op |-> "stopped"]>>
             r == light \o s \o q
  <2>1. /\ m_flag_camera_start' = m_flag_camera_start /\ streaming' = streaming
        /\ sensor' = sensor
        /\ Do(t, (IF ~m_flag_camera_start THEN <<>> ELSE light \o s) \o q)
    BY <1>6 DEF BeginStop, streamVars, settingVars, q
  <2>2. CASE m_flag_camera_start
    <3>1. Do(t, r)
      BY <2>1, <2>2
    <3>2. light = <<>> \/ light = Set("flash", "off", None)
      OBVIOUS
    <3> HIDE DEF light
    <3>3. /\ IsSequence(r) /\ Quiet(r) /\ OpsOf(r) \cap StreamSteps = {}
          /\ \A e \in ElementsOf(r) : e \in ElementsOf(q) \/
               (e.op \in Setting => /\ e.op = "set" /\ e.key = "flash" /\ e.value = "off"
                                    /\ e.shown = None
                                    /\ DOMAIN e = {"op", "key", "value", "shown"})
      BY <1>4, <1>5, <3>2, StopQuiet
    <3> HIDE DEF r
    <3>4. "flash" \in Settings
      BY DEF Settings, Keys
    <3>5. \A e \in ElementsOf(r) : e \in ElementsOf(todo[t]) \/
            (e.op \in Setting => /\ e.op = "set" /\ e.key \in Settings
                                 /\ DOMAIN e = {"op", "key", "value", "shown"}
                                 /\ t = "preview" => /\ e.key = "flash" /\ e.value = "off"
                                                     /\ e.shown = None)
      BY <1>4, <3>3, <3>4
    <3>6. todo[t] = <<>> \/ Head(todo[t]).op \notin {"check", "tell"}
      BY <1>5 DEF h
    <3>7. m_flag_camera_start' /\ streaming' => m_flag_camera_start /\ streaming
      BY <2>1
    <3>8. QED
      BY <1>1, <1>2, <2>1, <3>1, <3>3, <3>5, <3>6, <3>7, ApartKeepsSensor
  <2>3. CASE ~m_flag_camera_start
    <3>1. Do(t, <<>> \o q)
      BY <2>1, <2>3
    <3> DEFINE w == <<>> \o q
    <3>2. IsSequence(w) /\ ElementsOf(w) = ElementsOf(q)
      BY <1>4, ElementsFew, ElementsJoin
    <3>3. Do(t, w)
      BY <3>1
    <3> HIDE DEF w
    <3>4. Quiet(w) /\ OpsOf(w) = OpsOf(q)
      <4>1. \A p : OpsOf(p) = {e.op : e \in ElementsOf(p)}
        BY DEF ElementsOf, OpsOf
      <4>2. QED
        BY <1>4, <3>2, <4>1 DEF Quiet
    <3>5. \A e \in ElementsOf(w) : e \in ElementsOf(todo[t])
      BY <1>4, <3>2
    <3>6. todo[t] = <<>> \/ Head(todo[t]).op \notin {"check", "tell"}
      BY <1>5 DEF h
    <3>7. m_flag_camera_start' /\ streaming' => m_flag_camera_start /\ streaming
      BY <2>1
    <3>8. OpsOf(w) \cap StreamSteps = {}
      BY <1>5, <3>4
    <3>9. QED
      BY <1>1, <1>2, <2>1, <3>2, <3>3, <3>4, <3>5, <3>6, <3>7, <3>8, ApartKeepsSensor
  <2>4. QED
    BY <2>2, <2>3
<1>7. CASE StreamOffFails(t)
  <2> DEFINE r == Tail(q)
  <2>1. /\ h.op = "streamoff" /\ Do(t, r) /\ sensor' = sensor
        /\ m_flag_camera_start' = m_flag_camera_start /\ streaming' = streaming
    BY <1>7 DEF StreamOffFails, At, streamVars, settingVars, h, q
  <2>2. q # <<>>
    BY <1>1, <1>4, <2>1, PairSkipped DEF h, q
  <2>3. IsSequence(r) /\ ElementsOf(r) \subseteq ElementsOf(q)
    BY <1>4, <2>2, ElementsTail
  <2> HIDE DEF r
  <2>4. Quiet(r) /\ OpsOf(r) \cap StreamSteps = {}
    <3>1. \A p : OpsOf(p) = {e.op : e \in ElementsOf(p)}
      BY DEF ElementsOf, OpsOf
    <3>2. QED
      BY <1>4, <1>5, <2>3, <3>1 DEF Quiet
  <2>5. \A e \in ElementsOf(r) : e \in ElementsOf(todo[t])
    BY <1>4, <2>3
  <2>6. todo[t] = <<>> \/ Head(todo[t]).op \notin {"check", "tell"}
    BY <1>5 DEF h
  <2>7. m_flag_camera_start' /\ streaming' => m_flag_camera_start /\ streaming
    BY <2>1
  <2>8. QED
    BY <1>1, <1>2, <2>1, <2>3, <2>4, <2>5, <2>6, <2>7, ApartKeepsSensor
<1>8. CASE SetStopped(t)
  <2>1. /\ Do(t, q) /\ sensor' = sensor /\ m_flag_camera_start' = FALSE
    BY <1>8 DEF SetStopped, Done, settingVars, q
  <2>2. \A e \in ElementsOf(q) : e \in ElementsOf(todo[t])
    BY <1>4
  <2>3. todo[t] = <<>> \/ Head(todo[t]).op \notin {"check", "tell"}
    BY <1>5 DEF h
  <2>4. m_flag_camera_start' /\ streaming' => m_flag_camera_start /\ streaming
    BY <2>1
  <2>5. QED
    BY <1>1, <1>2, <1>4, <1>5, <2>1, <2>2, <2>3, <2>4, ApartKeepsSensor
<1>9. QED
  BY <1>6, <1>7, <1>8, OffKeepsSensor DEF StopStep

\* A start in front, all of which is still to be sent.
LEMMA StartedAnew ==
  ASSUME StreamInv, SensorInv, NEW t \in Threads, camera # None,
         NEW q, q \in {Start(camera), Start(camera) \o Wake}, Do(t, q),
         todo[t] = <<>> \/ Head(todo[t]).op \notin {"check", "tell"},
         camera' = camera, m_flag_camera_start' = m_flag_camera_start, streaming' = streaming,
         m_params' = m_params, sensor' = sensor, untold' = untold, mParameters' = mParameters,
         \/ faults' = faults + 1
         \/ faults' = faults /\ t = "service"
  PROVE  SensorInv'
<1>1. Domains /\ Setters /\ ToldSoFar /\ Excused
  BY DEF SensorInv
<1>2. /\ SendsInOrder(camera, q) /\ \A k \in Resent(camera) : Sent(q, k)
      /\ OpsOf(q) \subseteq {"begin", "buffers", "send", "streamon", "started", "frame", "wake"}
  <2>1. /\ SendsInOrder(camera, Start(camera)) /\ \A k \in Resent(camera) : Sent(Start(camera), k)
        /\ SendsInOrder(camera, Start(camera) \o Wake)
        /\ \A k \in Resent(camera) : Sent(Start(camera) \o Wake, k)
        /\ OpsOf(Start(camera)) \subseteq
             {"begin", "buffers", "send", "streamon", "started", "frame"}
        /\ OpsOf(Start(camera) \o Wake) \subseteq
             {"begin", "buffers", "send", "streamon", "started", "frame", "wake"}
    BY StartSends
  <2>2. CASE q = Start(camera)
    BY <2>1, <2>2
  <2>3. CASE q = Start(camera) \o Wake
    BY <2>1, <2>3
  <2>4. QED
    BY <2>2, <2>3
<1>3. IsSequence(q) /\ "begin" \in Marked(q)
  BY StartFormed DEF WellFormed, StartMarks
<1>4. \A e \in ElementsOf(q) : e.op \notin Setting \cup {"displace"}
  <2>1. \A e \in ElementsOf(q) : e.op \in OpsOf(q)
    BY DEF ElementsOf, OpsOf
  <2>2. QED
    BY <1>2, <2>1 DEF Setting
<1>5. Setters'
  <2>1. Quiet(q)
    BY <1>4 DEF Quiet, Setting
  <2>2. SetterNext(q)
    BY <1>3, <2>1, QuietNext
  <2>3. QED
    BY <1>1, <1>4, <2>2, SettersMove
<1>6. ToldSoFar'
  <2>1. \A k : Current(k) => Current(k)'
    BY CurrentKept
  <2>2. m_flag_camera_start' /\ streaming' => \A k \in Resent(camera) : Current(k)'
    BY <1>1, <2>1 DEF ToldSoFar
  <2>3. QED
    BY <1>1, <1>2, <2>1, <2>2, ToldMoves
<1>7. Excused'
  <2>1. faults = 0 => untold' \subseteq {"focus", "flash"}
    BY <1>1 DEF Excused
  <2>2. QED
    BY <1>1, <2>1, ExcusedKept
<1>8. Domains'
  BY <1>1 DEF Domains
<1>9. QED
  BY <1>5, <1>6, <1>7, <1>8 DEF SensorInv

\* The preview thread's own steps.
LEMMA PreviewKeepsSensor ==
  ASSUME StreamInv, SensorInv, PreviewStep
  PROVE  SensorInv'
<1>1. "preview" \in Threads
  BY DEF Threads
<1>2. CASE InputFound \/ Park
  <2>1. /\ todo["preview"] # <<>> /\ Do("preview", Tail(todo["preview"]))
        /\ Head(todo["preview"]).op \in {"look", "park"}
    BY <1>2 DEF InputFound, Park, At, Done
  <2>2. /\ UNCHANGED <<camera, m_flag_camera_start, streaming, m_params, sensor, untold>>
        /\ DOMAIN mParameters' = DOMAIN mParameters /\ faults' \in {faults, faults + 1}
    BY <1>2 DEF InputFound, Park, streamVars, callVars, settingVars
  <2>3. Head(todo["preview"]).op \notin StreamSteps \cup {"send", "check", "tell"}
    BY <2>1 DEF StreamSteps
  <2>4. QED
    BY <1>1, <2>1, <2>2, <2>3, AsideKeepsSensor
<1>3. CASE NoData \/ PreviewStops
  <2> DEFINE a == [op |-> "stop"]
             b == [op |-> "look"]
             d == [op |-> "park"]
  <2>1. /\ todo["preview"] = <<>>
        /\ Do("preview", <<a, b>>) \/ Do("preview", <<a, d>>)
        /\ camera' = camera /\ m_flag_camera_start' = m_flag_camera_start
        /\ streaming' = streaming /\ m_params' = m_params /\ untold' = untold
        /\ mParameters' = mParameters /\ faults' = faults /\ sensor' = sensor /\ ~parked
    BY <1>3 DEF NoData, PreviewStops, streamVars, callVars, settingVars
  <2>2. a.op = "stop" /\ b.op = "look" /\ d.op = "park"
    OBVIOUS
  <2> HIDE DEF a, b, d
  <2>3. camera # None
    BY <2>1 DEF StreamInv, TakeTurns
  <2>4. ASSUME NEW x, x.op \in {"look", "park"}, Do("preview", <<a, x>>)  PROVE SensorInv'
    <3> DEFINE q == <<a, x>>
    <3>1. q \in Seq({a, x}) /\ \A i \in DOMAIN q : q[i] \in {a, x}
      OBVIOUS
    <3>2. Do("preview", q)
      BY <2>4
    <3> HIDE DEF q
    <3>3. IsSequence(q) /\ ElementsOf(q) \subseteq {a, x}
      BY <3>1 DEF IsSequence, ElementsOf
    <3>4. Quiet(q) /\ \A e \in ElementsOf(q) : e.op \notin Setting
      BY <2>2, <2>4, <3>3 DEF Quiet, Setting
    <3>5. OpsOf(q) \cap StreamSteps = {}
      <4>1. \A p : OpsOf(p) = {e.op : e \in ElementsOf(p)}
        BY DEF ElementsOf, OpsOf
      <4>2. OpsOf(q) \subseteq {"stop", "look", "park"}
        BY <2>2, <2>4, <3>3, <4>1
      <4>3. QED
        BY <4>2 DEF StreamSteps
    <3>6. QED
      BY <1>1, <2>1, <2>3, <3>2, <3>3, <3>4, <3>5, ApartKeepsSensor
  <2>5. QED
    BY <2>1, <2>2, <2>4
<1>4. CASE InputNotFound
  <2>1. /\ todo["preview"] # <<>> /\ Head(todo["preview"]).op = "look"
        /\ Do("preview", Start(camera))
        /\ camera' = camera /\ m_flag_camera_start' = m_flag_camera_start
        /\ streaming' = streaming /\ m_params' = m_params /\ untold' = untold
        /\ mParameters' = mParameters /\ faults' = faults + 1 /\ sensor' = sensor
    BY <1>4 DEF InputNotFound, At, Fault, streamVars, callVars, settingVars
  <2>2. camera # None
    BY <1>1, <2>1, HeadDone
  <2> DEFINE q == Start(camera)
  <2>3. q \in {Start(camera), Start(camera) \o Wake} /\ Do("preview", q)
    BY <2>1
  <2> HIDE DEF q
  <2>4. Head(todo["preview"]).op \notin {"check", "tell"}
    BY <2>1
  <2>5. QED
    BY <1>1, <2>1, <2>2, <2>3, <2>4, StartedAnew
<1>5. QED
  BY <1>2, <1>3, <1>4 DEF PreviewStep
-----------------------------------------------------------------------------
(* What setParameters makes of a set of parameters p. *)
Shown == (Keys \cap Settings) \ {"antiShake"}
FlashModes == {"off", "auto", "on", "torch"}
PartOf(p, e) ==
  /\ e.op \in {"set", "refuse", "fps", "batch"}
  /\ e.op = "fps" => p.scene # None /\ e.shown = FpsOf(p.scene)
  /\ e.op = "set" =>
       /\ DOMAIN e = {"op", "key", "value", "shown"}
       /\ \/ e.key \in {"antiShake", "blur"} /\ e.shown = None
          \/ /\ e.key \in Shown \ {"face", "flash"} /\ e.shown # None
             /\ e.shown = p[e.key] /\ e.value = Code(e.key, e.shown)
          \/ /\ e.key = "flash" /\ e.shown # None /\ p.scene # None
             /\ e.shown = FlashOf(p.scene, p.flash)
             /\ e.value = Code(e.key, e.shown) /\ e.shown \in FlashModes
Parted(p, q) == IsSequence(q) /\ \A e \in ElementsOf(q) : PartOf(p, e)
Sets(q, k, v) == \E e \in ElementsOf(q) : e.op = "set" /\ e.key = k /\ e.shown = v
Refuses(q) == \E e \in ElementsOf(q) : e.op = "refuse"

\* Parts that fit p, one after the other, fit p.
LEMMA PartedJoin ==
  ASSUME NEW p, NEW q, NEW r, Parted(p, q), Parted(p, r)
  PROVE  /\ Parted(p, q \o r)
         /\ ElementsOf(q) \subseteq ElementsOf(q \o r)
         /\ ElementsOf(r) \subseteq ElementsOf(q \o r)
<1>1. IsSequence(q) /\ IsSequence(r)
  BY DEF Parted
<1>2. IsSequence(q \o r) /\ ElementsOf(q \o r) = ElementsOf(q) \cup ElementsOf(r)
  BY <1>1, ElementsJoin
<1>3. QED
  BY <1>2 DEF Parted

\* The parts that are no setters fit every p.
LEMMA PartedFew ==
  ASSUME NEW p
  PROVE  /\ Parted(p, <<>>) /\ Parted(p, Refusal) /\ Refuses(Refusal)
         /\ Parted(p, <<[op |-> "batch"]>>)
         /\ p.scene # None => Parted(p, <<[op |-> "fps", shown |-> FpsOf(p.scene)]>>)
         /\ \A e \in ElementsOf(<<[op |-> "fps", shown |-> FpsOf(p.scene)]>>) : e.op = "fps"
         /\ \E e \in ElementsOf(<<[op |-> "fps", shown |-> FpsOf(p.scene)]>>) : e.op = "fps"
<1> DEFINE a == [op |-> "refuse"]
           b == [op |-> "batch"]
           d == [op |-> "fps", shown |-> FpsOf(p.scene)]
<1>1. a.op = "refuse" /\ b.op = "batch" /\ d.op = "fps" /\ d.shown = FpsOf(p.scene)
  OBVIOUS
<1>2. Refusal = <<a>>
  BY DEF Refusal
<1> HIDE DEF a, b, d
<1>3. PartOf(p, a) /\ PartOf(p, b) /\ (p.scene # None => PartOf(p, d))
  BY <1>1 DEF PartOf
<1>4. ASSUME NEW o  PROVE IsSequence(<<o>>) /\ ElementsOf(<<o>>) = {o}
  BY ElementsFew
<1>5. ASSUME NEW o, PartOf(p, o)  PROVE Parted(p, <<o>>)
  <2> DEFINE w == <<o>>
  <2>1. IsSequence(w) /\ ElementsOf(w) = {o}
    BY <1>4
  <2> HIDE DEF w
  <2>2. Parted(p, w)
    BY <1>5, <2>1 DEF Parted
  <2>3. QED
    BY <2>2 DEF w
<1>6. Parted(p, <<>>)
  BY ElementsFew DEF Parted
<1>7. Parted(p, <<a>>) /\ Parted(p, <<b>>) /\ (p.scene # None => Parted(p, <<d>>))
  BY <1>3, <1>5
<1>8. Refuses(<<a>>) /\ (\A e \in ElementsOf(<<d>>) : e.op = "fps")
      /\ \E e \in ElementsOf(<<d>>) : e.op = "fps"
  BY <1>1, <1>4 DEF Refuses
<1>9. QED
  BY <1>2, <1>6, <1>7, <1>8 DEF a, b, d

\* A setter called with what p has fits p.
LEMMA PartedSet ==
  ASSUME NEW p, NEW k, NEW code, NEW shown,
         \/ k \in {"antiShake", "blur"} /\ shown = None
         \/ /\ k \in Shown \ {"face", "flash"} /\ shown # None /\ shown = p[k]
            /\ code = Code(k, shown)
         \/ /\ k = "flash" /\ shown # None /\ p.scene # None
            /\ shown = FlashOf(p.scene, p.flash)
            /\ code = Code(k, shown) /\ shown \in FlashModes
  PROVE  Parted(p, Set(k, code, shown)) /\ Sets(Set(k, code, shown), k, shown)
<1> DEFINE o == [op |-> "set", key |-> k, value |-> code, shown |-> shown]
<1>1. /\ o.op = "set" /\ o.key = k /\ o.value = code /\ o.shown = shown
      /\ DOMAIN o = {"op", "key", "value", "shown"} /\ Set(k, code, shown) = <<o>>
  BY DEF Set
<1> HIDE DEF o
<1>2. PartOf(p, o)
  BY <1>1 DEF PartOf
<1>3. IsSequence(<<o>>) /\ ElementsOf(<<o>>) = {o}
  BY ElementsFew
<1>4. Parted(p, <<o>>) /\ Sets(<<o>>, k, shown)
  BY <1>1, <1>2, <1>3 DEF Parted, Sets
<1>5. QED
  BY <1>1, <1>4

\* A setter with a range: it is called, or the value is refused.
LEMMA PartedAsked ==
  ASSUME NEW p, NEW k \in Shown \ {"face", "flash"}, p[k] # None,
         NEW ok \in BOOLEAN, NEW q, q = IF ok THEN Asked(k, p[k]) ELSE Refusal
  PROVE  Parted(p, q) /\ (Sets(q, k, p[k]) \/ Refuses(q))
<1>1. Parted(p, Asked(k, p[k])) /\ Sets(Asked(k, p[k]), k, p[k])
  BY PartedSet DEF Asked
<1>2. QED
  BY <1>1, PartedFew

\* No number the code gives is None.
LEMMA Ranges ==
  /\ \A c : 0 .. MaxZoom(c) \subseteq -EV_DEFAULT .. MAX_ZOOM
  /\ -4 .. 4 \subseteq -EV_DEFAULT .. MAX_ZOOM /\ -2 .. 2 \subseteq -EV_DEFAULT .. MAX_ZOOM
  /\ (\A c : None \notin 0 .. MaxZoom(c)) /\ None \notin -4 .. 4 /\ None \notin -2 .. 2
<1>1. /\ \A c : 0 .. MaxZoom(c) \subseteq -EV_DEFAULT .. MAX_ZOOM
      /\ -4 .. 4 \subseteq -EV_DEFAULT .. MAX_ZOOM /\ -2 .. 2 \subseteq -EV_DEFAULT .. MAX_ZOOM
  BY DEF EV_DEFAULT, MAX_ZOOM, MaxZoom
<1>2. None \notin -EV_DEFAULT .. MAX_ZOOM
  BY ClientsAssumption
<1>3. QED
  BY <1>1, <1>2

\* The numbers, ...
LEMMA NumberParts ==
  ASSUME NEW c, NEW p
  PROVE  /\ Parted(p, ZoomPart(c, p)) /\ Parted(p, BrightnessPart(p)) /\ Parted(p, ContrastPart(p))
         /\ \/ Ignored(c, "zoom", p.zoom) \/ Refuses(ZoomPart(c, p))
            \/ Sets(ZoomPart(c, p), "zoom", p.zoom)
         /\ \/ Ignored(c, "brightness", p.brightness) \/ Refuses(BrightnessPart(p))
            \/ Sets(BrightnessPart(p), "brightness", p.brightness)
         /\ \/ Ignored(c, "contrast", p.contrast) \/ Refuses(ContrastPart(p))
            \/ Sets(ContrastPart(p), "contrast", p.contrast)
<1>1. /\ "zoom" \in Shown \ {"face", "flash"} /\ "brightness" \in Shown \ {"face", "flash"}
      /\ "contrast" \in Shown \ {"face", "flash"}
  BY DEF Shown, Keys, Settings
<1>2. /\ Parted(p, ZoomPart(c, p))
      /\ \/ Ignored(c, "zoom", p.zoom) \/ Refuses(ZoomPart(c, p)) \/ Sets(ZoomPart(c, p), "zoom", p.zoom)
  <2>1. CASE p.zoom \notin 0 .. MaxZoom(c)
    <3>1. ZoomPart(c, p) = <<>> /\ Ignored(c, "zoom", p.zoom)
      BY <2>1 DEF ZoomPart, Ignored
    <3>2. QED
      BY <3>1, PartedFew
  <2>2. CASE p.zoom \in 0 .. MaxZoom(c)
    <3> DEFINE ok == p.zoom \in 0 .. MAX_ZOOM
    <3>1. ZoomPart(c, p) = IF ok THEN Asked("zoom", p.zoom) ELSE Refusal
      BY <2>2 DEF ZoomPart, SetZoom
    <3>2. ok \in BOOLEAN /\ p.zoom # None
      BY <2>2, Ranges
    <3> HIDE DEF ok
    <3>3. QED
      BY <1>1, <3>1, <3>2, PartedAsked
  <2>3. QED
    BY <2>1, <2>2
<1>3. /\ Parted(p, BrightnessPart(p))
      /\ \/ Ignored(c, "brightness", p.brightness) \/ Refuses(BrightnessPart(p))
         \/ Sets(BrightnessPart(p), "brightness", p.brightness)
  <2>1. CASE p.brightness \notin -4 .. 4
    <3>1. BrightnessPart(p) = <<>> /\ Ignored(c, "brightness", p.brightness)
      BY <2>1 DEF BrightnessPart, Ignored
    <3>2. QED
      BY <3>1, PartedFew
  <2>2. CASE p.brightness \in -4 .. 4
    <3> DEFINE ok == Code("brightness", p.brightness) \in 0 .. 8
    <3>1. BrightnessPart(p) = IF ok THEN Asked("brightness", p.brightness) ELSE Refusal
      BY <2>2 DEF BrightnessPart, SetBrightness
    <3>2. ok \in BOOLEAN /\ p.brightness # None
      BY <2>2, Ranges
    <3> HIDE DEF ok
    <3>3. QED
      BY <1>1, <3>1, <3>2, PartedAsked
  <2>3. QED
    BY <2>1, <2>2
<1>4. /\ Parted(p, ContrastPart(p))
      /\ \/ Ignored(c, "contrast", p.contrast) \/ Refuses(ContrastPart(p))
         \/ Sets(ContrastPart(p), "contrast", p.contrast)
  <2>1. CASE p.contrast \notin -2 .. 2
    <3>1. ContrastPart(p) = <<>> /\ Ignored(c, "contrast", p.contrast)
      BY <2>1 DEF ContrastPart, Ignored
    <3>2. QED
      BY <3>1, PartedFew
  <2>2. CASE p.contrast \in -2 .. 2
    <3> DEFINE ok == p.contrast \in 0 .. 4
    <3>1. ContrastPart(p) = IF ok THEN Asked("contrast", p.contrast) ELSE Refusal
      BY <2>2 DEF ContrastPart, SetContrast
    <3>2. ok \in BOOLEAN /\ p.contrast # None
      BY <2>2, Ranges
    <3> HIDE DEF ok
    <3>3. QED
      BY <1>1, <3>1, <3>2, PartedAsked
  <2>3. QED
    BY <2>1, <2>2
<1>5. QED
  BY <1>2, <1>3, <1>4

\* ... and the names.
LEMMA NameParts ==
  ASSUME NEW p
  PROVE  /\ Parted(p, WhiteBalancePart(p)) /\ Parted(p, ISOPart(p)) /\ Parted(p, FocusPart(p))
         /\ Parted(p, EffectPart(p))
         /\ \/ p.whiteBalance = None \/ Refuses(WhiteBalancePart(p))
            \/ Sets(WhiteBalancePart(p), "whiteBalance", p.whiteBalance)
         /\ p.iso = None \/ Refuses(ISOPart(p)) \/ Sets(ISOPart(p), "iso", p.iso)
         /\ p.focus = None \/ Refuses(FocusPart(p)) \/ Sets(FocusPart(p), "focus", p.focus)
         /\ p.effect = None \/ Refuses(EffectPart(p)) \/ Sets(EffectPart(p), "effect", p.effect)
<1>1. /\ "whiteBalance" \in Shown \ {"face", "flash"} /\ "iso" \in Shown \ {"face", "flash"}
      /\ "focus" \in Shown \ {"face", "flash"} /\ "effect" \in Shown \ {"face", "flash"}
  BY DEF Shown, Keys, Settings
<1>2. /\ Parted(p, WhiteBalancePart(p))
      /\ \/ p.whiteBalance = None \/ Refuses(WhiteBalancePart(p))
         \/ Sets(WhiteBalancePart(p), "whiteBalance", p.whiteBalance)
  <2>1. CASE p.whiteBalance = None
    <3>1. WhiteBalancePart(p) = <<>>
      BY <2>1 DEF WhiteBalancePart
    <3>2. QED
      BY <2>1, <3>1, PartedFew
  <2>2. CASE p.whiteBalance # None
    <3> DEFINE ok == p.whiteBalance \in {"auto", "daylight", "cloudy-daylight", "fluorescent",
                           "incandescent"}
    <3>1. WhiteBalancePart(p) = IF ok THEN Asked("whiteBalance", p.whiteBalance) ELSE Refusal
      BY <2>2 DEF WhiteBalancePart, SetWhiteBalance
    <3>2. ok \in BOOLEAN
      OBVIOUS
    <3> HIDE DEF ok
    <3>3. QED
      BY <1>1, <2>2, <3>1, <3>2, PartedAsked
  <2>3. QED
    BY <2>1, <2>2
<1>3. /\ Parted(p, ISOPart(p))
      /\ p.iso = None \/ Refuses(ISOPart(p)) \/ Sets(ISOPart(p), "iso", p.iso)
  <2>1. CASE p.iso = None
    <3>1. ISOPart(p) = <<>>
      BY <2>1 DEF ISOPart
    <3>2. QED
      BY <2>1, <3>1, PartedFew
  <2>2. CASE p.iso # None
    <3> DEFINE ok == p.iso \in {"auto", "50", "100", "200", "400", "800", "1600", "sports", "night",
                           "movie"}
    <3>1. ISOPart(p) = IF ok THEN Asked("iso", p.iso) ELSE Refusal
      BY <2>2 DEF ISOPart, SetISO
    <3>2. ok \in BOOLEAN
      OBVIOUS
    <3> HIDE DEF ok
    <3>3. QED
      BY <1>1, <2>2, <3>1, <3>2, PartedAsked
  <2>3. QED
    BY <2>1, <2>2
<1>4. /\ Parted(p, FocusPart(p))
      /\ p.focus = None \/ Refuses(FocusPart(p)) \/ Sets(FocusPart(p), "focus", p.focus)
  <2>1. CASE p.focus = None
    <3>1. FocusPart(p) = <<>>
      BY <2>1 DEF FocusPart
    <3>2. QED
      BY <2>1, <3>1, PartedFew
  <2>2. CASE p.focus # None
    <3> DEFINE ok == p.focus \in {"auto", "macro", "infinity"}
    <3>1. FocusPart(p) = IF ok THEN Asked("focus", p.focus) ELSE Refusal
      BY <2>2 DEF FocusPart, SetFocusMode
    <3>2. ok \in BOOLEAN
      OBVIOUS
    <3> HIDE DEF ok
    <3>3. QED
      BY <1>1, <2>2, <3>1, <3>2, PartedAsked
  <2>3. QED
    BY <2>1, <2>2
<1>5. /\ Parted(p, EffectPart(p))
      /\ p.effect = None \/ Refuses(EffectPart(p)) \/ Sets(EffectPart(p), "effect", p.effect)
  <2>1. CASE p.effect = None
    <3>1. EffectPart(p) = <<>>
      BY <2>1 DEF EffectPart
    <3>2. QED
      BY <2>1, <3>1, PartedFew
  <2>2. CASE p.effect # None
    <3> DEFINE ok == p.effect \in {"none", "mono", "sepia", "antique", "sharpen", "aqua",
                              "negative"}
    <3>1. EffectPart(p) = IF ok THEN Asked("effect", p.effect) ELSE Refusal
      BY <2>2 DEF EffectPart, SetImageEffect
    <3>2. ok \in BOOLEAN
      OBVIOUS
    <3> HIDE DEF ok
    <3>3. QED
      BY <1>1, <2>2, <3>1, <3>2, PartedAsked
  <2>3. QED
    BY <2>1, <2>2
<1>6. QED
  BY <1>2, <1>3, <1>4, <1>5

\* The scene brings its frame rates and its flash with it.
SceneNames == {"auto", "portrait", "landscape", "sports", "party", "beach", "snow",
               "sunset", "night", "fireworks", "candlelight"}

\* Its parts fit p, and without a refusal they set scene, rates and flash.
LEMMA SceneParts ==
  ASSUME NEW p
  PROVE  /\ Parted(p, ScenePart(p))
         /\ p.scene # None /\ ~Refuses(ScenePart(p)) =>
              /\ Sets(ScenePart(p), "scene", p.scene) /\ p.scene \in SceneNames
              /\ \E e \in ElementsOf(ScenePart(p)) : e.op = "fps"
              /\ \/ FlashOf(p.scene, p.flash) = None
                 \/ Sets(ScenePart(p), "flash", FlashOf(p.scene, p.flash))
<1> DEFINE flash == FlashOf(p.scene, p.flash)
           A == <<[op |-> "fps", shown |-> FpsOf(p.scene)]>>
           B == IF flash = None THEN <<>> ELSE SetFlashMode(flash)
           C == SetSceneMode(p.scene)
<1>1. CASE p.scene = None
  <2>1. ScenePart(p) = <<>>
    BY <1>1 DEF ScenePart
  <2>2. QED
    BY <1>1, <2>1, PartedFew
<1>2. CASE p.scene # None
  <2>1. ScenePart(p) = A \o B \o C
    BY <1>2 DEF ScenePart
  <2>2. Parted(p, A) /\ \E e \in ElementsOf(A) : e.op = "fps"
    BY <1>2, PartedFew
  <2>3. Parted(p, B) /\ (flash = None \/ Refuses(B) \/ Sets(B, "flash", flash))
    <3>1. CASE flash = None
      BY <3>1, PartedFew
    <3>2. CASE flash # None /\ flash \in FlashModes
      <4>1. B = Set("flash", Code("flash", flash), flash)
        BY <3>2 DEF SetFlashMode, Asked, FlashModes
      <4> HIDE DEF B, flash
      <4>2. flash = FlashOf(p.scene, p.flash)
        BY DEF flash
      <4>3. QED
        BY <1>2, <3>2, <4>1, <4>2, PartedSet
    <3>3. CASE flash # None /\ flash \notin FlashModes
      <4>1. B = Refusal
        BY <3>3 DEF SetFlashMode, FlashModes
      <4>2. QED
        BY <4>1, PartedFew
    <3>4. QED
      BY <3>1, <3>2, <3>3
  <2>4. Parted(p, C) /\ (Refuses(C) \/ (Sets(C, "scene", p.scene) /\ p.scene \in SceneNames))
    <3> DEFINE ok == p.scene \in SceneNames
    <3>1. C = IF ok THEN Asked("scene", p.scene) ELSE Refusal
      BY DEF SetSceneMode, SceneNames
    <3>2. ok \in BOOLEAN /\ "scene" \in Shown \ {"face", "flash"}
      BY DEF Shown, Keys, Settings
    <3> HIDE DEF ok, C
    <3>3. Parted(p, C) /\ (Sets(C, "scene", p.scene) \/ Refuses(C))
      BY <1>2, <3>1, <3>2, PartedAsked
    <3>4. ok \/ Refuses(C)
      BY <3>1, PartedFew
    <3>5. QED
      BY <3>3, <3>4 DEF ok
  <2> HIDE DEF A, B, C, flash
  <2>5. Parted(p, A \o B) /\ ElementsOf(A) \subseteq ElementsOf(A \o B)
        /\ ElementsOf(B) \subseteq ElementsOf(A \o B)
    BY <2>2, <2>3, PartedJoin
  <2> DEFINE D == A \o B
  <2> HIDE DEF D
  <2>6. Parted(p, D \o C) /\ ElementsOf(D) \subseteq ElementsOf(D \o C)
        /\ ElementsOf(C) \subseteq ElementsOf(D \o C)
    BY <2>4, <2>5, PartedJoin DEF D
  <2> DEFINE E == D \o C
  <2>7. ScenePart(p) = E
    BY <2>1 DEF D
  <2> HIDE DEF E
  <2>8. /\ Parted(p, E) /\ ElementsOf(A) \subseteq ElementsOf(E)
        /\ ElementsOf(B) \subseteq ElementsOf(E) /\ ElementsOf(C) \subseteq ElementsOf(E)
    BY <2>5, <2>6 DEF D, E
  <2>9. flash = FlashOf(p.scene, p.flash)
    BY DEF flash
  <2>10. ~Refuses(E) => /\ Sets(E, "scene", p.scene) /\ p.scene \in SceneNames
                        /\ \E e \in ElementsOf(E) : e.op = "fps"
                        /\ flash = None \/ Sets(E, "flash", flash)
    BY <2>2, <2>3, <2>4, <2>8 DEF Refuses, Sets
  <2>11. QED
    BY <2>7, <2>8, <2>9, <2>10
<1>3. QED
  BY <1>1, <1>2

\* Both kept from mParameters, and what is never shown.
LEMMA OtherParts ==
  ASSUME NEW p, NEW c
  PROVE  Parted(p, FpsPart(p)) /\ Parted(p, AntiShakePart(p)) /\ Parted(p, BlurPart(c))
<1>1. \A code : Parted(p, Set("antiShake", code, None)) /\ Parted(p, Set("blur", code, None))
  BY PartedSet
<1>2. Parted(p, <<>>) /\ Parted(p, Refusal)
  BY PartedFew
<1>3. QED
  BY <1>1, <1>2 DEF FpsPart, AntiShakePart, BlurPart

\* setParameters does what its parts do, and nothing else.
LEMMA ParametersParted ==
  ASSUME NEW c, NEW p
  PROVE  LET q == Parameters(c, p) IN
         /\ Parted(p, q)
         /\ ElementsOf(ZoomPart(c, p)) \subseteq ElementsOf(q)
         /\ ElementsOf(BrightnessPart(p)) \subseteq ElementsOf(q)
         /\ ElementsOf(ContrastPart(p)) \subseteq ElementsOf(q)
         /\ ElementsOf(WhiteBalancePart(p)) \subseteq ElementsOf(q)
         /\ ElementsOf(ISOPart(p)) \subseteq ElementsOf(q)
         /\ ElementsOf(FocusPart(p)) \subseteq ElementsOf(q)
         /\ ElementsOf(ScenePart(p)) \subseteq ElementsOf(q)
         /\ ElementsOf(EffectPart(p)) \subseteq ElementsOf(q)
<1> DEFINE A1 == ZoomPart(c, p)
           A2 == BrightnessPart(p)
           A3 == ContrastPart(p)
           A4 == WhiteBalancePart(p)
           A5 == ISOPart(p)
           A6 == FpsPart(p)
           A7 == FocusPart(p)
           A8 == ScenePart(p)
           A9 == EffectPart(p)
           A10 == AntiShakePart(p)
           A11 == BlurPart(c)
           A12 == <<[op |-> "batch"]>>
<1>1. /\ Parted(p, A1) /\ Parted(p, A2) /\ Parted(p, A3) /\ Parted(p, A4) /\ Parted(p, A5)
      /\ Parted(p, A6) /\ Parted(p, A7) /\ Parted(p, A8) /\ Parted(p, A9) /\ Parted(p, A10)
      /\ Parted(p, A11) /\ Parted(p, A12)
  BY NumberParts, NameParts, SceneParts, OtherParts, PartedFew
<1>2. Parameters(c, p) = A1 \o A2 \o A3 \o A4 \o A5 \o A6 \o A7 \o A8 \o A9 \o A10 \o A11 \o A12
  BY DEF Parameters
<1> HIDE DEF A1, A2, A3, A4, A5, A6, A7, A8, A9, A10, A11, A12
<1> DEFINE B2 == A1 \o A2
<1>3. /\ Parted(p, B2)
      /\ ElementsOf(A1) \subseteq ElementsOf(B2)
      /\ ElementsOf(A2) \subseteq ElementsOf(B2)
  BY <1>1, PartedJoin
<1> HIDE DEF B2
<1> DEFINE B3 == B2 \o A3
<1>4. /\ Parted(p, B3)
      /\ ElementsOf(A1) \subseteq ElementsOf(B3)
      /\ ElementsOf(A2) \subseteq ElementsOf(B3)
      /\ ElementsOf(A3) \subseteq ElementsOf(B3)
  BY <1>1, <1>3, PartedJoin
<1> HIDE DEF B3
<1> DEFINE B4 == B3 \o A4
<1>5. /\ Parted(p, B4)
      /\ ElementsOf(A1) \subseteq ElementsOf(B4)
      /\ ElementsOf(A2) \subseteq ElementsOf(B4)
      /\ ElementsOf(A3) \subseteq ElementsOf(B4)
      /\ ElementsOf(A4) \subseteq ElementsOf(B4)
  BY <1>1, <1>4, PartedJoin
<1> HIDE DEF B4
<1> DEFINE B5 == B4 \o A5
<1>6. /\ Parted(p, B5)
      /\ ElementsOf(A1) \subseteq ElementsOf(B5)
      /\ ElementsOf(A2) \subseteq ElementsOf(B5)
      /\ ElementsOf(A3) \subseteq ElementsOf(B5)
      /\ ElementsOf(A4) \subseteq ElementsOf(B5)
      /\ ElementsOf(A5) \subseteq ElementsOf(B5)
  BY <1>1, <1>5, PartedJoin
<1> HIDE DEF B5
<1> DEFINE B6 == B5 \o A6
<1>7. /\ Parted(p, B6)
      /\ ElementsOf(A1) \subseteq ElementsOf(B6)
      /\ ElementsOf(A2) \subseteq ElementsOf(B6)
      /\ ElementsOf(A3) \subseteq ElementsOf(B6)
      /\ ElementsOf(A4) \subseteq ElementsOf(B6)
      /\ ElementsOf(A5) \subseteq ElementsOf(B6)
  BY <1>1, <1>6, PartedJoin
<1> HIDE DEF B6
<1> DEFINE B7 == B6 \o A7
<1>8. /\ Parted(p, B7)
      /\ ElementsOf(A1) \subseteq ElementsOf(B7)
      /\ ElementsOf(A2) \subseteq ElementsOf(B7)
      /\ ElementsOf(A3) \subseteq ElementsOf(B7)
      /\ ElementsOf(A4) \subseteq ElementsOf(B7)
      /\ ElementsOf(A5) \subseteq ElementsOf(B7)
      /\ ElementsOf(A7) \subseteq ElementsOf(B7)
  BY <1>1, <1>7, PartedJoin
<1> HIDE DEF B7
<1> DEFINE B8 == B7 \o A8
<1>9. /\ Parted(p, B8)
      /\ ElementsOf(A1) \subseteq ElementsOf(B8)
      /\ ElementsOf(A2) \subseteq ElementsOf(B8)
      /\ ElementsOf(A3) \subseteq ElementsOf(B8)
      /\ ElementsOf(A4) \subseteq ElementsOf(B8)
      /\ ElementsOf(A5) \subseteq ElementsOf(B8)
      /\ ElementsOf(A7) \subseteq ElementsOf(B8)
      /\ ElementsOf(A8) \subseteq ElementsOf(B8)
  BY <1>1, <1>8, PartedJoin
<1> HIDE DEF B8
<1> DEFINE B9 == B8 \o A9
<1>10. /\ Parted(p, B9)
      /\ ElementsOf(A1) \subseteq ElementsOf(B9)
      /\ ElementsOf(A2) \subseteq ElementsOf(B9)
      /\ ElementsOf(A3) \subseteq ElementsOf(B9)
      /\ ElementsOf(A4) \subseteq ElementsOf(B9)
      /\ ElementsOf(A5) \subseteq ElementsOf(B9)
      /\ ElementsOf(A7) \subseteq ElementsOf(B9)
      /\ ElementsOf(A8) \subseteq ElementsOf(B9)
      /\ ElementsOf(A9) \subseteq ElementsOf(B9)
  BY <1>1, <1>9, PartedJoin
<1> HIDE DEF B9
<1> DEFINE B10 == B9 \o A10
<1>11. /\ Parted(p, B10)
      /\ ElementsOf(A1) \subseteq ElementsOf(B10)
      /\ ElementsOf(A2) \subseteq ElementsOf(B10)
      /\ ElementsOf(A3) \subseteq ElementsOf(B10)
      /\ ElementsOf(A4) \subseteq ElementsOf(B10)
      /\ ElementsOf(A5) \subseteq ElementsOf(B10)
      /\ ElementsOf(A7) \subseteq ElementsOf(B10)
      /\ ElementsOf(A8) \subseteq ElementsOf(B10)
      /\ ElementsOf(A9) \subseteq ElementsOf(B10)
  BY <1>1, <1>10, PartedJoin
<1> HIDE DEF B10
<1> DEFINE B11 == B10 \o A11
<1>12. /\ Parted(p, B11)
      /\ ElementsOf(A1) \subseteq ElementsOf(B11)
      /\ ElementsOf(A2) \subseteq ElementsOf(B11)
      /\ ElementsOf(A3) \subseteq ElementsOf(B11)
      /\ ElementsOf(A4) \subseteq ElementsOf(B11)
      /\ ElementsOf(A5) \subseteq ElementsOf(B11)
      /\ ElementsOf(A7) \subseteq ElementsOf(B11)
      /\ ElementsOf(A8) \subseteq ElementsOf(B11)
      /\ ElementsOf(A9) \subseteq ElementsOf(B11)
  BY <1>1, <1>11, PartedJoin
<1> HIDE DEF B11
<1> DEFINE B12 == B11 \o A12
<1>13. /\ Parted(p, B12)
      /\ ElementsOf(A1) \subseteq ElementsOf(B12)
      /\ ElementsOf(A2) \subseteq ElementsOf(B12)
      /\ ElementsOf(A3) \subseteq ElementsOf(B12)
      /\ ElementsOf(A4) \subseteq ElementsOf(B12)
      /\ ElementsOf(A5) \subseteq ElementsOf(B12)
      /\ ElementsOf(A7) \subseteq ElementsOf(B12)
      /\ ElementsOf(A8) \subseteq ElementsOf(B12)
      /\ ElementsOf(A9) \subseteq ElementsOf(B12)
  BY <1>1, <1>12, PartedJoin
<1> HIDE DEF B12
<1>14. Parameters(c, p) = B12
  BY <1>2 DEF B2, B3, B4, B5, B6, B7, B8, B9, B10, B11, B12
<1>15. QED
  BY <1>13, <1>14 DEF A1, A2, A3, A4, A5, A7, A8, A9

\* Accepted parameters set every value asked for that is not passed over.
LEMMA AcceptedSets ==
  ASSUME NEW c, NEW p, NEW q, q = Parameters(c, p), ~Refuses(q)
  PROVE  /\ \A k \in Shown \ {"face", "flash"} :
              p[k] = None \/ Ignored(c, k, p[k]) \/ Sets(q, k, p[k])
         /\ p.scene # None =>
              /\ p.scene \in SceneNames /\ \E e \in ElementsOf(q) : e.op = "fps"
              /\ \/ FlashOf(p.scene, p.flash) = None
                 \/ Sets(q, "flash", FlashOf(p.scene, p.flash))
<1>1. \A r, k, v : ElementsOf(r) \subseteq ElementsOf(q) =>
        ~Refuses(r) /\ (Sets(r, k, v) => Sets(q, k, v))
  BY DEF Refuses, Sets
<1>2. /\ ElementsOf(ZoomPart(c, p)) \subseteq ElementsOf(q)
      /\ ElementsOf(BrightnessPart(p)) \subseteq ElementsOf(q)
      /\ ElementsOf(ContrastPart(p)) \subseteq ElementsOf(q)
      /\ ElementsOf(WhiteBalancePart(p)) \subseteq ElementsOf(q)
      /\ ElementsOf(ISOPart(p)) \subseteq ElementsOf(q)
      /\ ElementsOf(FocusPart(p)) \subseteq ElementsOf(q)
      /\ ElementsOf(ScenePart(p)) \subseteq ElementsOf(q)
      /\ ElementsOf(EffectPart(p)) \subseteq ElementsOf(q)
  BY ParametersParted
<1>3. /\ Ignored(c, "zoom", p.zoom) \/ Sets(q, "zoom", p.zoom)
      /\ Ignored(c, "brightness", p.brightness) \/ Sets(q, "brightness", p.brightness)
      /\ Ignored(c, "contrast", p.contrast) \/ Sets(q, "contrast", p.contrast)
  BY <1>1, <1>2, NumberParts
<1>4. /\ p.whiteBalance = None \/ Sets(q, "whiteBalance", p.whiteBalance)
      /\ p.iso = None \/ Sets(q, "iso", p.iso)
      /\ p.focus = None \/ Sets(q, "focus", p.focus)
      /\ p.effect = None \/ Sets(q, "effect", p.effect)
  BY <1>1, <1>2, NameParts
<1>5. p.scene # None =>
        /\ Sets(ScenePart(p), "scene", p.scene) /\ p.scene \in SceneNames
        /\ \E e \in ElementsOf(ScenePart(p)) : e.op = "fps"
        /\ \/ FlashOf(p.scene, p.flash) = None
           \/ Sets(ScenePart(p), "flash", FlashOf(p.scene, p.flash))
  BY <1>1, <1>2, SceneParts
<1>6. p.scene # None =>
        /\ Sets(q, "scene", p.scene) /\ p.scene \in SceneNames
        /\ \E e \in ElementsOf(q) : e.op = "fps"
        /\ \/ FlashOf(p.scene, p.flash) = None
           \/ Sets(q, "flash", FlashOf(p.scene, p.flash))
  BY <1>1, <1>2, <1>5
<1>7. ASSUME NEW k \in Shown \ {"face", "flash"}
      PROVE  k \in {"zoom", "brightness", "contrast", "whiteBalance", "iso", "focus", "effect",
                    "scene"}
  BY DEF Shown, Keys, Settings
<1>8. QED
  BY <1>3, <1>4, <1>6, <1>7

\* The defaults that the initialisation sets past mParameters.
LEMMA InitialSets ==
  ASSUME NEW c
  PROVE  /\ IsSequence(Initial(c))
         /\ \A e \in ElementsOf(Initial(c)) :
              /\ e.op = "set" /\ DOMAIN e = {"op", "key", "value", "shown"} /\ e.shown = None
              /\ e.key \in Settings
              /\ e.key \in Shown => \/ e.key = "iso" /\ e.value = "auto"
                                    \/ e.key = "contrast" /\ e.value = CONTRAST_DEFAULT
<1> DEFINE Good(e) == /\ e.op = "set" /\ DOMAIN e = {"op", "key", "value", "shown"}
                      /\ e.shown = None /\ e.key \in Settings
                      /\ e.key \in Shown => \/ e.key = "iso" /\ e.value = "auto"
                                            \/ e.key = "contrast" /\ e.value = CONTRAST_DEFAULT
           Fit(q) == IsSequence(q) /\ \A e \in ElementsOf(q) : Good(e)
<1>1. ASSUME NEW k \in Settings, NEW v,
             k \in Shown => \/ k = "iso" /\ v = "auto"
                            \/ k = "contrast" /\ v = CONTRAST_DEFAULT
      PROVE  Fit(Set(k, v, None))
  <2> DEFINE o == [op |-> "set", key |-> k, value |-> v, shown |-> None]
  <2>1. /\ o.op = "set" /\ o.key = k /\ o.value = v /\ o.shown = None
        /\ DOMAIN o = {"op", "key", "value", "shown"} /\ Set(k, v, None) = <<o>>
    BY DEF Set
  <2> HIDE DEF o
  <2>2. Good(o)
    <3>1. o.key \in Shown => \/ o.key = "iso" /\ o.value = "auto"
                             \/ o.key = "contrast" /\ o.value = CONTRAST_DEFAULT
      BY <1>1, <2>1
    <3>2. QED
      BY <1>1, <2>1, <3>1
  <2> HIDE DEF Good
  <2>3. IsSequence(<<o>>) /\ ElementsOf(<<o>>) = {o}
    BY ElementsFew
  <2>4. Fit(<<o>>)
    BY <2>2, <2>3
  <2>5. QED
    BY <2>1, <2>4
<1>2. /\ Fit(Set("iso", "auto", None)) /\ Fit(Set("contrast", CONTRAST_DEFAULT, None))
      /\ Fit(Set("metering", "center", None)) /\ Fit(Set("sharpness", 2, None))
      /\ Fit(Set("saturation", 2, None))
  <2>1. /\ "iso" \in Settings /\ "contrast" \in Settings /\ "metering" \in Settings
        /\ "sharpness" \in Settings /\ "saturation" \in Settings
    BY DEF Settings, Keys
  <2>2. "metering" \notin Shown /\ "sharpness" \notin Shown /\ "saturation" \notin Shown
    BY DEF Shown, Keys
  <2> HIDE DEF Fit
  <2>3. Fit(Set("iso", "auto", None))
    BY <1>1, <2>1
  <2>4. Fit(Set("contrast", CONTRAST_DEFAULT, None))
    BY <1>1, <2>1
  <2>5. Fit(Set("metering", "center", None))
    BY <1>1, <2>1, <2>2
  <2>6. Fit(Set("sharpness", 2, None))
    BY <1>1, <2>1, <2>2
  <2>7. Fit(Set("saturation", 2, None))
    BY <1>1, <2>1, <2>2
  <2>8. QED
    BY <2>3, <2>4, <2>5, <2>6, <2>7
<1> HIDE DEF Good
<1>3. ASSUME NEW q, NEW r, Fit(q), Fit(r)  PROVE Fit(q \o r)
  BY <1>3, ElementsJoin
<1> HIDE DEF Fit
<1>4. Fit(Initial(c))
  BY <1>2, <1>3 DEF Initial
<1>5. QED
  BY <1>4 DEF Fit, Good
-----------------------------------------------------------------------------
(* The service's calls keep what the sensor has been told. *)

\* Calls that begin with the service at rest and change no setting.
TellsNothing(q) ==
  /\ IsSequence(q)
  /\ \A e \in ElementsOf(q) :
       /\ e.op \in {"set", "refuse", "fps", "batch", "halt"}
       /\ e.op = "set" => e.key \in Settings /\ DOMAIN e = {"op", "key", "value", "shown"}

\* Parameters, the defaults set at the end of the initialisation, and a command.
LEMMA CallsTellNothing ==
  /\ \A c, p : TellsNothing(Parameters(c, p)) /\ TellsNothing(Initial(c))
  /\ \A v : TellsNothing(Set("face", v, v)) /\ TellsNothing(<<>>)
  /\ TellsNothing(<<[op |-> "halt"]>>)
<1>1. ASSUME NEW c, NEW p  PROVE TellsNothing(Parameters(c, p))
  <2> DEFINE q == Parameters(c, p)
  <2>1. Parted(p, q)
    BY ParametersParted
  <2> HIDE DEF q
  <2>2. Shown \cup {"antiShake", "blur", "flash"} \subseteq Settings
    BY DEF Shown, Settings, Keys
  <2>3. ASSUME NEW e \in ElementsOf(q)
        PROVE  /\ e.op \in {"set", "refuse", "fps", "batch", "halt"}
               /\ e.op = "set" => e.key \in Settings /\ DOMAIN e = {"op", "key", "value", "shown"}
    BY <2>1, <2>2 DEF Parted, PartOf
  <2>4. TellsNothing(q)
    BY <2>1, <2>3 DEF TellsNothing, Parted
  <2>5. QED
    BY <2>4 DEF q
<1>2. ASSUME NEW c  PROVE TellsNothing(Initial(c))
  BY InitialSets DEF TellsNothing
<1>3. ASSUME NEW v  PROVE TellsNothing(Set("face", v, v))
  <2> DEFINE o == [op |-> "set", key |-> "face", value |-> v, shown |-> v]
  <2>1. /\ o.op = "set" /\ o.key = "face" /\ DOMAIN o = {"op", "key", "value", "shown"}
        /\ Set("face", v, v) = <<o>>
    BY DEF Set
  <2> HIDE DEF o
  <2>2. IsSequence(<<o>>) /\ ElementsOf(<<o>>) = {o}
    BY ElementsFew
  <2>3. "face" \in Settings
    BY DEF Settings, Keys
  <2>4. TellsNothing(<<o>>)
    BY <2>1, <2>2, <2>3 DEF TellsNothing
  <2>5. QED
    BY <2>1, <2>4
<1>4. TellsNothing(<<>>)
  BY ElementsFew DEF TellsNothing
<1>5. TellsNothing(<<[op |-> "halt"]>>)
  <2> DEFINE o == [op |-> "halt"]
  <2>1. o.op = "halt"
    OBVIOUS
  <2> HIDE DEF o
  <2>2. IsSequence(<<o>>) /\ ElementsOf(<<o>>) = {o}
    BY ElementsFew
  <2>3. TellsNothing(<<o>>)
    BY <2>1, <2>2 DEF TellsNothing
  <2>4. QED
    BY <2>3 DEF o
<1>6. QED
  BY <1>1, <1>2, <1>3, <1>4, <1>5

\* One after the other they change no setting either.
LEMMA TellsNothingJoin ==
  ASSUME NEW p, NEW q, TellsNothing(p), TellsNothing(q)
  PROVE  TellsNothing(p \o q)
<1>1. IsSequence(p) /\ IsSequence(q)
  BY DEF TellsNothing
<1>2. IsSequence(p \o q) /\ ElementsOf(p \o q) = ElementsOf(p) \cup ElementsOf(q)
  BY <1>1, ElementsJoin
<1>3. QED
  BY <1>2 DEF TellsNothing

\* What such a sequence is in the terms of the invariant.
LEMMA TellsNothingIs ==
  ASSUME NEW q, TellsNothing(q)
  PROVE  /\ IsSequence(q) /\ Quiet(q) /\ "send" \notin OpsOf(q)
         /\ OpsOf(q) \cap StreamSteps = {}
         /\ \A e \in ElementsOf(q) : e.op \in Setting =>
              /\ e.op = "set" /\ e.key \in Settings
              /\ DOMAIN e = {"op", "key", "value", "shown"}
<1>1. OpsOf(q) \subseteq {"set", "refuse", "fps", "batch", "halt"}
  <2>1. \A p : OpsOf(p) = {e.op : e \in ElementsOf(p)}
    BY DEF ElementsOf, OpsOf
  <2>2. QED
    BY <2>1 DEF TellsNothing
<1>2. Quiet(q)
  BY DEF TellsNothing, Quiet
<1>3. QED
  BY <1>1, <1>2 DEF TellsNothing, StreamSteps, Setting

\* A call that is over at once.
LEMMA UnmovedKeepsSensor ==
  ASSUME SensorInv, todo' = todo, camera' = camera, streaming' = streaming,
         m_flag_camera_start' = m_flag_camera_start, m_params' = m_params, sensor' = sensor,
         untold' = untold, mParameters' = mParameters, faults' = faults
  PROVE  SensorInv'
<1>1. Domains'
  BY DEF SensorInv, Domains
<1>2. Setters'
  <2>1. ASSUME NEW t \in Threads, NEW e \in ElementsOf(todo[t])  PROVE SetterOf(t, e)'
    <3>1. SetterOf(t, e)
      BY DEF SensorInv, Setters
    <3>2. QED
      BY <3>1 DEF SetterOf, Stored, Left
  <2>2. QED
    BY <2>1 DEF SensorInv, Setters
<1>3. \A k : Current(k)' <=> Current(k)
  BY DEF Current, Telling
<1>4. ToldSoFar'
  <2>1. ASSUME NEW t \in Threads  PROVE Sends(todo[t])'
    <3>1. Sends(todo[t])
      BY DEF SensorInv, ToldSoFar
    <3>2. QED
      BY <1>3, <3>1 DEF Sends
  <2>2. QED
    BY <1>3, <2>1 DEF SensorInv, ToldSoFar
<1>5. Excused'
  BY DEF SensorInv, Excused, Left
<1>6. QED
  BY <1>1, <1>2, <1>4, <1>5 DEF SensorInv

\* The service's calls.
LEMMA ServiceKeepsSensor ==
  ASSUME StreamInv, SensorInv, ServiceStep, client \in Clients
  PROVE  SensorInv'
<1> DEFINE t == "service"
<1>1. /\ "service" \in Threads /\ "preview" \in Threads
      /\ Domains /\ Setters /\ ToldSoFar /\ Excused
  BY DEF Threads, SensorInv
<1>2. ASSUME NEW q, todo["service"] = <<>>, TellsNothing(q), Do("service", q),
             camera # None, camera' = camera, m_flag_camera_start' = m_flag_camera_start,
             streaming' = streaming, m_params' = m_params, sensor' = sensor, untold' = untold,
             mParameters' = mParameters, faults' = faults
      PROVE  SensorInv'
  <2>1. /\ IsSequence(q) /\ Quiet(q) /\ OpsOf(q) \cap StreamSteps = {}
        /\ \A e \in ElementsOf(q) : e.op \in Setting =>
             /\ e.op = "set" /\ e.key \in Settings
             /\ DOMAIN e = {"op", "key", "value", "shown"}
    BY <1>2, TellsNothingIs
  <2>2. QED
    BY <1>1, <1>2, <2>1, ApartKeepsSensor
<1>3. CASE \E c \in client.cameras : Open(c)
  <2>1. PICK c \in client.cameras : Open(c)
    BY <1>3
  <2> DEFINE q == Parameters(c, Defaults(c)) \o Initial(c)
  <2>2. /\ todo["service"] = <<>> /\ camera = None /\ camera' = c /\ Do("service", q)
        /\ m_params' = m_params /\ sensor' = sensor /\ untold' = untold /\ faults' = faults
        /\ streaming' = streaming /\ mParameters' = Defaults(c)
    BY <2>1 DEF Open, Calling, Free, streamVars
  <2>3. TellsNothing(q)
    BY CallsTellNothing, TellsNothingJoin
  <2> HIDE DEF q
  <2>4. /\ IsSequence(q) /\ Quiet(q) /\ OpsOf(q) \cap StreamSteps = {} /\ "send" \notin OpsOf(q)
        /\ \A e \in ElementsOf(q) : e.op \in Setting =>
             /\ e.op = "set" /\ e.key \in Settings
             /\ DOMAIN e = {"op", "key", "value", "shown"}
    BY <2>3, TellsNothingIs
  <2>5. c # None
    BY ClientsAssumption
  <2>6. todo["preview"] = <<>> /\ ~streaming
    BY <1>1, <2>2 DEF ToldSoFar, StreamInv, TakeTurns
  <2>7. Domains'
    BY <1>1, <2>2 DEF Domains, Defaults
  <2>8. Marked(q) \cap StreamSteps = {}
    BY <2>4 DEF Marked
  <2>9. Setters'
    <3>1. SetterNext(q)
      BY <2>4, QuietNext
    <3>2. "started" \notin Marked(q)
      BY <2>8 DEF StreamSteps
    <3>3. QED
      BY <1>1, <2>2, <2>4, <3>1, <3>2, SettersMove
  <2>10. Excused'
    BY <1>1, <2>2, ExcusedKept DEF Excused
  <2>11. ToldSoFar'
    <3>1. /\ todo'["service"] = q /\ todo'["preview"] = <<>>
      BY <1>1, <2>2, <2>6, Sequences DEF Do
    <3>2. "send" \notin OpsOf(<<>>) /\ Marked(<<>>) \cap StreamSteps = {}
      BY EmptyFormed
    <3>3. ASSUME NEW u \in Threads  PROVE Sends(todo[u])'
      <4>1. "send" \notin OpsOf(todo'[u]) /\ Marked(todo'[u]) \cap StreamSteps = {}
        BY <2>4, <2>8, <3>1, <3>2 DEF Threads
      <4>2. SendsInOrder(c, todo'[u])
        BY <4>1, FewInOrder
      <4>3. /\ "begin" \notin Marked(todo'[u]) /\ "streamon" \notin Marked(todo'[u])
            /\ ~Going(Marked(todo'[u]))
        BY <4>1 DEF StreamSteps, Going
      <4>4. QED
        BY <2>2, <4>2, <4>3 DEF Sends
    <3>4. QED
      BY <2>2, <2>5, <2>6, <3>3 DEF ToldSoFar
  <2>12. QED
    BY <2>7, <2>9, <2>10, <2>11 DEF SensorInv
<1>4. CASE \E r \in client.changes : SetParameters(r)
  <2>1. PICK r \in client.changes : SetParameters(r)
    BY <1>4
  <2> DEFINE p == [k \in Keys |-> IF k \in DOMAIN r THEN r[k] ELSE mParameters[k]]
             q == Parameters(camera, p)
  <2>2. /\ todo["service"] = <<>> /\ camera # None /\ camera' = camera /\ Do("service", q)
        /\ m_flag_camera_start' = m_flag_camera_start /\ streaming' = streaming
        /\ m_params' = m_params /\ sensor' = sensor /\ untold' = untold
        /\ mParameters' = mParameters /\ faults' = faults
    BY <2>1 DEF SetParameters, Opened, Calling, Free, settingVars, streamVars
  <2>3. TellsNothing(q)
    BY CallsTellNothing
  <2> HIDE DEF q
  <2>4. QED
    BY <1>2, <2>2, <2>3
<1>5. CASE \E r \in client.changes : SendCommand(r)
  <2>1. PICK r \in client.changes : SendCommand(r)
    BY <1>5
  <2> DEFINE q == IF mParameters.face = r.face THEN <<>> ELSE Set("face", r.face, r.face)
  <2>2. /\ todo["service"] = <<>> /\ camera # None /\ camera' = camera
        /\ (Do("service", q) \/ todo' = todo)
        /\ m_flag_camera_start' = m_flag_camera_start /\ streaming' = streaming
        /\ m_params' = m_params /\ sensor' = sensor /\ untold' = untold
        /\ mParameters' = mParameters /\ faults' = faults
    BY <2>1 DEF SendCommand, Opened, Calling, Free, settingVars, streamVars
  <2>3. TellsNothing(q)
    BY CallsTellNothing
  <2> HIDE DEF q
  <2>4. QED
    BY <1>1, <1>2, <2>2, <2>3, UnmovedKeepsSensor
<1>6. CASE StartPreview
  <2> DEFINE q == Start(camera) \o Wake
  <2>1. /\ todo["service"] = <<>> /\ camera # None /\ camera' = camera
        /\ IF mPreviewRunning THEN todo' = todo ELSE Do("service", q)
        /\ m_flag_camera_start' = m_flag_camera_start /\ streaming' = streaming
        /\ m_params' = m_params /\ sensor' = sensor /\ untold' = untold
        /\ mParameters' = mParameters /\ faults' = faults
    BY <1>6 DEF StartPreview, Opened, Calling, Free, settingVars, streamVars
  <2>2. CASE mPreviewRunning
    BY <1>1, <2>1, <2>2, UnmovedKeepsSensor
  <2>3. CASE ~mPreviewRunning
    <3>1. Do("service", q) /\ q \in {Start(camera), Start(camera) \o Wake}
      BY <2>1, <2>3
    <3> HIDE DEF q
    <3>2. QED
      BY <1>1, <2>1, <3>1, StartedAnew
  <2>4. QED
    BY <2>2, <2>3
<1>7. CASE StopPreview
  <2> DEFINE p == IF mParameters.face = "on" THEN Set("face", "off", "off") ELSE <<>>
             s == <<[op |-> "halt"]>>
  <2>1. /\ todo["service"] = <<>> /\ camera # None /\ camera' = camera
        /\ (Do("service", <<>>) \/ Do("service", p \o s))
        /\ m_flag_camera_start' = m_flag_camera_start /\ streaming' = streaming
        /\ m_params' = m_params /\ sensor' = sensor /\ untold' = untold
        /\ mParameters' = mParameters /\ faults' = faults
    BY <1>7 DEF StopPreview, Opened, Calling, Free, settingVars, streamVars
  <2>2. TellsNothing(p) /\ TellsNothing(s) /\ TellsNothing(<<>>)
    BY CallsTellNothing
  <2> HIDE DEF p, s
  <2> DEFINE q == p \o s
             z == <<>>
  <2>3. TellsNothing(q) /\ TellsNothing(z) /\ (Do("service", z) \/ Do("service", q))
    BY <2>1, <2>2, TellsNothingJoin
  <2> HIDE DEF q, z
  <2>4. QED
    BY <1>2, <2>1, <2>3
<1>8. CASE Halt
  <2>1. /\ todo["service"] # <<>> /\ Head(todo["service"]).op = "halt"
        /\ Do("service", Tail(todo["service"]))
        /\ UNCHANGED <<camera, m_flag_camera_start, streaming, m_params, sensor, untold>>
        /\ DOMAIN mParameters' = DOMAIN mParameters /\ faults' \in {faults, faults + 1}
    BY <1>8 DEF Halt, At, Done, callVars, settingVars, streamVars
  <2>2. "halt" \notin StreamSteps \cup {"send", "check", "tell"}
    BY DEF StreamSteps
  <2>3. QED
    BY <1>1, <2>1, <2>2, AsideKeepsSensor
<1>9. CASE Release
  <2>1. /\ camera' = camera /\ todo' = todo
        /\ m_flag_camera_start' = m_flag_camera_start /\ streaming' = streaming
        /\ m_params' = m_params /\ sensor' = sensor /\ untold' = untold
        /\ mParameters' = mParameters /\ faults' = faults
    BY <1>9 DEF Release, settingVars, streamVars
  <2>2. QED
    BY <2>1, UnmovedKeepsSensor
<1>10. CASE Close
  <2>1. /\ todo["service"] = <<>> /\ ~Waiting /\ mExitPreviewThread /\ todo' = todo
        /\ camera' = None /\ streaming' = FALSE /\ sensor' = [k \in Settings |-> None]
        /\ m_params' = m_params /\ untold' = untold
        /\ mParameters' = mParameters /\ faults' = faults
    BY <1>10 DEF Close, Free
  <2>2. \A u \in Threads : todo[u] = <<>> /\ todo'[u] = <<>>
    BY <2>1 DEF Waiting, Threads, StreamInv, TakeTurns
  <2>3. Domains'
    BY <1>1, <2>1 DEF Domains
  <2>4. Setters'
    <3>1. SetterNext(<<>>) /\ ElementsOf(<<>>) = {}
      BY ElementsFew DEF SetterNext
    <3>2. QED
      BY <2>2, <3>1 DEF Setters
  <2>5. ToldSoFar'
    <3>1. Sends(<<>>)'
      <4>1. "send" \notin OpsOf(<<>>) /\ Marked(<<>>) = {}
        BY EmptyFormed
      <4>2. SendsInOrder(camera', <<>>)
        BY <4>1, FewInOrder
      <4>3. QED
        BY <4>1, <4>2 DEF Sends, Going
    <3>2. QED
      BY <2>1, <2>2, <3>1 DEF ToldSoFar
  <2>6. Excused'
    BY <1>1, <2>1 DEF Excused, Left
  <2>7. QED
    BY <2>3, <2>4, <2>5, <2>6 DEF SensorInv
<1>11. QED
  BY <1>3, <1>4, <1>5, <1>6, <1>7, <1>8, <1>9, <1>10 DEF ServiceStep

-----------------------------------------------------------------------------
(* SensorTold, for every set of clients. *)
LEMMA SensorInvInit == Init => SensorInv
<1> SUFFICES ASSUME Init  PROVE SensorInv
  OBVIOUS
<1>1. /\ \A t \in Threads : todo[t] = <<>>
      /\ m_flag_camera_start = FALSE /\ streaming = FALSE /\ faults = 0 /\ untold = {}
      /\ DOMAIN mParameters = Keys /\ DOMAIN m_params = Settings /\ DOMAIN sensor = Settings
  BY DEF Init, Threads
<1>2. /\ SetterNext(<<>>) /\ ElementsOf(<<>>) = {} /\ "send" \notin OpsOf(<<>>)
      /\ Marked(<<>>) = {}
  BY EmptyFormed, ElementsFew DEF SetterNext
<1>3. Domains /\ Setters
  BY <1>1, <1>2 DEF Domains, Setters
<1>4. ToldSoFar
  <2>1. SendsInOrder(camera, <<>>)
    BY <1>2, FewInOrder
  <2>2. Sends(<<>>)
    BY <1>2, <2>1 DEF Sends, Going
  <2>3. QED
    BY <1>1, <2>2 DEF ToldSoFar
<1>5. Excused
  <2>1. "preview" \in Threads
    BY DEF Threads
  <2>2. "started" \notin Left("preview")
    BY <1>1, <1>2, <2>1 DEF Left
  <2>3. QED
    BY <1>1, <2>2 DEF Excused
<1>6. QED
  BY <1>3, <1>4, <1>5 DEF SensorInv

\* Every step keeps the invariant.
LEMMA SensorInvStep ==
  StreamInv /\ SensorInv /\ client \in Clients /\ [Next]_vars => SensorInv'
<1> SUFFICES ASSUME StreamInv, SensorInv, client \in Clients, [Next]_vars
             PROVE  SensorInv'
  OBVIOUS
<1>1. ASSUME NEW t \in Threads, Setter(t) \/ ParameterStep(t) \/ StartStep(t) \/ StopStep(t)
      PROVE  SensorInv'
  BY <1>1, SetterKeepsSensor, StartKeepsSensor, StopKeepsSensor
<1>2. PreviewStep \/ ServiceStep => SensorInv'
  BY PreviewKeepsSensor, ServiceKeepsSensor
<1>3. UNCHANGED vars => SensorInv'
  BY UnmovedKeepsSensor DEF vars, settingVars, streamVars, callVars
<1>4. QED
  BY <1>1, <1>2, <1>3 DEF Next

\* In every reachable state the setters under way have kept what they are to
\* tell, and a start still has to send whatever the sensor does not have.
THEOREM SensorInvariant == Spec => [](StreamInv /\ SensorInv)
<1>1. Init => StreamInv /\ SensorInv /\ client \in Clients
  BY StreamInvInit, SensorInvInit DEF Init
<1>2. StreamInv /\ SensorInv /\ client \in Clients /\ [Next]_vars
        => (StreamInv /\ SensorInv /\ client \in Clients)'
  BY StreamInvStep, SensorInvStep
<1>3. QED
  BY <1>1, <1>2, PTL DEF Spec

\* At rest, no setter is under way, and the invariant is SensorTold.
LEMMA RestTold == SensorInv => SensorTold
<1> SUFFICES ASSUME SensorInv, Rest
             PROVE  /\ m_flag_camera_start /\ streaming =>
                         \A k \in Resent(camera) \ untold :
                           m_params[k] # None => sensor[k] = m_params[k]
                    /\ faults = 0 => untold \subseteq {"focus", "flash"}
  BY DEF SensorTold
<1>1. \A k : ~Telling(k)
  BY DEF Rest, Telling
<1>2. QED
  BY <1>1 DEF SensorInv, ToldSoFar, Excused, Current

\* SensorTold in every reachable state: while the preview runs and no setter is
\* under way, the sensor has every setting a start sends as the fields have it,
\* with the exceptions that SensorTold names.
THEOREM SensorAlwaysTold == Spec => []SensorTold
  BY SensorInvariant, RestTold, PTL
-----------------------------------------------------------------------------
(* What the client reads, and what it has asked for. *)

\* The service is either in a call that sets parameters or in a start.
OfCall == {"set", "check", "tell", "displace", "refuse", "fps", "batch", "halt"}
OfStart == {"begin", "buffers", "send", "streamon", "started", "frame", "wake"}
Unmixed(q) ==
  (\A e \in ElementsOf(q) : e.op \in OfCall) \/ (\A e \in ElementsOf(q) : e.op \in OfStart)

\* A setter shows what it sets, but for the defaults set past mParameters.
Meant(e) ==
  IF e.shown = None
  THEN e.key \in Shown => /\ call = "open"
                          /\ \/ e.key = "iso" /\ e.value = "auto"
                             \/ e.key = "contrast" /\ e.value = CONTRAST_DEFAULT
  ELSE /\ e.key \in Shown /\ e.value = Code(e.key, e.shown)
       /\ e.key = "flash" => e.shown \in FlashModes
       /\ call = "open" => e.shown = Defaults(camera)[e.key]
CallInv == /\ Unmixed(todo["service"])
           /\ \A e \in ElementsOf(todo["service"]) : e.op \in Setting => Meant(e)

\* Parameters that the client reads are as SecCamera has them, or are being set.
Due(q, k) == \E e \in ElementsOf(q) : e.op \in Setting /\ e.key = k
Agrees(k) ==
  \/ mParameters[k] = None
  \/ m_params[k] = Code(k, mParameters[k])
  \/ k = "contrast" /\ mParameters[k] = 0 /\ m_params[k] = CONTRAST_DEFAULT
  \/ k = "iso" /\ mParameters[k] = "100" /\ m_params[k] = "auto"
  \/ k = "flash" /\ m_params[k] = "off"
  \/ k = "face" /\ mParameters[k] = "off"
FlashLeft(q, k) == k = "flash" /\ mParameters["scene"] = None /\ ~Due(q, "scene")
Reported ==
  /\ mParameters["flash"] \in FlashModes \cup {None}
  /\ call = "open" => \A e \in ElementsOf(todo["service"]) : e.op # "fps"
  /\ call = "open" /\ camera # None =>
       \A k \in Keys : mParameters[k] = Defaults(camera)[k]
  /\ camera # None => \A k \in Shown \ unreported :
       Agrees(k) \/ Due(todo["service"], k) \/ FlashLeft(todo["service"], k)

\* What was asked for is shown or about to be, as long as nothing is refused.
DoneOrDue(q, k, v) ==
  /\ v # None
  /\ \/ mParameters[k] = v
     \/ \E e \in ElementsOf(q) : e.op \in Setting /\ e.key = k /\ e.shown = v
  /\ \A e \in ElementsOf(q) :
       e.op \in Setting /\ e.key = k /\ e.shown # None => e.shown = v
InScene(q, s) ==
  /\ DoneOrDue(q, "scene", s)
  /\ mParameters["fps"] = FpsOf(s) \/ \E e \in ElementsOf(q) : e.op = "fps"
  /\ \A e \in ElementsOf(q) : e.op = "fps" => e.shown = FpsOf(s)
  /\ s # "auto" => DoneOrDue(q, "flash", FlashOf(s, None))
  /\ s = "auto" /\ "flash" \in DOMAIN asked => DoneOrDue(q, "flash", asked["flash"])
Wanted == DOMAIN asked \ {"fps", "flash", "antiShake"}
AcceptedBy(q) ==
  /\ DOMAIN asked \subseteq Keys
  /\ \A k \in Wanted : Ignored(camera, k, asked[k]) \/ DoneOrDue(q, k, asked[k])
  /\ \/ mParameters["scene"] = None /\ ~Due(q, "scene")
     \/ \E s \in SceneNames : InScene(q, s)
Accepted ==
  camera # None /\ call = "setParameters" /\ ret = "ok" /\ ~Refuses(todo["service"])
    => AcceptedBy(todo["service"])

\* Only the service shows frame rates.
NoRates == \A e \in ElementsOf(todo["preview"]) : e.op # "fps"

\* The setters of p are among those of q, whatever step they are at.
Carried(e, q) == \E f \in ElementsOf(q) : /\ f.op \in Setting /\ f.key = e.key
                                          /\ f.value = e.value /\ f.shown = e.shown
Carries(p, q) == \A e \in ElementsOf(p) : e.op \in Setting => Carried(e, q)

\* Steps of the service or of the preview thread that show nothing.
LEMMA GoesOn ==
  ASSUME NEW q, todo'["service"] = q,
         mParameters' = mParameters, camera' = camera, call' = call, asked' = asked,
         unreported \subseteq unreported', Unmixed(q), Carries(q, todo["service"]),
         \A e \in ElementsOf(todo["service"]) : e.op \in Setting =>
           Carried(e, q) \/ (e.key \in unreported' /\ ret' = "error"),
         \A e : e.op = "fps" => (e \in ElementsOf(q) <=> e \in ElementsOf(todo["service"])),
         ret' = "error" \/ (ret' = ret /\ (Refuses(todo["service"]) => Refuses(q))),
         \A k \in Shown : \/ m_params'[k] = m_params[k]
                          \/ k = "flash" /\ m_params'[k] = "off"
                          \/ Due(q, k)
  PROVE  /\ CallInv => CallInv'
         /\ Reported => Reported'
         /\ Accepted => Accepted'
<1> DEFINE p == todo["service"]
<1>1. ASSUME CallInv  PROVE CallInv'
  <2>1. ASSUME NEW e \in ElementsOf(q), e.op \in Setting  PROVE Meant(e)'
    <3>1. Carried(e, p)
      BY <2>1 DEF Carries
    <3>2. PICK f \in ElementsOf(p) : /\ f.op \in Setting /\ f.key = e.key
                                     /\ f.value = e.value /\ f.shown = e.shown
      BY <3>1 DEF Carried
    <3>3. Meant(f)
      BY <1>1, <3>2 DEF CallInv
    <3>4. QED
      BY <3>2, <3>3 DEF Meant
  <2>2. QED
    BY <2>1 DEF CallInv
<1>2. ASSUME Reported  PROVE Reported'
  <2>1. \A k : Due(p, k) => Due(q, k) \/ k \in unreported'
    BY DEF Due, Carried
  <2>2. \A k : Due(q, k) => Due(p, k)
    BY DEF Due, Carries, Carried
  <2>3. ASSUME camera # None, NEW k \in Shown \ unreported'
        PROVE  Agrees(k)' \/ Due(q, k) \/ FlashLeft(q, k)'
    <3>1. Agrees(k) \/ Due(p, k) \/ FlashLeft(p, k)
      BY <1>2, <2>3 DEF Reported
    <3>2. CASE Agrees(k)
      BY <2>3, <3>2 DEF Agrees
    <3>3. CASE Due(p, k)
      BY <2>1, <2>3, <3>3
    <3>4. CASE FlashLeft(p, k)
      BY <2>2, <3>4 DEF FlashLeft
    <3>5. QED
      BY <3>1, <3>2, <3>3, <3>4
  <2>4. call = "open" => \A e \in ElementsOf(q) : e.op # "fps"
    BY <1>2 DEF Reported
  <2> HIDE DEF p
  <2>5. camera' # None => \A k \in (Shown \ unreported)' :
          Agrees(k)' \/ Due(q, k) \/ FlashLeft(q, k)'
    BY <2>3
  <2>6. \A k : (FlashLeft(todo["service"], k)' <=> FlashLeft(q, k)')
    BY DEF FlashLeft
  <2>7. QED
    BY <1>2, <2>4, <2>5, <2>6 DEF Reported
<1>3. ASSUME Accepted  PROVE Accepted'
  <2>1. SUFFICES ASSUME camera # None, call = "setParameters", ret' = "ok", ~Refuses(q)
                 PROVE  AcceptedBy(q)'
    BY DEF Accepted, AcceptedBy, DoneOrDue, InScene
  <2>2. AcceptedBy(p)
    BY <1>3, <2>1 DEF Accepted
  <2>3. \A e \in ElementsOf(p) : e.op \in Setting => Carried(e, q)
    BY <2>1
  <2>4. ASSUME NEW k, NEW v, DoneOrDue(p, k, v)  PROVE DoneOrDue(q, k, v)'
    BY <2>3, <2>4 DEF DoneOrDue, Carries, Carried
  <2>5. Due(q, "scene") => Due(p, "scene")
    BY DEF Due, Carries, Carried
  <2>6. \A k \in Wanted' : Ignored(camera, k, asked[k]) \/ DoneOrDue(q, k, asked[k])'
    BY <2>2, <2>4 DEF AcceptedBy, Wanted
  <2>7. ASSUME NEW s \in SceneNames, InScene(p, s)  PROVE InScene(q, s)'
    <3>1. DoneOrDue(q, "scene", s)'
      BY <2>4, <2>7 DEF InScene
    <3>2. /\ s # "auto" => DoneOrDue(q, "flash", FlashOf(s, None))'
          /\ s = "auto" /\ "flash" \in DOMAIN asked => DoneOrDue(q, "flash", asked["flash"])'
      BY <2>4, <2>7 DEF InScene
    <3>3. /\ mParameters["fps"] = FpsOf(s) \/ \E e \in ElementsOf(q) : e.op = "fps"
          /\ \A e \in ElementsOf(q) : e.op = "fps" => e.shown = FpsOf(s)
      BY <2>7 DEF InScene
    <3>4. QED
      BY <3>1, <3>2, <3>3 DEF InScene
  <2>8. QED
    BY <2>2, <2>5, <2>6, <2>7 DEF AcceptedBy
<1>4. QED
  BY <1>1, <1>2, <1>3

\* A setter that is through shows its value.
LEMMA Finishes ==
  ASSUME StreamInv, Domains, CallInv, NEW q, todo["service"] # <<>>,
         q = Tail(todo["service"]), todo'["service"] = q,
         NEW h, h = Head(todo["service"]), h.op \in Setting, Show(h),
         camera' = camera, call' = call, asked' = asked, ret' = ret,
         m_params' = m_params,
         m_params[h.key] = h.value \/ (h.key = "flash" /\ m_params["flash"] = "off")
  PROVE  CallInv' /\ (Reported => Reported') /\ (Accepted => Accepted')
<1> DEFINE p == todo["service"]
<1>1. /\ ElementsOf(p) = {h} \cup ElementsOf(q) /\ h \in ElementsOf(p)
  <2>1. "service" \in Threads
    BY DEF Threads
  <2>2. QED
    BY <2>1, Sequences
<1>2. Meant(h) /\ \A e \in ElementsOf(q) : e.op \in Setting => Meant(e)
  BY <1>1 DEF CallInv
<1>3. /\ h.shown = None => mParameters' = mParameters /\ unreported' = unreported
      /\ h.shown # None =>
           /\ h.key \in Shown /\ h.key \in Keys /\ mParameters'[h.key] = h.shown
           /\ unreported' = unreported \ {h.key}
      /\ \A k \in Keys : k # h.key => mParameters'[k] = mParameters[k]
      /\ DOMAIN mParameters' = Keys
  <2>1. h.shown # None => h.key \in Shown /\ h.key \in Keys
    BY <1>2 DEF Meant, Shown
  <2>2. QED
    BY <2>1 DEF Show, Domains
<1>4. Unmixed(q)
  BY <1>1 DEF Unmixed, CallInv
<1>5. CallInv'
  BY <1>2, <1>4 DEF CallInv, Meant
<1>6. ASSUME Reported  PROVE Reported'
  <2>1. mParameters'["flash"] \in FlashModes \cup {None}
    <3>1. h.shown # None /\ h.key = "flash" => h.shown \in FlashModes
      BY <1>2 DEF Meant
    <3>2. "flash" \in Keys
      BY DEF Keys
    <3>3. QED
      BY <1>3, <1>6, <3>1, <3>2 DEF Reported
  <2>2. call = "open" => \A e \in ElementsOf(q) : e.op # "fps"
    BY <1>1, <1>6 DEF Reported
  <2>3. call = "open" /\ camera # None =>
          \A k \in Keys : mParameters'[k] = Defaults(camera)[k]
    BY <1>2, <1>3, <1>6 DEF Meant, Reported
  <2>4. ASSUME camera # None, NEW k \in Shown \ unreported'
        PROVE  Agrees(k)' \/ Due(q, k) \/ FlashLeft(q, k)'
    <3>1. k \in Keys
      BY DEF Shown
    <3>2. CASE k # h.key
      <4>1. Agrees(k) \/ Due(p, k) \/ FlashLeft(p, k)
        <5>1. k \in Shown \ unreported
          BY <1>3, <2>4, <3>2
        <5>2. QED
          BY <1>6, <2>4, <5>1 DEF Reported
      <4>2. mParameters'[k] = mParameters[k]
        BY <1>3, <3>1, <3>2
      <4>3. CASE Agrees(k)
        BY <4>2, <4>3 DEF Agrees
      <4>4. CASE Due(p, k)
        BY <1>1, <3>2, <4>4 DEF Due
      <4>5. CASE FlashLeft(p, k)
        <5>1. ~Due(p, "scene") /\ mParameters["scene"] = None /\ k = "flash"
          BY <4>5 DEF FlashLeft
        <5>2. h.key # "scene" /\ ~Due(q, "scene")
          BY <1>1, <5>1 DEF Due
        <5>3. "scene" \in Keys
          BY DEF Keys
        <5>4. mParameters'["scene"] = None
          BY <1>3, <5>1, <5>2, <5>3
        <5>5. QED
          BY <5>1, <5>2, <5>4 DEF FlashLeft
      <4>6. QED
        BY <4>1, <4>3, <4>4, <4>5
    <3>3. CASE k = h.key /\ h.shown # None
      <4>1. mParameters'[k] = h.shown /\ h.value = Code(k, h.shown)
        BY <1>2, <1>3, <3>3 DEF Meant
      <4>2. QED
        BY <3>3, <4>1 DEF Agrees
    <3>4. CASE k = h.key /\ h.shown = None
      <4>1. /\ call = "open"
            /\ \/ h.key = "iso" /\ h.value = "auto"
               \/ h.key = "contrast" /\ h.value = CONTRAST_DEFAULT
        BY <1>2, <3>4 DEF Meant
      <4>2. mParameters'[k] = Defaults(camera)[k] /\ m_params'[k] = h.value
        BY <3>1, <2>3, <2>4, <3>4, <4>1
      <4>3. CASE k = "iso"
        <5>1. Defaults(camera)["iso"] \in {"auto", "100"}
          BY <3>1, <4>3 DEF Defaults
        <5>2. Code("iso", "auto") = "auto"
          BY DEF Code
        <5>3. QED
          BY <3>4, <4>1, <4>2, <4>3, <5>1, <5>2 DEF Agrees
      <4>4. CASE k = "contrast"
        <5>1. Defaults(camera)["contrast"] = 0
          BY <3>1, <4>4 DEF Defaults
        <5>2. QED
          BY <3>4, <4>1, <4>2, <4>4, <5>1 DEF Agrees
      <4>5. QED
        BY <3>4, <4>1, <4>3, <4>4
    <3>5. QED
      BY <3>2, <3>3, <3>4
  <2> HIDE DEF p
  <2>5. \A k : (FlashLeft(todo["service"], k)' <=> FlashLeft(q, k)')
    BY DEF FlashLeft
  <2>6. camera' # None => \A k \in (Shown \ unreported)' :
          Agrees(k)' \/ Due(q, k) \/ FlashLeft(q, k)'
    BY <2>4
  <2>7. QED
    BY <2>1, <2>2, <2>3, <2>5, <2>6 DEF Reported
<1>7. ASSUME Accepted  PROVE Accepted'
  <2>1. SUFFICES ASSUME camera # None, call = "setParameters", ret = "ok", ~Refuses(q)
                 PROVE  AcceptedBy(q)'
    BY DEF Accepted, AcceptedBy, DoneOrDue, InScene
  <2>2. AcceptedBy(p)
    <3>1. ~Refuses(p)
      BY <1>1, <2>1 DEF Refuses, Setting
    <3>2. QED
      BY <1>7, <2>1, <3>1 DEF Accepted
  <2>3. ASSUME NEW k \in Keys, NEW v, DoneOrDue(p, k, v)  PROVE DoneOrDue(q, k, v)'
    <3>1. CASE h.key = k /\ h.shown # None
      <4>1. mParameters'[k] = h.shown /\ h.shown = v
        BY <1>1, <1>3, <2>3, <3>1 DEF DoneOrDue
      <4>2. QED
        BY <1>1, <2>3, <4>1 DEF DoneOrDue
    <3>2. CASE h.key # k \/ h.shown = None
      <4>1. mParameters'[k] = mParameters[k]
        BY <1>3, <3>2
      <4>2. QED
        BY <1>1, <2>3, <3>2, <4>1 DEF DoneOrDue
    <3>3. QED
      BY <3>1, <3>2
  <2>4. "scene" \in Keys /\ "flash" \in Keys /\ "fps" \in Keys /\ "fps" \notin Shown
    BY DEF Keys, Shown, Settings
  <2>5. mParameters'["fps"] = mParameters["fps"]
    BY <1>3, <2>4
  <2>6. mParameters["scene"] = None /\ ~Due(p, "scene") =>
          mParameters'["scene"] = None /\ ~Due(q, "scene")
    BY <1>1, <1>3, <2>4 DEF Due
  <2>7. ASSUME NEW s \in SceneNames, InScene(p, s)  PROVE InScene(q, s)'
    <3>1. DoneOrDue(q, "scene", s)'
      BY <2>3, <2>4, <2>7 DEF InScene
    <3>2. /\ s # "auto" => DoneOrDue(q, "flash", FlashOf(s, None))'
          /\ s = "auto" /\ "flash" \in DOMAIN asked => DoneOrDue(q, "flash", asked["flash"])'
      BY <2>3, <2>4, <2>7 DEF InScene
    <3>3. /\ mParameters'["fps"] = FpsOf(s) \/ \E e \in ElementsOf(q) : e.op = "fps"
          /\ \A e \in ElementsOf(q) : e.op = "fps" => e.shown = FpsOf(s)
      BY <1>1, <2>5, <2>7 DEF InScene, Setting
    <3>4. QED
      BY <3>1, <3>2, <3>3 DEF InScene
  <2>8. DOMAIN asked' \subseteq Keys
    BY <2>2 DEF AcceptedBy
  <2>9. \A k \in Wanted' : Ignored(camera, k, asked[k]) \/ DoneOrDue(q, k, asked[k])'
    BY <2>2, <2>3 DEF AcceptedBy, Wanted
  <2>10. QED
    BY <2>2, <2>6, <2>7, <2>8, <2>9 DEF AcceptedBy
<1>8. QED
  BY <1>5, <1>6, <1>7
-----------------------------------------------------------------------------
(* Steps within a call keep them. *)
ParametersKept == CallInv' /\ (Reported => Reported') /\ (Accepted => Accepted')

\* A sequence carries its own setters, and what a longer one has of a shorter one.
LEMMA CarriesLess ==
  ASSUME NEW p, NEW q, ElementsOf(p) \subseteq ElementsOf(q)
  PROVE  Carries(p, q)
BY DEF Carries, Carried

\* What the preview thread does changes nothing but the flash, which it puts out.
LEMMA PreviewKeepsParameters ==
  ASSUME StreamInv, SensorInv, CallInv, NoRates,
         \/ Setter("preview") \/ ParameterStep("preview") \/ StartStep("preview")
         \/ StopStep("preview") \/ PreviewStep
  PROVE  ParametersKept
<1> DEFINE h == Head(todo["preview"])
           q == todo["service"]
<1>1. "preview" \in Threads /\ "service" \in Threads /\ "service" # "preview"
  BY DEF Threads
<1>2. \A r : Do("preview", r) => todo'["service"] = q
  BY <1>1, Sequences DEF Do
<1>3. Setter("preview") => /\ todo["preview"] # <<>> /\ h.op \in Setting \cup {"displace"}
                           /\ DisplaceRefused("preview") => h.op = "displace"
  BY DEF Setter, Same, Store, Check, Tell, TellRefused, Displace, DisplaceRefused, At, Setting
<1>4. Setter("preview") /\ h.op \in Setting =>
        h.key = "flash" /\ h.value = "off" /\ h.shown = None
  BY <1>1, <1>3, SetterHead DEF SetterOf
<1>5. todo'["service"] = q
  BY <1>2 DEF Setter, Same, Store, Check, Tell, TellRefused, Displace, DisplaceRefused,
     ParameterStep, Refuse, ShowFps, BatchReflection, StartStep, AlreadyStarted,
     RequestBuffers, BuffersRefused, SendSettings, StreamOn, SetStarted, FirstFrame,
     StartFails, WakePreview, StopStep, BeginStop, StreamOff, StreamOffFails, SetStopped,
     PreviewStep, NoData, InputFound, InputNotFound, PreviewStops, Park, Done
<1>6. camera' = camera /\ call' = call /\ asked' = asked
  BY DEF Setter, Same, Store, Check, Tell, TellRefused, Displace, DisplaceRefused,
     ParameterStep, Refuse, ShowFps, BatchReflection, StartStep, AlreadyStarted,
     RequestBuffers, BuffersRefused, SendSettings, StreamOn, SetStarted, FirstFrame,
     StartFails, WakePreview, StopStep, BeginStop, StreamOff, StreamOffFails, SetStopped,
     PreviewStep, NoData, InputFound, InputNotFound, PreviewStops, Park, callVars
<1>7. ret' = ret
  BY <1>1 DEF Setter, Same, Store, Check, Tell, TellRefused, Displace, DisplaceRefused,
     ParameterStep, Refuse, ShowFps, BatchReflection, StartStep, AlreadyStarted,
     RequestBuffers, BuffersRefused, SendSettings, StreamOn, SetStarted, FirstFrame,
     StartFails, WakePreview, StopStep, BeginStop, StreamOff, StreamOffFails, SetStopped,
     PreviewStep, NoData, InputFound, InputNotFound, PreviewStops, Park, Answer
<1>8. CASE Setter("preview")
  <2>1. mParameters' = mParameters /\ unreported \subseteq unreported'
    <3>1. \/ h.op \in Setting /\ Show(h)
          \/ mParameters' = mParameters /\ unreported \subseteq unreported'
      BY <1>8 DEF Setter, Same, Store, Check, Tell, TellRefused, Displace, DisplaceRefused, At,
         Setting
    <3>2. QED
      BY <1>4, <1>8, <3>1 DEF Show
  <2>2. \A k \in Shown : \/ m_params'[k] = m_params[k]
                         \/ k = "flash" /\ m_params'[k] = "off"
    <3>1. m_params' = m_params \/ Store("preview")
      BY <1>8 DEF Setter, Same, Check, Tell, TellRefused, Displace, DisplaceRefused
    <3>2. CASE Store("preview")
      <4>1. h.op \in Setting /\ m_params' = [m_params EXCEPT ![h.key] = h.value]
        BY <3>2 DEF Store, At, Setting
      <4>2. DOMAIN m_params = Settings /\ Shown \subseteq Settings
        BY DEF SensorInv, Domains, Shown
      <4>3. QED
        BY <1>4, <1>8, <4>1, <4>2
    <3>3. QED
      BY <3>1, <3>2
  <2>3. QED
    BY <1>5, <1>6, <1>7, <2>1, <2>2, CarriesLess, GoesOn DEF CallInv, ParametersKept,
       Carries
<1>9. CASE ~Setter("preview")
  <2>1. ~ShowFps("preview")
    BY <1>1, Sequences DEF NoRates, ShowFps, At
  <2>2. mParameters' = mParameters /\ unreported' = unreported /\ m_params' = m_params
    BY <1>9, <2>1 DEF ParameterStep, Refuse, BatchReflection, StartStep, AlreadyStarted,
     RequestBuffers, BuffersRefused, SendSettings, StreamOn, SetStarted, FirstFrame,
     StartFails, WakePreview, StopStep, BeginStop, StreamOff, StreamOffFails, SetStopped,
     PreviewStep, NoData, InputFound, InputNotFound, PreviewStops, Park, settingVars
  <2>3. QED
    BY <1>5, <1>6, <1>7, <2>2, CarriesLess, GoesOn DEF CallInv, ParametersKept, Carries
<1>10. QED
  BY <1>8, <1>9

\* The preview thread does not come to show frame rates.
LEMMA RatesKept ==
  ASSUME StreamInv, SensorInv, NoRates,
         \/ Setter("preview") \/ ParameterStep("preview") \/ StartStep("preview")
         \/ StopStep("preview") \/ PreviewStep
  PROVE  NoRates'
<1> DEFINE p == todo["preview"]
           h == Head(p)
           r == Tail(p)
<1>1. "preview" \in Threads
  BY DEF Threads
<1>2. ASSUME NEW q, Do("preview", q), \A e \in ElementsOf(q) : e.op # "fps"
      PROVE  NoRates'
  <2>1. todo'["preview"] = q
    BY <1>1, <1>2, Sequences DEF Do
  <2>2. QED
    BY <1>2, <2>1 DEF NoRates
<1>3. p # <<>> => /\ IsSequence(r) /\ h \in ElementsOf(p)
                  /\ ElementsOf(p) = {h} \cup ElementsOf(r)
  BY <1>1, Sequences
<1>4. p # <<>> => /\ \A e \in ElementsOf(r) : e.op # "fps"
                  /\ r # <<>> => \A e \in ElementsOf(Tail(r)) : e.op # "fps"
  <2> HIDE DEF r
  <2>1. p # <<>> => \A e \in ElementsOf(r) : e.op # "fps"
    BY <1>3 DEF NoRates
  <2>2. p # <<>> /\ r # <<>> => ElementsOf(Tail(r)) \subseteq ElementsOf(r)
    BY <1>3, ElementsTail
  <2>3. QED
    BY <2>1, <2>2
<1>5. ASSUME p # <<>>, Do("preview", r)  PROVE NoRates'
  BY <1>2, <1>4, <1>5
<1>6. ASSUME p # <<>>, r # <<>>, Do("preview", Tail(r))  PROVE NoRates'
  BY <1>2, <1>4, <1>6
<1>7. ASSUME Do("preview", <<>>)  PROVE NoRates'
  <2>1. \A e \in ElementsOf(<<>>) : e.op # "fps"
    BY ElementsFew
  <2>2. QED
    BY <1>2, <1>7, <2>1
<1>8. ASSUME Do("preview", Start(camera))  PROVE NoRates'
  <2> DEFINE q == Start(camera)
  <2>1. OpsOf(q) \subseteq {"begin", "buffers", "send", "streamon", "started", "frame"}
    BY StartSends
  <2>2. \A e \in ElementsOf(q) : e.op \in OpsOf(q)
    BY DEF ElementsOf, OpsOf
  <2>3. \A e \in ElementsOf(q) : e.op # "fps"
    BY <2>1, <2>2
  <2>4. QED
    BY <1>2, <1>8, <2>3
<1>9. CASE \/ Same("preview") \/ Tell("preview") \/ TellRefused("preview") \/ Displace("preview")
           \/ ParameterStep("preview") \/ RequestBuffers("preview") \/ SendSettings("preview")
           \/ StreamOn("preview") \/ SetStarted("preview") \/ FirstFrame("preview")
           \/ WakePreview("preview") \/ StreamOff("preview") \/ SetStopped("preview")
           \/ InputFound \/ Park
  <2>1. p # <<>> /\ Do("preview", r)
    BY <1>9 DEF Same, Tell, TellRefused, Displace, ParameterStep, Refuse, ShowFps,
       BatchReflection, RequestBuffers, SendSettings, StreamOn, SetStarted, FirstFrame,
       WakePreview, StreamOff, SetStopped, InputFound, Park, At, Done
  <2>2. QED
    BY <1>5, <2>1
<1>10. CASE BuffersRefused("preview") \/ StartFails("preview")
  <2>1. Do("preview", <<>>)
    BY <1>10 DEF BuffersRefused, StartFails
  <2>2. QED
    BY <1>7, <2>1
<1>11. CASE InputNotFound
  BY <1>8, <1>11 DEF InputNotFound
<1>12. CASE AlreadyStarted("preview")
  <2>1. p # <<>> /\ (Do("preview", <<>>) \/ Do("preview", r))
    BY <1>12 DEF AlreadyStarted, At, Done
  <2>2. QED
    BY <1>5, <1>7, <2>1
<1>13. CASE DisplaceRefused("preview") \/ StreamOffFails("preview")
  <2>1. p # <<>> /\ Do("preview", Tail(r)) /\ h.op \in {"displace", "streamoff"}
    BY <1>13 DEF DisplaceRefused, StreamOffFails, At
  <2>2. WellFormed(p)
    BY <1>1, <2>1, SetterHead
  <2>3. r # <<>>
    BY <2>1, <2>2, PairSkipped
  <2>4. QED
    BY <1>6, <2>1, <2>3
<1>14. CASE Store("preview")
  <2> DEFINE o == [h EXCEPT !.op = "check"]
             w == <<o>> \o r
  <2>1. p # <<>> /\ h.op = "set" /\ Do("preview", w)
    BY <1>14 DEF Store, At
  <2>2. DOMAIN h = {"op", "key", "value", "shown"}
    BY <1>1, <2>1, SetterHead DEF SetterOf, Setting
  <2>3. o.op = "check"
    BY <2>2
  <2> HIDE DEF o, h, r, p
  <2>4. ElementsOf(w) = {o} \cup ElementsOf(r)
    BY <1>3, <2>1, HeadJoin
  <2> HIDE DEF w
  <2>5. \A e \in ElementsOf(w) : e.op # "fps"
    BY <1>4, <2>1, <2>3, <2>4
  <2>6. QED
    BY <1>2, <2>1, <2>5
<1>15. CASE Check("preview")
  <2> DEFINE o == [h EXCEPT !.op = "tell"]
             d == [op |-> "displace"]
             w == Tells(h) \o r
  <2>1. p # <<>> /\ h.op = "check" /\ (Do("preview", w) \/ Do("preview", r))
    BY <1>15 DEF Check, At, Tells, Done
  <2>2. DOMAIN h = {"op", "key", "value", "shown"}
    BY <1>1, <2>1, SetterHead DEF SetterOf, Setting
  <2> HIDE DEF h, r, p
  <2>3. o.op = "tell" /\ \A e \in ElementsOf(w) : e = o \/ e \in ElementsOf(r) \/ e = d
    BY <1>3, <2>1, <2>2, TellsFirst
  <2>4. d.op = "displace"
    OBVIOUS
  <2> HIDE DEF o, d, w
  <2>5. \A e \in ElementsOf(w) : e.op # "fps"
    BY <1>4, <2>1, <2>3, <2>4
  <2>6. QED
    BY <1>2, <1>5, <2>1, <2>5
<1>16. CASE BeginStop("preview")
  <2> DEFINE light == IF m_params.flash = "torch" THEN Set("flash", "off", None) ELSE <<>>
             s == <<[op |-> "streamoff"], [op |-> "stopped"]>>
             w == light \o s \o r
             z == <<>> \o r
  <2>1. p # <<>> /\ h.op = "stop" /\ (Do("preview", w) \/ Do("preview", z))
    BY <1>16 DEF BeginStop, At
  <2>2. light = <<>> \/ light = Set("flash", "off", None)
    OBVIOUS
  <2>3. OpsOf(r) \subseteq Later("stop")
    BY <1>1, <2>1, StartHead DEF Marks
  <2>4. Quiet(r)
    BY <1>1, <2>1, SetterHead, TailNext
  <2> HIDE DEF light, h, r, p
  <2>5. \A e \in ElementsOf(w) : e \in ElementsOf(r) \/ e.op # "fps"
    <3>1. OpsOf(r) \cap StreamSteps = {}
      BY <2>3 DEF Later, StreamSteps
    <3>2. QED
      BY <1>3, <2>1, <2>2, <2>4, <3>1, StopQuiet
  <2>6. ElementsOf(z) = ElementsOf(r)
    BY <1>3, <2>1, ElementsJoin, ElementsFew
  <2> HIDE DEF w, z
  <2>7. QED
    BY <1>2, <1>4, <2>1, <2>5, <2>6
<1>17. CASE NoData \/ PreviewStops
  <2> DEFINE a == [op |-> "stop"]
             b == [op |-> "look"]
             d == [op |-> "park"]
  <2>1. Do("preview", <<a, b>>) \/ Do("preview", <<a, d>>)
    BY <1>17 DEF NoData, PreviewStops
  <2>2. a.op = "stop" /\ b.op = "look" /\ d.op = "park"
    OBVIOUS
  <2> HIDE DEF a, b, d
  <2>3. ASSUME NEW x, x.op \in {"look", "park"}, Do("preview", <<a, x>>)  PROVE NoRates'
    <3> DEFINE q == <<a, x>>
    <3>1. \A i \in DOMAIN q : q[i] \in {a, x}
      OBVIOUS
    <3>2. Do("preview", q)
      BY <2>3
    <3> HIDE DEF q
    <3>3. \A e \in ElementsOf(q) : e.op # "fps"
      BY <2>2, <2>3, <3>1 DEF ElementsOf
    <3>4. QED
      BY <1>2, <3>2, <3>3
  <2>4. QED
    BY <2>1, <2>2, <2>3
<1>18. QED
  BY <1>9, <1>10, <1>11, <1>12, <1>13, <1>14, <1>15, <1>16, <1>17
     DEF Setter, StartStep, StopStep, PreviewStep

\* What the service leaves out is no setter, or one it has given up.
LEMMA Leaves ==
  ASSUME StreamInv, CallInv, NEW q, Do("service", q), todo["service"] # <<>>,
         ElementsOf(q) \subseteq ElementsOf(todo["service"]),
         \A e \in ElementsOf(todo["service"]) \ ElementsOf(q) :
           /\ e.op # "fps"
           /\ e.op \in Setting => e.key \in unreported' /\ ret' = "error"
           /\ e.op = "refuse" => ret' = "error",
         mParameters' = mParameters, m_params' = m_params, camera' = camera, call' = call,
         asked' = asked, unreported \subseteq unreported', ret' \in {ret, "error"}
  PROVE  ParametersKept
<1> DEFINE p == todo["service"]
<1>1. todo'["service"] = q
  <2>1. "service" \in Threads
    BY DEF Threads
  <2>2. QED
    BY <2>1, Sequences DEF Do
<1>2. Unmixed(q)
  BY DEF CallInv, Unmixed
<1>3. Carries(q, todo["service"])
  BY CarriesLess
<1>4. \A e \in ElementsOf(todo["service"]) : e.op \in Setting =>
        Carried(e, q) \/ (e.key \in unreported' /\ ret' = "error")
  BY DEF Carried
<1>5. \A e : e.op = "fps" => (e \in ElementsOf(q) <=> e \in ElementsOf(todo["service"]))
  OBVIOUS
<1>6. ret' = "error" \/ (ret' = ret /\ (Refuses(todo["service"]) => Refuses(q)))
  BY DEF Refuses
<1>7. QED
  BY <1>1, <1>2, <1>3, <1>4, <1>5, <1>6, GoesOn DEF ParametersKept

\* The service's setters.
LEMMA ServiceSetterKeeps ==
  ASSUME StreamInv, SensorInv, CallInv, Setter("service")
  PROVE  ParametersKept
<1> DEFINE p == todo["service"]
           h == Head(p)
           r == Tail(p)
<1>1. "service" \in Threads /\ "service" # "preview"
  BY DEF Threads
<1>2. /\ p # <<>> /\ camera' = camera /\ call' = call /\ asked' = asked
      /\ h.op \in Setting \cup {"displace"}
  BY DEF Setter, Same, Store, Check, Tell, TellRefused, Displace, DisplaceRefused, callVars,
     At, Setting
<1>3. /\ Domains /\ SetterOf("service", h) /\ SetterNext(p) /\ WellFormed(p)
      /\ IsSequence(r) /\ ElementsOf(p) = {h} \cup ElementsOf(r) /\ h \in ElementsOf(p)
  BY <1>1, <1>2, SetterHead, Sequences
<1>4. h.op \in Setting => /\ DOMAIN h = {"op", "key", "value", "shown"} /\ h.key \in Settings
                          /\ Stored("service", h)
  BY <1>3 DEF SetterOf
<1>5. \A q : Do("service", q) => todo'["service"] = q
  BY <1>1, Sequences DEF Do
<1>6. \A e \in ElementsOf(p) : e.op \in OfCall
  BY <1>2, <1>3 DEF CallInv, Unmixed, OfCall, OfStart, Setting
<1> HIDE DEF h, r
<1>7. CASE Same("service") \/ Tell("service") \/ (Check("service") /\ ~m_flag_camera_start)
  <2>1. /\ h.op \in Setting /\ Show(h) /\ Do("service", r)
        /\ m_params' = m_params /\ ret' = ret
        /\ m_params[h.key] = h.value \/ h.op \in {"check", "tell"}
    BY <1>7 DEF Same, Tell, Check, Setting, At, Done, h, r
  <2>2. m_params[h.key] = h.value \/ (h.key = "flash" /\ m_params["flash"] = "off")
    BY <1>1, <1>4, <2>1 DEF Stored
  <2>3. todo'["service"] = Tail(todo["service"])
    BY <1>5, <2>1 DEF r
  <2>4. h = Head(todo["service"])
    BY DEF h
  <2>5. QED
    BY <1>2, <1>3, <2>1, <2>2, <2>3, <2>4, Finishes DEF ParametersKept
<1>8. CASE Store("service") \/ (Check("service") /\ m_flag_camera_start)
  <2>1. PICK q, o :
          /\ Do("service", q) /\ IsSequence(q)
          /\ o.op \in {"check", "tell"} /\ o.key = h.key /\ o.value = h.value
          /\ o.shown = h.shown
          /\ o \in ElementsOf(q) /\ ElementsOf(r) \subseteq ElementsOf(q)
          /\ \A e \in ElementsOf(q) : e = o \/ e \in ElementsOf(r) \/ e.op = "displace"
          /\ h.op \in Setting
          /\ m_params' = m_params \/ m_params' = [m_params EXCEPT ![h.key] = h.value]
          /\ mParameters' = mParameters /\ unreported' = unreported /\ ret' = ret
    <3>1. CASE Store("service")
      <4> DEFINE o == [h EXCEPT !.op = "check"]
                 q == <<o>> \o r
      <4>1. /\ h.op = "set" /\ Do("service", q)
            /\ m_params' = [m_params EXCEPT ![h.key] = h.value]
            /\ mParameters' = mParameters /\ unreported' = unreported /\ ret' = ret
        BY <3>1 DEF Store, At, h, r
      <4>2. /\ o.op = "check" /\ o.key = h.key /\ o.value = h.value /\ o.shown = h.shown
            /\ h.op \in Setting
        BY <1>4, <4>1 DEF Setting
      <4> HIDE DEF o
      <4>3. IsSequence(q) /\ ElementsOf(q) = {o} \cup ElementsOf(r)
        BY <1>3, HeadJoin
      <4> HIDE DEF q
      <4>4. QED
        BY <4>1, <4>2, <4>3
    <3>2. CASE Check("service") /\ m_flag_camera_start
      <4> DEFINE o == [h EXCEPT !.op = "tell"]
                 d == [op |-> "displace"]
                 q == Tells(h) \o r
      <4>1. /\ h.op = "check" /\ Do("service", q) /\ m_params' = m_params
            /\ mParameters' = mParameters /\ unreported' = unreported /\ ret' = ret
        BY <3>2 DEF Check, At, h, r, Tells
      <4>2. h.op \in Setting /\ DOMAIN h = {"op", "key", "value", "shown"}
        BY <1>4, <4>1 DEF Setting
      <4>3. /\ o.op = "tell" /\ o.key = h.key /\ o.value = h.value /\ o.shown = h.shown
            /\ IsSequence(q) /\ q # <<>>
            /\ \A e \in ElementsOf(q) : e = o \/ e \in ElementsOf(r) \/ e = d
            /\ \/ Head(q) = o /\ Tail(q) = r
               \/ Tail(q) # <<>> /\ Head(Tail(q)) = o /\ Tail(Tail(q)) = r
        BY <1>3, <4>2, TellsFirst
      <4>4. d.op = "displace"
        OBVIOUS
      <4> HIDE DEF o, d, q
      <4>5. /\ ElementsOf(q) = {Head(q)} \cup ElementsOf(Tail(q)) /\ IsSequence(Tail(q))
            /\ Tail(q) # <<>> =>
                 ElementsOf(Tail(q)) = {Head(Tail(q))} \cup ElementsOf(Tail(Tail(q)))
        BY <4>3, ElementsTail
      <4>6. o \in ElementsOf(q) /\ ElementsOf(r) \subseteq ElementsOf(q)
        BY <4>3, <4>5
      <4>7. QED
        BY <4>1, <4>2, <4>3, <4>4, <4>6
    <3>3. QED
      BY <1>8, <3>1, <3>2
  <2>2. Unmixed(q)
    BY <1>3, <1>6, <2>1 DEF Unmixed, OfCall
  <2>3. Carries(q, todo["service"])
    BY <1>3, <2>1 DEF Carries, Carried, Setting
  <2>4. \A e \in ElementsOf(todo["service"]) : e.op \in Setting => Carried(e, q)
    BY <1>3, <2>1 DEF Carried, Setting
  <2>5. \A e : e.op = "fps" => (e \in ElementsOf(q) <=> e \in ElementsOf(todo["service"]))
    BY <1>3, <2>1 DEF Setting
  <2>6. Refuses(todo["service"]) => Refuses(q)
    BY <1>3, <2>1 DEF Refuses, Setting
  <2>7. \A k \in Shown : m_params'[k] = m_params[k] \/ Due(q, k)
    <3>1. DOMAIN m_params = Settings /\ Shown \subseteq Settings
      BY <1>3 DEF Domains, Shown
    <3>2. Due(q, h.key)
      BY <2>1 DEF Due, Setting
    <3>3. QED
      BY <2>1, <3>1, <3>2
  <2>8. todo'["service"] = q
    BY <1>5, <2>1
  <2>9. QED
    BY <1>2, <2>1, <2>2, <2>3, <2>4, <2>5, <2>6, <2>7, <2>8, GoesOn DEF ParametersKept
<1>9. CASE TellRefused("service") \/ Displace("service")
  <2>1. /\ Do("service", r) /\ mParameters' = mParameters /\ m_params' = m_params
        /\ unreported \subseteq unreported' /\ ret' \in {ret, "error"}
        /\ h.op = "displace" \/ (h.op = "tell" /\ h.key \in unreported' /\ ret' = "error")
    BY <1>9 DEF TellRefused, Displace, At, Done, Answer, h, r
  <2>2. QED
    BY <1>2, <1>3, <2>1, Leaves DEF Setting
<1>10. CASE DisplaceRefused("service")
  <2> DEFINE q == Tail(r)
             g == Head(r)
  <2>1. /\ Do("service", q) /\ mParameters' = mParameters /\ m_params' = m_params
        /\ unreported \subseteq unreported' /\ ret' = "error" /\ "face" \in unreported'
        /\ h.op = "displace"
    BY <1>10 DEF DisplaceRefused, At, Answer, h, r
  <2>2. r # <<>> /\ g.op = "tell" /\ g.key = "face"
    BY <1>2, <1>3, <2>1 DEF SetterNext, Paired, h, r
  <2>3. ElementsOf(r) = {g} \cup ElementsOf(q)
    BY <1>3, <2>2, ElementsTail
  <2> HIDE DEF q, g
  <2>4. QED
    BY <1>2, <1>3, <2>1, <2>2, <2>3, Leaves DEF Setting
<1>11. QED
  BY <1>7, <1>8, <1>9, <1>10 DEF Setter

\* The frame rates of the scene asked for.
LEMMA RatesShown ==
  ASSUME StreamInv, SensorInv, CallInv, ShowFps("service"), NEW q, NEW h,
         q = Tail(todo["service"]), h = Head(todo["service"])
  PROVE  ParametersKept
<1> DEFINE p == todo["service"]
<1>1. /\ p # <<>> /\ h.op = "fps" /\ Do("service", q)
      /\ mParameters' = [mParameters EXCEPT !["fps"] = h.shown]
      /\ m_params' = m_params /\ unreported' = unreported /\ ret' = ret
      /\ camera' = camera /\ call' = call /\ asked' = asked
  BY DEF ShowFps, At, Done, callVars
<1>2. "service" \in Threads /\ DOMAIN mParameters = Keys
  BY DEF Threads, SensorInv, Domains
<1>3. /\ ElementsOf(p) = {h} \cup ElementsOf(q) /\ h \in ElementsOf(p)
      /\ todo'["service"] = q
  BY <1>1, <1>2, Sequences DEF Do
<1>4. /\ "fps" \in Keys /\ "fps" \notin Shown /\ "flash" \in Keys /\ "scene" \in Keys
      /\ Shown \subseteq Keys
  BY DEF Keys, Shown, Settings
<1>5. /\ mParameters'["fps"] = h.shown
      /\ \A k \in Keys : k # "fps" => mParameters'[k] = mParameters[k]
  BY <1>1, <1>2, <1>4
<1>6. CallInv'
  <2>1. Unmixed(q)
    BY <1>3 DEF CallInv, Unmixed
  <2>2. QED
    BY <1>1, <1>3, <2>1 DEF CallInv, Meant
<1>7. ASSUME Reported  PROVE Reported'
  <2>1. call # "open"
    BY <1>1, <1>3, <1>7 DEF Reported
  <2>2. \A k : Due(q, k) <=> Due(p, k)
    BY <1>1, <1>3 DEF Due, Setting
  <2>3. \A k \in Shown : Agrees(k)' <=> Agrees(k)
    BY <1>1, <1>4, <1>5 DEF Agrees
  <2>4. mParameters'["flash"] = mParameters["flash"] /\ mParameters'["scene"] = mParameters["scene"]
    BY <1>4, <1>5
  <2>5. \A k : FlashLeft(todo["service"], k)' <=> FlashLeft(p, k)
    BY <1>3, <2>2, <2>4 DEF FlashLeft
  <2>6. \A k : Due(todo["service"], k)' <=> Due(p, k)
    BY <1>3, <2>2 DEF Due
  <2>7. QED
    BY <1>1, <1>7, <2>1, <2>3, <2>4, <2>5, <2>6 DEF Reported
<1>8. ASSUME Accepted  PROVE Accepted'
  <2>1. SUFFICES ASSUME camera # None, call = "setParameters", ret = "ok", ~Refuses(q)
                 PROVE  AcceptedBy(q)'
    BY <1>1, <1>3 DEF Accepted, AcceptedBy, DoneOrDue, InScene, Due, Refuses
  <2>2. AcceptedBy(p)
    <3>1. ~Refuses(p)
      BY <1>1, <1>3, <2>1 DEF Refuses
    <3>2. QED
      BY <1>8, <2>1, <3>1 DEF Accepted
  <2>3. ASSUME NEW k \in Keys \ {"fps"}, NEW v, DoneOrDue(p, k, v)
        PROVE  DoneOrDue(q, k, v)'
    <3>1. mParameters'[k] = mParameters[k]
      BY <1>5
    <3>2. QED
      BY <1>1, <1>3, <2>3, <3>1 DEF DoneOrDue, Setting
  <2>4. mParameters["scene"] = None /\ ~Due(p, "scene") =>
          mParameters'["scene"] = None /\ ~Due(q, "scene")
    BY <1>3, <1>4, <1>5 DEF Due
  <2>5. ASSUME NEW s \in SceneNames, InScene(p, s)  PROVE InScene(q, s)'
    <3>1. DoneOrDue(q, "scene", s)'
      BY <1>4, <2>3, <2>5 DEF InScene
    <3>2. /\ s # "auto" => DoneOrDue(q, "flash", FlashOf(s, None))'
          /\ s = "auto" /\ "flash" \in DOMAIN asked => DoneOrDue(q, "flash", asked["flash"])'
      BY <1>1, <1>4, <2>3, <2>5 DEF InScene
    <3>3. /\ mParameters'["fps"] = FpsOf(s)
          /\ \A e \in ElementsOf(q) : e.op = "fps" => e.shown = FpsOf(s)
      BY <1>1, <1>3, <1>5, <2>5 DEF InScene
    <3>4. QED
      BY <1>1, <3>1, <3>2, <3>3 DEF InScene
  <2>6. /\ DOMAIN asked' \subseteq Keys
        /\ \A k \in Wanted' : Ignored(camera, k, asked[k]) \/ DoneOrDue(q, k, asked[k])'
    BY <1>1, <2>2, <2>3 DEF AcceptedBy, Wanted
  <2>7. QED
    BY <1>1, <2>2, <2>4, <2>5, <2>6 DEF AcceptedBy
<1>9. QED
  BY <1>6, <1>7, <1>8 DEF ParametersKept

\* The other steps of a call, and those of a start.
LEMMA ServiceStepsKeep ==
  ASSUME StreamInv, SensorInv, CallInv,
         ParameterStep("service") \/ StartStep("service") \/ StopStep("service") \/ Halt
  PROVE  ParametersKept
<1> DEFINE p == todo["service"]
           h == Head(p)
           r == Tail(p)
<1>1. "service" \in Threads
  BY DEF Threads
<1>2. /\ p # <<>> /\ camera' = camera /\ call' = call /\ asked' = asked
      /\ m_params' = m_params /\ unreported' = unreported /\ ret' \in {ret, "error"}
  BY DEF ParameterStep, Refuse, ShowFps, BatchReflection, StartStep, AlreadyStarted,
     RequestBuffers, BuffersRefused, SendSettings, StreamOn, SetStarted, FirstFrame,
     StartFails, WakePreview, StopStep, BeginStop, StreamOff, StreamOffFails, SetStopped,
     Halt, callVars, settingVars, At, Answer
<1>3. ElementsOf(p) = {h} \cup ElementsOf(r) /\ h \in ElementsOf(p)
  BY <1>1, <1>2, Sequences
<1>4. ~StopStep("service")
  <2>1. ASSUME StopStep("service")  PROVE h.op \in Stops
    BY <2>1 DEF StopStep, BeginStop, StreamOff, StreamOffFails, SetStopped, At, Stops
  <2>2. h.op \in Stops => h.op \in Left("service")
    BY <1>1, <1>2, HeadDone DEF Marks, Stops
  <2>3. Left("service") \cap Stops = {}
    BY <1>1, <1>2, HeadDone DEF Concerns, Stops
  <2>4. QED
    BY <2>1, <2>2, <2>3
<1> HIDE DEF h, r
<1>5. CASE Refuse("service") \/ BatchReflection("service") \/ Halt
  <2>1. /\ Do("service", r) /\ mParameters' = mParameters
        /\ (h.op = "refuse" /\ ret' = "error") \/ h.op \in {"batch", "halt"}
    BY <1>5 DEF Refuse, BatchReflection, Halt, At, Done, Answer, settingVars, h, r
  <2>2. QED
    BY <1>2, <1>3, <2>1, Leaves DEF Setting
<1>6. CASE StartStep("service")
  <2>1. /\ mParameters' = mParameters /\ h.op \in OfStart
        /\ \/ Do("service", r)
           \/ Do("service", <<>>)
           \/ Do("service", Wake) /\ ret' = ret
    BY <1>6 DEF StartStep, AlreadyStarted,
       RequestBuffers, BuffersRefused, SendSettings, StreamOn, SetStarted, FirstFrame,
       StartFails, WakePreview, At, Done, settingVars, OfStart, h, r
  <2>2. \A e \in ElementsOf(p) : e.op \in OfStart
    BY <1>3, <2>1 DEF CallInv, Unmixed, OfCall, OfStart
  <2>3. \A e \in ElementsOf(p) : e.op \notin Setting /\ e.op # "fps" /\ e.op # "refuse"
    BY <2>2 DEF OfStart, Setting
  <2>4. CASE Do("service", r)
    BY <1>2, <1>3, <2>1, <2>3, <2>4, Leaves
  <2>5. CASE Do("service", <<>>)
    <3> DEFINE z == <<>>
    <3>1. Do("service", z) /\ ElementsOf(z) = {}
      BY <2>5, ElementsFew
    <3> HIDE DEF z
    <3>2. QED
      BY <1>2, <2>1, <2>3, <3>1, Leaves
  <2>6. CASE Do("service", Wake) /\ ret' = ret
    <3> DEFINE o == [op |-> "wake"]
    <3>1. o.op = "wake" /\ Wake = <<o>>
      BY DEF Wake
    <3> HIDE DEF o
    <3>2. ElementsOf(<<o>>) = {o}
      BY ElementsFew
    <3> DEFINE q == Wake
    <3>3. todo'["service"] = q /\ ElementsOf(q) = {o}
      BY <1>1, <2>6, <3>1, <3>2, Sequences DEF Do
    <3> HIDE DEF q
    <3>4. \A e \in ElementsOf(q) : e.op = "wake"
      BY <3>1, <3>3
    <3>5. Unmixed(q)
      BY <3>4 DEF Unmixed, OfStart
    <3>6. Carries(q, todo["service"])
      BY <3>4 DEF Carries, Setting
    <3>7. \A e : e.op = "fps" => (e \in ElementsOf(q) <=> e \in ElementsOf(todo["service"]))
      BY <2>3, <3>4
    <3>8. Refuses(todo["service"]) => Refuses(q)
      BY <2>3 DEF Refuses
    <3>9. QED
      BY <1>2, <2>1, <2>3, <2>6, <3>3, <3>5, <3>6, <3>7, <3>8, GoesOn DEF ParametersKept
  <2>7. QED
    BY <2>1, <2>4, <2>5, <2>6
<1>7. QED
  BY <1>4, <1>5, <1>6, RatesShown DEF ParameterStep, h, r
-----------------------------------------------------------------------------
(* The service's calls and the parameters. *)

\* The scene brings its flash, when that is one the setter knows.
LEMMA SceneFlash ==
  ASSUME NEW c, NEW p, NEW q, q = Parameters(c, p), p.scene # None,
         FlashOf(p.scene, p.flash) # None, FlashOf(p.scene, p.flash) \in FlashModes
  PROVE  Due(q, "flash")
<1> DEFINE flash == FlashOf(p.scene, p.flash)
           A == <<[op |-> "fps", shown |-> FpsOf(p.scene)]>>
           B == Set("flash", Code("flash", flash), flash)
           C == SetSceneMode(p.scene)
<1>1. ScenePart(p) = A \o B \o C
  BY DEF ScenePart, SetFlashMode, Asked, FlashModes
<1>2. Parted(p, B) /\ Sets(B, "flash", flash) /\ Parted(p, A)
  <2> HIDE DEF flash
  <2>1. flash = FlashOf(p.scene, p.flash) /\ flash # None /\ flash \in FlashModes
    BY DEF flash
  <2>2. QED
    BY <2>1, PartedSet, PartedFew
<1>3. Parted(p, C)
  <2> DEFINE ok == p.scene \in SceneNames
  <2>1. C = IF ok THEN Asked("scene", p.scene) ELSE Refusal
    BY DEF SetSceneMode, SceneNames
  <2>2. ok \in BOOLEAN /\ "scene" \in Shown \ {"face", "flash"}
    BY DEF Shown, Keys, Settings
  <2> HIDE DEF ok, C
  <2>3. QED
    BY <2>1, <2>2, PartedAsked
<1> HIDE DEF A, B, C, flash
<1> DEFINE D == A \o B
           E == D \o C
<1>4. Parted(p, D) /\ ElementsOf(B) \subseteq ElementsOf(D)
  BY <1>2, PartedJoin
<1> HIDE DEF D
<1>5. ElementsOf(D) \subseteq ElementsOf(E)
  BY <1>3, <1>4, PartedJoin
<1>6. ScenePart(p) = E
  BY <1>1 DEF D
<1> HIDE DEF E
<1>7. ElementsOf(E) \subseteq ElementsOf(q)
  BY <1>6, ParametersParted
<1>8. PICK e \in ElementsOf(B) : e.op = "set" /\ e.key = "flash"
  BY <1>2 DEF Sets
<1>9. e \in ElementsOf(q)
  BY <1>4, <1>5, <1>7, <1>8
<1>10. QED
  BY <1>8, <1>9 DEF Due, Setting

\* A call that begins, other than open.
LEMMA CallBegins ==
  ASSUME Domains, todo["service"] = <<>>, NEW q, todo'["service"] = q, Unmixed(q),
         \A e \in ElementsOf(q) : e.op \in Setting => Meant(e)',
         call' # "open", camera' = camera, mParameters' = mParameters,
         m_params' = m_params, unreported' = unreported,
         Reported /\ Due(q, "scene") => Due(q, "flash") \/ mParameters["flash"] = None
  PROVE  CallInv' /\ (Reported => Reported')
<1> DEFINE z == <<>>
<1>1. todo["service"] = z /\ ElementsOf(z) = {}
  BY ElementsFew
<1> HIDE DEF z
<1>2. \A k : ~Due(z, k)
  BY <1>1 DEF Due
<1>3. CallInv'
  BY DEF CallInv
<1>4. ASSUME Reported  PROVE Reported'
  <2>1. ASSUME camera # None, NEW k \in Shown \ unreported
        PROVE  Agrees(k)' \/ Due(q, k) \/ FlashLeft(q, k)'
    <3>1. Agrees(k)' <=> Agrees(k)
      BY DEF Agrees
    <3>2. Agrees(k) \/ FlashLeft(z, k)
      BY <1>1, <1>2, <1>4, <2>1 DEF Reported
    <3>3. FlashLeft(z, k) => Agrees(k) \/ Due(q, k) \/ FlashLeft(q, k)'
      BY <1>4 DEF FlashLeft, Agrees
    <3>4. QED
      BY <3>1, <3>2, <3>3
  <2>2. camera' # None => \A k \in (Shown \ unreported)' :
          Agrees(k)' \/ Due(q, k) \/ FlashLeft(q, k)'
    BY <2>1
  <2>3. \A k : (FlashLeft(todo["service"], k)' <=> FlashLeft(q, k)')
    BY DEF FlashLeft
  <2>4. QED
    BY <1>4, <2>2, <2>3 DEF Reported
<1>5. QED
  BY <1>3, <1>4

\* The names of flash modes the client asks for are names the code knows.
FlashModesKnown ==
  \A c \in Clients : \A r \in c.changes : "flash" \in DOMAIN r => r["flash"] \in FlashModes

\* What a call with parameters is to show.
LEMMA ParametersWanted ==
  ASSUME StreamInv, CallInv, Domains, client \in Clients, NEW r \in client.changes,
         SetParameters(r)
  PROVE  /\ CallInv' /\ Accepted'
         /\ FlashModesKnown => (Reported => Reported')
<1>1. PICK p : p = [k \in Keys |-> IF k \in DOMAIN r THEN r[k] ELSE mParameters[k]]
  OBVIOUS
<1>2. /\ DOMAIN r \subseteq Keys /\ \A k \in DOMAIN r : r[k] # None
      /\ None \notin {"auto", "off"}
  BY ClientsAssumption
<1>3. /\ \A k \in DOMAIN r : p[k] = r[k]
      /\ \A k \in Keys \ DOMAIN r : p[k] = mParameters[k]
  BY <1>1, <1>2
<1>4. PICK q : q = Parameters(camera, p)
  OBVIOUS
<1>5. /\ todo["service"] = <<>> /\ camera # None /\ camera' = camera
      /\ m_params' = m_params /\ mParameters' = mParameters /\ unreported' = unreported
      /\ call' = "setParameters" /\ asked' = r /\ "face" \notin DOMAIN r
      /\ todo'["service"] = q
  <2>1. "service" \in Threads
    BY DEF Threads
  <2>2. Do("service", q)
    BY <1>1, <1>4 DEF SetParameters
  <2>3. todo'["service"] = q
    BY <2>1, <2>2, Sequences DEF Do
  <2>4. QED
    BY <2>3 DEF SetParameters, Opened, Calling, Free, settingVars
<1>6. Parted(p, q)
  BY <1>4, ParametersParted
<1>7. Unmixed(q)
  BY <1>6 DEF Parted, PartOf, Unmixed, OfCall
<1>8. "scene" \in Keys /\ "flash" \in Keys
  BY DEF Keys
<1>9. \A e \in ElementsOf(q) : e.op \in Setting => Meant(e)'
  <2>1. ASSUME NEW e \in ElementsOf(q), e.op \in Setting  PROVE Meant(e)'
    <3>1. PartOf(p, e) /\ e.op = "set"
      BY <1>6, <2>1 DEF Parted, PartOf, Setting
    <3>2. "blur" \notin Shown /\ "antiShake" \notin Shown /\ "flash" \in Shown
      BY DEF Shown, Settings, Keys
    <3>3. QED
      BY <1>5, <3>1, <3>2 DEF PartOf, Meant
  <2>2. QED
    BY <2>1
<1>10. Due(q, "scene") => p.scene # None
  BY <1>6 DEF Due, Parted, PartOf, Setting
<1>11. ASSUME FlashModesKnown, Reported, Due(q, "scene")
       PROVE  Due(q, "flash") \/ mParameters["flash"] = None
  <2>1. SUFFICES ASSUME mParameters["flash"] # None  PROVE Due(q, "flash")
    OBVIOUS
  <2>2. p["flash"] \in FlashModes /\ p["flash"] # None
    <3>1. "flash" \in DOMAIN r => r["flash"] \in FlashModes
      BY <1>11 DEF FlashModesKnown
    <3>2. mParameters["flash"] \in FlashModes
      BY <1>11, <2>1 DEF Reported
    <3>3. QED
      BY <1>2, <1>3, <1>8, <2>1, <3>1, <3>2
  <2>3. FlashOf(p.scene, p.flash) \in FlashModes /\ FlashOf(p.scene, p.flash) # None
    BY <1>2, <2>2 DEF FlashOf, FlashModes
  <2>4. QED
    BY <1>4, <1>10, <1>11, <2>3, SceneFlash
<1>12. CallInv' /\ (FlashModesKnown => (Reported => Reported'))
  <2>1. CallInv'
    BY <1>5, <1>7, <1>9 DEF CallInv
  <2>2. ASSUME FlashModesKnown, Reported  PROVE Reported'
    BY <1>5, <1>7, <1>9, <1>11, <2>2, CallBegins
  <2>3. QED
    BY <2>1, <2>2
<1>13. ASSUME ~Refuses(q)  PROVE AcceptedBy(q)'
  <2>1. /\ \A k \in Shown \ {"face", "flash"} :
             p[k] = None \/ Ignored(camera, k, p[k]) \/ Sets(q, k, p[k])
        /\ p.scene # None =>
             /\ p.scene \in SceneNames /\ \E e \in ElementsOf(q) : e.op = "fps"
             /\ \/ FlashOf(p.scene, p.flash) = None
                \/ Sets(q, "flash", FlashOf(p.scene, p.flash))
    BY <1>4, <1>13, AcceptedSets
  <2>2. ASSUME NEW k \in Shown \ {"face", "flash"}, p[k] # None, Sets(q, k, p[k])
        PROVE  DoneOrDue(q, k, p[k])'
    BY <1>6, <2>2 DEF DoneOrDue, Sets, Parted, PartOf, Setting
  <2>3. ASSUME NEW k \in Wanted'  PROVE Ignored(camera, k, r[k]) \/ DoneOrDue(q, k, r[k])'
    <3>1. k \in DOMAIN r /\ k \in Shown \ {"face", "flash"}
      BY <1>2, <1>5, <2>3 DEF Wanted, Shown, Settings
    <3>2. p[k] = r[k] /\ p[k] # None
      BY <1>2, <1>3, <3>1
    <3>3. QED
      BY <2>1, <2>2, <3>1, <3>2
  <2>4. CASE p.scene = None
    <3>1. mParameters["scene"] = None
      BY <1>2, <1>3, <1>8, <2>4
    <3>2. QED
      BY <1>2, <1>5, <1>10, <2>3, <2>4, <3>1 DEF AcceptedBy
  <2>5. CASE p.scene # None
    <3>1. "scene" \in Shown \ {"face", "flash"} /\ ~Ignored(camera, "scene", p.scene)
      BY DEF Shown, Settings, Keys, Ignored
    <3>2. DoneOrDue(q, "scene", p.scene)'
      BY <2>1, <2>2, <2>5, <3>1
    <3>3. \A e \in ElementsOf(q) : e.op = "fps" => e.shown = FpsOf(p.scene)
      BY <1>6 DEF Parted, PartOf
    <3>4. ASSUME NEW v, v = FlashOf(p.scene, p.flash), v # None
          PROVE  DoneOrDue(q, "flash", v)'
      <4>1. Sets(q, "flash", v)
        BY <2>1, <2>5, <3>4
      <4>2. \A e \in ElementsOf(q) :
              e.op \in Setting /\ e.key = "flash" /\ e.shown # None => e.shown = v
        BY <1>6, <3>4 DEF Parted, PartOf, Setting
      <4>3. QED
        BY <3>4, <4>1, <4>2 DEF DoneOrDue, Sets, Setting
    <3>5. p.scene # "auto" => DoneOrDue(q, "flash", FlashOf(p.scene, None))'
      <4>1. p.scene # "auto" => /\ FlashOf(p.scene, p.flash) = FlashOf(p.scene, None)
                                /\ FlashOf(p.scene, p.flash) # None
        BY <1>2 DEF FlashOf
      <4>2. QED
        BY <3>4, <4>1
    <3>6. p.scene = "auto" /\ "flash" \in DOMAIN r => DoneOrDue(q, "flash", r["flash"])'
      <4>1. p.scene = "auto" => FlashOf(p.scene, p.flash) = p.flash
        BY DEF FlashOf
      <4>2. "flash" \in DOMAIN r => p.flash = r["flash"] /\ r["flash"] # None
        BY <1>2, <1>3
      <4>3. QED
        BY <3>4, <4>1, <4>2
    <3>7. PICK s \in SceneNames : s = p.scene
      BY <2>1, <2>5
    <3>8. InScene(q, s)'
      BY <1>5, <2>1, <2>5, <3>2, <3>3, <3>5, <3>6, <3>7 DEF InScene
    <3>9. QED
      BY <1>2, <1>5, <2>3, <3>7, <3>8 DEF AcceptedBy
  <2>6. QED
    BY <2>4, <2>5
<1>14. Accepted'
  BY <1>5, <1>13 DEF Accepted, AcceptedBy, Refuses, DoneOrDue, InScene, Due
<1>15. QED
  BY <1>12, <1>14
\* The defaults a key has, if it has one, are being set, or left to the first scene.
LEMMA DefaultsDue ==
  ASSUME NEW c, NEW p, p = Defaults(c), NEW q, q = Parameters(c, p)
  PROVE  /\ \A k \in Shown : \/ p[k] = None \/ Due(q, k) \/ k = "flash"
                             \/ k = "face" /\ p[k] = "off"
         /\ p["scene"] = None /\ p["flash"] \in FlashModes \cup {None}
<1>1. /\ p["zoom"] \in {0, None} /\ p["brightness"] = 0 /\ p["contrast"] = 0
      /\ p["whiteBalance"] = "auto" /\ p["focus"] = "auto" /\ p["iso"] \in {"auto", "100"}
      /\ p["flash"] \in {"off", None} /\ p["scene"] = None /\ p["effect"] = "none"
      /\ p["face"] = "off" /\ (c = "back" \/ p["zoom"] = None)
  BY DEF Defaults, Keys
<1>2. \A r, k, v : ElementsOf(r) \subseteq ElementsOf(q) /\ Sets(r, k, v) => Due(q, k)
  BY DEF Sets, Due, Setting
<1>3. /\ ElementsOf(ZoomPart(c, p)) \subseteq ElementsOf(q)
      /\ ElementsOf(BrightnessPart(p)) \subseteq ElementsOf(q)
      /\ ElementsOf(ContrastPart(p)) \subseteq ElementsOf(q)
      /\ ElementsOf(WhiteBalancePart(p)) \subseteq ElementsOf(q)
      /\ ElementsOf(ISOPart(p)) \subseteq ElementsOf(q)
      /\ ElementsOf(FocusPart(p)) \subseteq ElementsOf(q)
      /\ ElementsOf(EffectPart(p)) \subseteq ElementsOf(q)
  BY ParametersParted
<1>4. ASSUME NEW k, NEW v  PROVE Sets(Asked(k, v), k, v)
  <2> DEFINE o == [op |-> "set", key |-> k, value |-> Code(k, v), shown |-> v]
  <2>1. o.op = "set" /\ o.key = k /\ o.shown = v /\ Asked(k, v) = <<o>>
    BY DEF Asked, Set
  <2> HIDE DEF o
  <2>2. ElementsOf(<<o>>) = {o}
    BY ElementsFew
  <2>3. Sets(<<o>>, k, v)
    BY <2>1, <2>2 DEF Sets
  <2>4. QED
    BY <2>1, <2>3
<1>5. p["zoom"] = None \/ Due(q, "zoom")
  <2>1. c = "back" /\ p["zoom"] = 0 => ZoomPart(c, p) = Asked("zoom", p["zoom"])
    BY DEF ZoomPart, SetZoom, MAX_ZOOM, MaxZoom
  <2>2. QED
    BY <1>1, <1>2, <1>3, <1>4, <2>1
<1>6. Due(q, "brightness")
  <2>1. BrightnessPart(p) = Asked("brightness", p["brightness"])
    BY <1>1 DEF BrightnessPart, SetBrightness, Code, EV_DEFAULT
  <2>2. QED
    BY <1>2, <1>3, <1>4, <2>1
<1>7. Due(q, "contrast")
  <2>1. ContrastPart(p) = Asked("contrast", p["contrast"])
    BY <1>1 DEF ContrastPart, SetContrast
  <2>2. QED
    BY <1>2, <1>3, <1>4, <2>1
<1>8. "auto" # None
  BY ClientsAssumption
<1>9. Due(q, "whiteBalance")
  <2>1. WhiteBalancePart(p) = Asked("whiteBalance", p["whiteBalance"])
    BY <1>1, <1>8 DEF WhiteBalancePart, SetWhiteBalance
  <2>2. QED
    BY <1>2, <1>3, <1>4, <2>1
<1>10. Due(q, "focus")
  <2>1. FocusPart(p) = Asked("focus", p["focus"])
    BY <1>1, <1>8 DEF FocusPart, SetFocusMode
  <2>2. QED
    BY <1>2, <1>3, <1>4, <2>1
<1>11. p["iso"] = None \/ Due(q, "iso")
  <2>1. p["iso"] # None => ISOPart(p) = Asked("iso", p["iso"])
    BY <1>1 DEF ISOPart, SetISO
  <2>2. QED
    BY <1>2, <1>3, <1>4, <2>1
<1>12. p["effect"] = None \/ Due(q, "effect")
  <2>1. p["effect"] # None => EffectPart(p) = Asked("effect", p["effect"])
    BY <1>1 DEF EffectPart, SetImageEffect
  <2>2. QED
    BY <1>2, <1>3, <1>4, <2>1
<1>13. Shown \subseteq {"zoom", "brightness", "contrast", "whiteBalance", "iso", "focus", "flash",
                        "scene", "effect", "face"}
  BY DEF Shown, Keys, Settings
<1>14. \A k \in Shown : \/ p[k] = None \/ Due(q, k) \/ k = "flash"
                        \/ k = "face" /\ p[k] = "off"
  BY <1>1, <1>5, <1>6, <1>7, <1>9, <1>10, <1>11, <1>12, <1>13
<1>15. p["flash"] \in FlashModes \cup {None}
  BY <1>1 DEF FlashModes
<1>16. QED
  BY <1>1, <1>14, <1>15

\* A camera is opened with its defaults.
LEMMA OpenWanted ==
  ASSUME StreamInv, NEW c, Open(c)
  PROVE  CallInv' /\ Reported' /\ Accepted'
<1>1. PICK p : p = Defaults(c)
  OBVIOUS
<1>2. PICK q : q = Parameters(c, p)
  OBVIOUS
<1>3. PICK d : d = Initial(c)
  OBVIOUS
<1>4. PICK w : w = q \o d
  OBVIOUS
<1>5. /\ mParameters' = p /\ camera' = c /\ call' = "open" /\ todo'["service"] = w
      /\ m_params' = m_params /\ unreported' = unreported
  <2>1. "service" \in Threads
    BY DEF Threads
  <2>2. Do("service", w)
    BY <1>1, <1>2, <1>3, <1>4 DEF Open
  <2>3. todo'["service"] = w
    BY <2>1, <2>2, Sequences DEF Do
  <2>4. QED
    BY <1>1, <2>3 DEF Open, Calling
<1>6. Parted(p, q)
  BY <1>2, ParametersParted
<1>7. /\ IsSequence(d)
      /\ \A e \in ElementsOf(d) :
           /\ e.op = "set" /\ e.shown = None
           /\ e.key \in Shown => \/ e.key = "iso" /\ e.value = "auto"
                                 \/ e.key = "contrast" /\ e.value = CONTRAST_DEFAULT
  BY <1>3, InitialSets
<1>8. ElementsOf(w) = ElementsOf(q) \cup ElementsOf(d)
  BY <1>4, <1>6, <1>7, ElementsJoin DEF Parted
<1>9. /\ \A k \in Shown : \/ p[k] = None \/ Due(q, k) \/ k = "flash"
                          \/ k = "face" /\ p[k] = "off"
      /\ p["scene"] = None /\ p["flash"] \in FlashModes \cup {None}
  BY <1>1, <1>2, DefaultsDue
<1>10. CallInv'
  <2>1. Unmixed(w)
    BY <1>6, <1>7, <1>8 DEF Unmixed, OfCall, Parted, PartOf
  <2>2. ASSUME NEW e \in ElementsOf(q), e.op \in Setting  PROVE Meant(e)'
    <3>1. PartOf(p, e) /\ e.op = "set"
      BY <1>6, <2>2 DEF Parted, PartOf, Setting
    <3>2. \/ e.key \in {"antiShake", "blur"} /\ e.shown = None
          \/ /\ e.key \in Shown \ {"face", "flash"} /\ e.shown # None
             /\ e.shown = p[e.key] /\ e.value = Code(e.key, e.shown)
      BY <1>9, <3>1 DEF PartOf
    <3>3. "blur" \notin Shown /\ "antiShake" \notin Shown
      BY DEF Shown, Settings, Keys
    <3>4. QED
      BY <1>1, <1>5, <3>2, <3>3 DEF Meant
  <2>3. ASSUME NEW e \in ElementsOf(d)  PROVE Meant(e)'
    BY <1>5, <1>7, <2>3 DEF Meant
  <2>4. \A e \in ElementsOf(w) : e.op \in Setting => Meant(e)'
    BY <1>8, <2>2, <2>3
  <2>5. QED
    BY <1>5, <2>1, <2>4 DEF CallInv
<1>11. Reported'
  <2>1. \A e \in ElementsOf(w) : e.op # "fps"
    BY <1>6, <1>7, <1>8, <1>9 DEF Parted, PartOf
  <2>2. \A k \in Keys : p[k] = Defaults(c)[k]
    BY <1>1
  <2>3. ~Due(w, "scene")
    <3>1. ASSUME NEW e \in ElementsOf(q)  PROVE ~(e.op \in Setting /\ e.key = "scene")
      BY <1>6, <1>9, <3>1 DEF Parted, PartOf, Setting
    <3>2. "scene" \in Shown
      BY DEF Shown, Settings, Keys
    <3>3. ASSUME NEW e \in ElementsOf(d)  PROVE e.key # "scene"
      BY <1>7, <3>2, <3>3
    <3>4. QED
      BY <1>8, <3>1, <3>3 DEF Due
  <2>4. \A k : Due(q, k) => Due(w, k)
    BY <1>8 DEF Due
  <2>5. ASSUME NEW k \in Shown  PROVE Agrees(k)' \/ Due(w, k) \/ FlashLeft(w, k)'
    BY <1>5, <1>9, <2>3, <2>4 DEF Agrees, FlashLeft
  <2>6. \A k : (FlashLeft(todo["service"], k)' <=> FlashLeft(w, k)')
    BY <1>5 DEF FlashLeft
  <2>7. QED
    BY <1>5, <1>9, <2>1, <2>2, <2>5, <2>6 DEF Reported
<1>12. Accepted'
  BY <1>5 DEF Accepted
<1>13. QED
  BY <1>10, <1>11, <1>12

\* The other calls.
LEMMA ServiceCallsKeep ==
  ASSUME StreamInv, SensorInv, CallInv, ServiceStep, client \in Clients
  PROVE  /\ CallInv' /\ (Accepted => Accepted')
         /\ FlashModesKnown => (Reported => Reported')
<1>1. "service" \in Threads /\ Domains
  BY DEF Threads, SensorInv
<1>2. ASSUME NEW q, todo["service"] = <<>>, todo'["service"] = q, Unmixed(q),
             \A e \in ElementsOf(q) : e.op \in Setting => Meant(e)' /\ e.key # "scene",
             call' \notin {"open", "setParameters"}, camera' = camera,
             mParameters' = mParameters, m_params' = m_params, unreported' = unreported
      PROVE  CallInv' /\ Accepted' /\ (Reported => Reported')
  <2>1. ~Due(q, "scene")
    BY <1>2 DEF Due
  <2>2. Accepted'
    BY <1>2 DEF Accepted
  <2>3. \A e \in ElementsOf(q) : e.op \in Setting => Meant(e)'
    BY <1>2
  <2>4. QED
    BY <1>1, <1>2, <2>1, <2>2, <2>3, CallBegins
<1>3. ASSUME NEW q, todo["service"] = <<>>, todo'["service"] = q,
             \/ \A e \in ElementsOf(q) : e.op \in OfStart
             \/ \A e \in ElementsOf(q) : e.op = "halt",
             call' \notin {"open", "setParameters"}, camera' = camera,
             mParameters' = mParameters, m_params' = m_params, unreported' = unreported
      PROVE  CallInv' /\ Accepted' /\ (Reported => Reported')
  <2>1. Unmixed(q) /\ \A e \in ElementsOf(q) : e.op \notin Setting
    BY <1>3 DEF Unmixed, OfStart, OfCall, Setting
  <2>2. QED
    BY <1>2, <1>3, <2>1
<1>4. \A q : Do("service", q) => todo'["service"] = q
  BY <1>1, Sequences DEF Do
<1>5. ASSUME NEW z, z = <<>>  PROVE ElementsOf(z) = {}
  BY <1>5, ElementsFew
<1>6. ASSUME todo["service"] = <<>>, todo'["service"] = <<>>,
             call' \notin {"open", "setParameters"}, camera' = camera,
             mParameters' = mParameters, m_params' = m_params, unreported' = unreported
      PROVE  CallInv' /\ Accepted' /\ (Reported => Reported')
  <2>1. PICK z : z = <<>>
    OBVIOUS
  <2>2. ElementsOf(z) = {} /\ todo["service"] = <<>> /\ todo'["service"] = z
    BY <1>5, <1>6, <2>1
  <2>3. QED
    BY <1>3, <1>6, <2>2
<1>7. ASSUME NEW v, v # None
      PROVE  \E o : /\ Set("face", v, v) = <<o>> /\ o.op = "set" /\ o.key = "face"
                    /\ o.value = v /\ o.shown = v /\ ElementsOf(<<o>>) = {o}
  <2> DEFINE o == [op |-> "set", key |-> "face", value |-> v, shown |-> v]
  <2>1. /\ Set("face", v, v) = <<o>> /\ o.op = "set" /\ o.key = "face"
        /\ o.value = v /\ o.shown = v
    BY DEF Set
  <2> HIDE DEF o
  <2>2. ElementsOf(<<o>>) = {o}
    BY ElementsFew
  <2>3. QED
    BY <2>1, <2>2
<1>8. ASSUME NEW e, NEW v, v # None, e.op = "set", e.key = "face", e.value = v, e.shown = v,
             call' # "open"
      PROVE  Meant(e)'
  <2>1. "face" \in Shown /\ Code("face", v) = v
    BY DEF Shown, Keys, Settings, Code
  <2>2. QED
    BY <1>8, <2>1 DEF Meant
<1>9. CASE \E c \in client.cameras : Open(c)
  BY <1>9, OpenWanted
<1>10. CASE \E r \in client.changes : SetParameters(r)
  BY <1>1, <1>10, ParametersWanted
<1>11. CASE \E r \in client.changes : SendCommand(r)
  <2>1. PICK r \in client.changes : SendCommand(r)
    BY <1>11
  <2>2. /\ todo["service"] = <<>> /\ camera' = camera /\ call' = "sendCommand"
        /\ mParameters' = mParameters /\ m_params' = m_params /\ unreported' = unreported
        /\ \/ todo' = todo
           \/ Do("service", <<>>)
           \/ Do("service", Set("face", r.face, r.face))
    BY <2>1 DEF SendCommand, Calling, Free, settingVars
  <2>3. r.face # None
    BY <2>1, ClientsAssumption DEF SendCommand
  <2>4. CASE todo' = todo \/ Do("service", <<>>)
    <3>1. todo'["service"] = <<>>
      BY <1>4, <2>2, <2>4
    <3>2. QED
      BY <1>6, <2>2, <3>1
  <2>5. CASE Do("service", Set("face", r.face, r.face))
    <3>1. PICK o : /\ Set("face", r.face, r.face) = <<o>> /\ o.op = "set" /\ o.key = "face"
                   /\ o.value = r.face /\ o.shown = r.face /\ ElementsOf(<<o>>) = {o}
      BY <1>7, <2>3
    <3>2. PICK q : q = <<o>>
      OBVIOUS
    <3>3. todo'["service"] = q /\ ElementsOf(q) = {o}
      BY <1>4, <2>5, <3>1, <3>2
    <3>4. Unmixed(q)
      BY <3>1, <3>3 DEF Unmixed, OfCall
    <3>5. Meant(o)' /\ o.key # "scene"
      BY <1>8, <2>2, <2>3, <3>1
    <3>6. QED
      BY <1>2, <2>2, <3>3, <3>4, <3>5
  <2>6. QED
    BY <2>2, <2>4, <2>5
<1>12. CASE StartPreview
  <2>1. PICK q : q = Start(camera) \o Wake
    OBVIOUS
  <2>2. /\ todo["service"] = <<>> /\ camera' = camera /\ call' = "startPreview"
        /\ mParameters' = mParameters /\ m_params' = m_params /\ unreported' = unreported
        /\ todo' = todo \/ Do("service", q)
    BY <1>12, <2>1 DEF StartPreview, Calling, Free, settingVars
  <2>3. CASE todo' = todo
    <3>1. todo'["service"] = <<>>
      BY <2>2, <2>3
    <3>2. QED
      BY <1>6, <2>2, <3>1
  <2>4. CASE Do("service", q)
    <3>1. \A e \in ElementsOf(q) : e.op \in OpsOf(q)
      BY DEF ElementsOf, OpsOf
    <3>2. OpsOf(q) \subseteq OfStart
      BY <2>1, StartSends DEF OfStart
    <3>3. todo'["service"] = q /\ \A e \in ElementsOf(q) : e.op \in OfStart
      BY <1>4, <2>4, <3>1, <3>2
    <3>4. QED
      BY <1>3, <2>2, <3>3
  <2>5. QED
    BY <2>2, <2>3, <2>4
<1>13. CASE StopPreview
  <2>1. PICK x : x = [op |-> "halt"]
    OBVIOUS
  <2>2. PICK o : /\ Set("face", "off", "off") = <<o>> /\ o.op = "set" /\ o.key = "face"
                 /\ o.value = "off" /\ o.shown = "off" /\ ElementsOf(<<o>>) = {o}
    BY <1>7, ClientsAssumption
  <2>3. PICK q : q = <<o>> \o <<x>>
    OBVIOUS
  <2>4. PICK r : r = <<>> \o <<x>>
    OBVIOUS
  <2>5. /\ todo["service"] = <<>> /\ camera' = camera /\ call' = "stopPreview"
        /\ mParameters' = mParameters /\ m_params' = m_params /\ unreported' = unreported
        /\ \/ Do("service", <<>>)
           \/ Do("service", q)
           \/ Do("service", r)
    BY <1>13, <2>1, <2>2, <2>3, <2>4 DEF StopPreview, Calling, Free, settingVars
  <2>6. /\ x.op = "halt" /\ IsSequence(<<x>>) /\ ElementsOf(<<x>>) = {x}
        /\ IsSequence(<<o>>) /\ IsSequence(<<>>) /\ ElementsOf(<<>>) = {}
    BY <2>1, ElementsFew
  <2>7. ElementsOf(q) = {o, x} /\ ElementsOf(r) = {x}
    <3>1. ElementsOf(q) = ElementsOf(<<o>>) \cup ElementsOf(<<x>>)
      BY <2>3, <2>6, ElementsJoin
    <3>2. ElementsOf(r) = ElementsOf(<<>>) \cup ElementsOf(<<x>>)
      BY <2>4, <2>6, ElementsJoin
    <3>3. QED
      BY <2>2, <2>6, <3>1, <3>2
  <2>8. CASE Do("service", <<>>)
    <3>1. todo'["service"] = <<>>
      BY <1>4, <2>8
    <3>2. QED
      BY <1>6, <2>5, <3>1
  <2>9. CASE Do("service", r)
    <3>1. todo'["service"] = r /\ \A e \in ElementsOf(r) : e.op = "halt"
      BY <1>4, <2>6, <2>7, <2>9
    <3>2. QED
      BY <1>3, <2>5, <3>1
  <2>10. CASE Do("service", q)
    <3>1. todo'["service"] = q
      BY <1>4, <2>10
    <3>2. Unmixed(q)
      BY <2>2, <2>6, <2>7 DEF Unmixed, OfCall
    <3>3. Meant(o)' /\ o.key # "scene"
      BY <1>8, <2>2, <2>5, ClientsAssumption
    <3>4. \A e \in ElementsOf(q) : e.op \in Setting => Meant(e)' /\ e.key # "scene"
      BY <2>6, <2>7, <3>3 DEF Setting
    <3>5. QED
      BY <1>2, <2>5, <3>1, <3>2, <3>4
  <2>11. QED
    BY <2>5, <2>8, <2>9, <2>10
<1>14. CASE Halt
  BY <1>14, ServiceStepsKeep DEF ParametersKept
<1>15. CASE Release
  <2>1. /\ todo["service"] = <<>> /\ camera' = camera /\ call' = "release"
        /\ mParameters' = mParameters /\ m_params' = m_params /\ unreported' = unreported
        /\ todo' = todo
    BY <1>15 DEF Release, Calling, Free, settingVars
  <2>2. todo'["service"] = <<>>
    BY <2>1
  <2>3. QED
    BY <1>6, <2>1, <2>2
<1>16. CASE Close
  <2>1. /\ todo' = todo /\ camera' = None /\ call' = call /\ asked' = asked /\ ret' = ret
        /\ mParameters' = mParameters /\ m_params' = m_params /\ unreported' = unreported
        /\ todo["service"] = <<>>
    BY <1>16 DEF Close, Free
  <2>2. PICK z : z = todo["service"]
    OBVIOUS
  <2>3. todo'["service"] = z /\ ElementsOf(z) = {}
    BY <1>5, <2>1, <2>2
  <2>4. CallInv'
    <3>1. Unmixed(z)
      BY <2>3 DEF Unmixed
    <3>2. QED
      BY <2>3, <3>1 DEF CallInv
  <2>5. Reported => Reported'
    BY <2>1, <2>2, <2>3 DEF Reported
  <2>6. Accepted => Accepted'
    BY <2>1 DEF Accepted
  <2>7. QED
    BY <2>4, <2>5, <2>6
<1>17. QED
  BY <1>9, <1>10, <1>11, <1>12, <1>13, <1>14, <1>15, <1>16 DEF ServiceStep
-----------------------------------------------------------------------------
(* ReportedStored and OkMeansDone. *)
LEMMA ParametersInit == Init => CallInv /\ NoRates /\ Reported /\ Accepted
<1> SUFFICES ASSUME Init  PROVE CallInv /\ NoRates /\ Reported /\ Accepted
  OBVIOUS
<1>1. PICK z : z = <<>>
  OBVIOUS
<1>2. todo["service"] = z /\ todo["preview"] = z /\ ElementsOf(z) = {}
  BY <1>1, ElementsFew DEF Init, Threads
<1>3. CallInv /\ NoRates
  <2>1. Unmixed(z)
    BY <1>2 DEF Unmixed
  <2>2. QED
    BY <1>2, <2>1 DEF CallInv, NoRates
<1>4. mParameters["flash"] = None /\ call = "none" /\ camera = None
  BY DEF Init, Keys
<1>5. Reported /\ Accepted
  BY <1>4 DEF Reported, Accepted
<1>6. QED
  BY <1>3, <1>5

\* Every step keeps them; Reported for known flash modes only.
LEMMA ParametersStep ==
  ASSUME StreamInv, SensorInv, CallInv, NoRates, client \in Clients, [Next]_vars
  PROVE  /\ CallInv' /\ NoRates' /\ (Accepted => Accepted')
         /\ FlashModesKnown => (Reported => Reported')
<1>1. "service" \in Threads /\ "preview" \in Threads
  BY DEF Threads
<1>2. CASE Setter("preview") \/ ParameterStep("preview") \/ StartStep("preview")
             \/ StopStep("preview") \/ PreviewStep
  BY <1>2, PreviewKeepsParameters, RatesKept DEF ParametersKept
<1>3. CASE Setter("service") \/ ParameterStep("service") \/ StartStep("service")
             \/ StopStep("service") \/ ServiceStep
  <2>1. \A q : Do("service", q) => todo'["preview"] = todo["preview"]
    BY <1>1, Sequences DEF Do
  <2>2. todo'["preview"] = todo["preview"]
    <3>1. CASE Setter("service")
      BY <2>1, <3>1 DEF Setter, Same, Store, Check, Tell, TellRefused, Displace,
         DisplaceRefused, Done
    <3>2. CASE ParameterStep("service") \/ StopStep("service")
      BY <2>1, <3>2 DEF ParameterStep, Refuse, ShowFps, BatchReflection, StopStep,
         BeginStop, StreamOff, StreamOffFails, SetStopped, Done
    <3>3. CASE StartStep("service")
      BY <2>1, <3>3 DEF StartStep, AlreadyStarted, RequestBuffers, BuffersRefused,
         SendSettings, StreamOn, SetStarted, FirstFrame, StartFails, WakePreview, Done
    <3>4. CASE ServiceStep
      BY <2>1, <3>4 DEF ServiceStep, Open, SetParameters, SendCommand, StartPreview,
         StopPreview, Halt, Release, Close, Done
    <3>5. QED
      BY <1>3, <3>1, <3>2, <3>3, <3>4
  <2>3. NoRates'
    BY <2>2 DEF NoRates
  <2>4. CallInv' /\ (Accepted => Accepted') /\ (FlashModesKnown => (Reported => Reported'))
    <3>1. CASE Setter("service") \/ ParameterStep("service") \/ StartStep("service")
                 \/ StopStep("service")
      BY <3>1, ServiceSetterKeeps, ServiceStepsKeep DEF ParametersKept
    <3>2. CASE ServiceStep
      BY <3>2, ServiceCallsKeep
    <3>3. QED
      BY <1>3, <3>1, <3>2
  <2>5. QED
    BY <2>3, <2>4
<1>4. CASE UNCHANGED vars
  <2>1. CallInv' /\ NoRates' /\ (Accepted => Accepted') /\ (Reported => Reported')
    BY <1>4 DEF vars, settingVars, callVars, CallInv, Meant, NoRates, Accepted, AcceptedBy,
       Wanted, DoneOrDue, InScene, Reported, Agrees, FlashLeft
  <2>2. QED
    BY <2>1
<1>5. QED
  BY <1>2, <1>3, <1>4 DEF Next, Threads

\* With nothing under way, what has been asked for is done.
LEMMA RestDone == SensorInv /\ Accepted => OkMeansDone
<1> SUFFICES ASSUME Accepted, camera # None, Free, call = "setParameters", ret = "ok"
             PROVE  /\ \A k \in DOMAIN asked \ {"fps", "flash", "antiShake"} :
                         mParameters[k] = asked[k] \/ Ignored(camera, k, asked[k])
                    /\ mParameters.scene # None =>
                         /\ mParameters.fps = FpsOf(mParameters.scene)
                         /\ "flash" \in DOMAIN asked /\ mParameters.scene = "auto" =>
                              mParameters.flash = asked["flash"]
                         /\ mParameters.scene # "auto" =>
                              mParameters.flash = FlashOf(mParameters.scene, None)
  BY DEF OkMeansDone, Opened
<1>1. PICK z : z = todo["service"]
  OBVIOUS
<1>2. ElementsOf(z) = {}
  BY <1>1, ElementsFew DEF Free
<1>3. AcceptedBy(z)
  BY <1>1, <1>2 DEF Accepted, Refuses
<1>4. \A k, v : DoneOrDue(z, k, v) => mParameters[k] = v
  BY <1>2 DEF DoneOrDue
<1>5. \A s : InScene(z, s) => /\ mParameters.scene = s /\ mParameters.fps = FpsOf(s)
                              /\ s # "auto" => mParameters.flash = FlashOf(s, None)
                              /\ s = "auto" /\ "flash" \in DOMAIN asked =>
                                   mParameters.flash = asked["flash"]
  BY <1>2, <1>4 DEF InScene
<1>6. QED
  BY <1>3, <1>4, <1>5 DEF AcceptedBy, Wanted

(* OkMeansDone in every reachable state, for every client and any number of failing
   calls: the parameters that setParameters has answered with OK show each zoom,
   brightness, contrast, white balance, ISO, focus mode, scene and effect asked for,
   but for numbers beyond the limits of the open camera; and when they name a scene,
   the scene's frame rates and flash.  It says nothing of frame rates and flash while no
   scene is named (SecCameraHWInterface.cpp 1558-1563, 1603-1687: both are passed over
   with OK), nothing of antiShake, and not that the sensor took the value: one that it
   refused is shown when it is asked for again (SecCamera.cpp 1823). *)
THEOREM OkAlwaysMeansDone == Spec => []OkMeansDone
<1> DEFINE Kept == StreamInv /\ SensorInv /\ CallInv /\ NoRates /\ client \in Clients
<1>1. Init => Kept /\ Accepted
  BY StreamInvInit, SensorInvInit, ParametersInit DEF Init
<1>2. Kept /\ Accepted /\ [Next]_vars => Kept' /\ Accepted'
  BY StreamInvStep, SensorInvStep, ParametersStep
<1>3. Kept /\ Accepted => OkMeansDone
  BY RestDone
<1> HIDE DEF Kept
<1>4. QED
  BY <1>1, <1>2, <1>3, PTL DEF Spec

\* With no call under way, what the client reads is what the fields have.
LEMMA RestStored == Reported => ReportedStored
<1> SUFFICES ASSUME Reported, Opened, Free,
                    NEW k \in (Keys \cap Settings) \ (unreported \cup {"antiShake"}),
                    mParameters[k] # None
             PROVE  \/ m_params[k] = Code(k, mParameters[k])
                    \/ k = "contrast" /\ mParameters[k] = 0 /\ m_params[k] = CONTRAST_DEFAULT
                    \/ k = "iso" /\ mParameters[k] = "100" /\ m_params[k] = "auto"
                    \/ k = "flash" /\ (mParameters.scene = None \/ m_params[k] = "off")
                    \/ k = "face" /\ mParameters[k] = "off"
  BY DEF ReportedStored
<1>1. PICK z : z = todo["service"]
  OBVIOUS
<1>2. ElementsOf(z) = {}
  BY <1>1, ElementsFew DEF Free
<1>3. ~Due(z, k)
  BY <1>2 DEF Due
<1>4. k \in Shown \ unreported /\ camera # None
  BY DEF Shown, Opened
<1>5. Agrees(k) \/ FlashLeft(z, k)
  BY <1>1, <1>3, <1>4 DEF Reported
<1>6. QED
  BY <1>5 DEF Agrees, FlashLeft

\* ReportedStored in every reachable state, for clients that ask for flash modes
\* the setter knows: what the client reads is what SecCamera keeps, with the
\* exceptions that ReportedStored names.
THEOREM ReportedAlwaysStored == ASSUME FlashModesKnown PROVE Spec => []ReportedStored
<1> DEFINE Kept == StreamInv /\ SensorInv /\ CallInv /\ NoRates /\ client \in Clients
<1>1. Init => Kept /\ Reported
  BY StreamInvInit, SensorInvInit, ParametersInit DEF Init
<1>2. Kept /\ Reported /\ [Next]_vars => Kept' /\ Reported'
  BY FlashModesKnown, StreamInvStep, SensorInvStep, ParametersStep
<1>3. Kept /\ Reported => ReportedStored
  BY RestStored
<1> HIDE DEF Kept
<1>4. QED
  BY <1>1, <1>2, <1>3, PTL DEF Spec

-----------------------------------------------------------------------------
(* The composer. *)

Handles == Layers \X {0, 1}
Rects == Places \cup {Nowhere}

WindowInfo == [rect_info : Rects, buf_index : Nat, power_state : {0, 1},
               set_win_flag : {0, 1}, layer : Layers \cup {Nowhere},
               layer_prev_buf : Handles \cup {NoBuf}]
Hardware == [pos : Rects, pan : Nat, front : (Layers \X Places) \cup {Old}, drawn : BOOLEAN]
History == [latched : 0 .. 2, panFailed : BOOLEAN, misplaced : BOOLEAN, forgotten : BOOLEAN,
            swapped : BOOLEAN, stuck : BOOLEAN, repeated : BOOLEAN]

(* What the variables hold; the layer and the rectangle of a window that has been
   given away are a layer's. *)
ComposerTyped ==
  /\ phase \in {"idle", "prepared", "blank"} /\ done \in BOOLEAN
  /\ handle \in [Layers -> {0, 1}]
  /\ win \in WindowInfo /\ lcd \in Hardware /\ ghost \in History
  /\ num_of_hwc_layer \in {0, 1} /\ num_of_fb_layer \in Nat /\ num_of_fb_layer_prev \in Nat
  /\ num_of_hwc_layer = 1 => win.layer \in Layers /\ win.rect_info \in Places

(* The buffer remembered is that of the last picture composed: the screen shows
   it until its layer latches, and the layer is back at it when it latches twice. *)
Remembered ==
  win.layer_prev_buf # NoBuf =>
    LET l == win.layer_prev_buf[1]
        b == win.layer_prev_buf[2]
    IN  /\ win.set_win_flag = 0
        /\ ghost.latched = 0 =>
             /\ handle[l] = b
             /\ \/ lcd.front = <<l, win.rect_info>> \/ win.rect_info = Nowhere
                \/ ghost.panFailed \/ ghost.repeated
        /\ ghost.latched = 1 => handle[l] = 1 - b

(* The window is where prepare has found it, unless it is to be placed. *)
InPlace ==
  win.set_win_flag = 0 =>
    lcd.pos = win.rect_info \/ win.rect_info = Nowhere \/ ghost.misplaced

(* Without a layer the window is off. *)
OffWithoutLayer == num_of_hwc_layer = 0 => win.power_state = 0 \/ ghost.stuck

(* Pixels of the framebuffer are known to the next set. *)
PixelsKnown == lcd.drawn /\ num_of_fb_layer_prev = 0 => ghost.forgotten

(* The buffer to fill next is not the one that is scanned out, but after a failed
   pan, and between the reset of buf_index and the next swap. *)
FillsAnother ==
  win.buf_index = lcd.pan => ghost.panFailed \/ (~ghost.swapped /\ win.buf_index = 0)

ComposerInv ==
  /\ ComposerTyped /\ Remembered /\ InPlace /\ OffWithoutLayer /\ PixelsKnown
  /\ FillsAnother /\ FrameShown

-----------------------------------------------------------------------------

(* A buffer's name is not the absence of one. *)
LEMMA PairIsSomething == \A a, b : <<a, b>> # <<>>
  BY SMT

(* A set of naturals has a least element. *)
LEMMA LeastElement ==
  ASSUME NEW S \in SUBSET Nat, S # {}
  PROVE  Min(S) \in S
<1>1. PICK x \in S : \A y \in S : ~ (<<y, x>> \in OpToRel(<, Nat))
  BY NatLessThanWellFounded, WFMin, Zenon
<1>2. \A y \in S : x =< y
  <2> TAKE y \in S
  <2>1. x \in Nat /\ y \in Nat
    OBVIOUS
  <2>2. ~ (y < x)
    BY <1>1, <2>1 DEF OpToRel
  <2> QED BY <2>1, <2>2
<1>3. QED
  BY <1>2 DEF Min

(* How often the layer has latched, which is counted up to two. *)
LEMMA CountsToTwo ==
  ASSUME NEW n \in 0 .. 2
  PROVE  Min({n + 1, 2}) = IF n = 0 THEN 1 ELSE 2
<1>1. {n + 1, 2} \in SUBSET Nat /\ {n + 1, 2} # {}
  OBVIOUS
<1>2. Min({n + 1, 2}) \in {n + 1, 2}
  BY <1>1, LeastElement
<1>3. CASE n = 0
  BY <1>3 DEF Min
<1>4. CASE n # 0
  <2>1. n + 1 = 2 \/ n + 1 = 3
    BY <1>4
  <2>2. 2 \in {n + 1, 2} /\ \A y \in {n + 1, 2} : 2 =< y
    BY <2>1
  <2>3. QED
    BY <1>4, <2>1, <2>2 DEF Min
<1>5. QED
  BY <1>3, <1>4

(* The number of the first layer that fits. *)
LEMMA FirstThatFits ==
  ASSUME NEW list \in Lists, {i \in DOMAIN list : list[i].frame # Nowhere} # {}
  PROVE  LET l == list[Min({i \in DOMAIN list : list[i].frame # Nowhere})]
         IN  l.layer \in Layers /\ l.frame \in Places /\ Len(list) \in Nat \ {0}
<1> DEFINE fit == {i \in DOMAIN list : list[i].frame # Nowhere}
           E == [layer : Layers, frame : Rects]
<1>1. list \in Seq(E)
  BY ComposerAssumption DEF Rects
<1>a. \A x \in E : x.layer \in Layers /\ x.frame \in Rects
  OBVIOUS
<1> HIDE DEF E
<1>2. DOMAIN list = 1 .. Len(list) /\ Len(list) \in Nat
  BY <1>1
<1>3. Min(fit) \in fit
  <2>1. fit \subseteq Nat /\ fit # {}
    BY <1>2
  <2>2. QED
    BY <2>1, LeastElement
<1> DEFINE k == Min(fit)
<1>4. k \in 1 .. Len(list) /\ list[k].frame # Nowhere
  BY <1>2, <1>3
<1> HIDE DEF k
<1>5. list[k] \in E
  BY <1>1, <1>4
<1>6. list[k].layer \in Layers /\ list[k].frame \in Places /\ Len(list) \in Nat \ {0}
  BY <1>2, <1>4, <1>5, <1>a DEF Rects
<1>7. QED
  BY <1>6 DEF k

-----------------------------------------------------------------------------
(* What the fields of the three records hold. *)
LEMMA FieldTypes ==
  ASSUME ComposerTyped
  PROVE  /\ win.rect_info \in Rects /\ win.buf_index \in Nat /\ win.power_state \in {0, 1}
         /\ win.set_win_flag \in {0, 1} /\ win.layer \in Layers \cup {Nowhere}
         /\ win.layer_prev_buf \in Handles \cup {NoBuf}
         /\ lcd.pos \in Rects /\ lcd.pan \in Nat
         /\ lcd.front \in (Layers \X Places) \cup {Old} /\ lcd.drawn \in BOOLEAN
         /\ ghost.latched \in 0 .. 2
         /\ {ghost.panFailed, ghost.misplaced, ghost.forgotten, ghost.swapped, ghost.stuck,
             ghost.repeated} \subseteq BOOLEAN
  BY DEF ComposerTyped, WindowInfo, Hardware, History

(* The process has just started. *)
LEMMA ComposerInitInv == ComposerInit => ComposerInv
<1> SUFFICES ASSUME ComposerInit PROVE ComposerInv
  OBVIOUS
<1>1. PICK full \in Places :
        /\ win = [rect_info |-> full, buf_index |-> 0, power_state |-> 0,
                  set_win_flag |-> 0, layer |-> Nowhere, layer_prev_buf |-> NoBuf]
        /\ lcd = [pos |-> full, pan |-> 0, front |-> Old, drawn |-> FALSE]
  BY DEF ComposerInit
<1>2. /\ phase = "idle" /\ done = FALSE /\ handle = [l \in Layers |-> 0]
      /\ num_of_hwc_layer = 0 /\ num_of_fb_layer = 0 /\ num_of_fb_layer_prev = 0
      /\ ghost = [latched |-> 0, panFailed |-> FALSE,
                  misplaced |-> FALSE, forgotten |-> FALSE, swapped |-> FALSE,
                  stuck |-> FALSE, repeated |-> FALSE]
  BY DEF ComposerInit
<1>3. ComposerTyped
  <2>1. win \in WindowInfo
    BY <1>1 DEF WindowInfo, Rects
  <2>2. lcd \in Hardware
    BY <1>1 DEF Hardware, Rects
  <2>3. ghost \in History
    BY <1>2 DEF History
  <2>4. phase \in {"idle", "prepared", "blank"}
    BY <1>2
  <2>5. done \in BOOLEAN
    BY <1>2
  <2>6. handle \in [Layers -> {0, 1}]
    BY <1>2
  <2>7. num_of_hwc_layer \in {0, 1} /\ num_of_fb_layer \in Nat /\ num_of_fb_layer_prev \in Nat
    BY <1>2
  <2>8. num_of_hwc_layer = 1 => win.layer \in Layers /\ win.rect_info \in Places
    BY <1>2
  <2>9. QED
    BY <2>1, <2>2, <2>3, <2>4, <2>5, <2>6, <2>7, <2>8 DEF ComposerTyped
<1>4. Remembered /\ InPlace /\ OffWithoutLayer /\ PixelsKnown /\ FillsAnother
  BY <1>1, <1>2 DEF Remembered, InPlace, OffWithoutLayer, PixelsKnown, FillsAnother, NoBuf
<1>5. FrameShown
  BY <1>1, <1>2 DEF FrameShown, Showing
<1>6. QED
  BY <1>3, <1>4, <1>5 DEF ComposerInv

(* The steps, one after the other: a layer takes its next buffer, ... *)
LEMMA LatchKeepsComposer ==
  ASSUME ComposerInv, NEW l \in Layers, Latch(l)
  PROVE  ComposerInv'
<1> USE ComposerAssumption DEF ComposerInv
<1>0. ComposerTyped /\ Remembered /\ InPlace /\ OffWithoutLayer /\ PixelsKnown /\ FillsAnother
  OBVIOUS
<1> DEFINE seen == IF win.layer_prev_buf # NoBuf /\ win.layer_prev_buf[1] = l
                   THEN Min({ghost.latched + 1, 2}) ELSE ghost.latched
           f == IF lcd.front # Old /\ lcd.front[1] = l THEN Old ELSE lcd.front
<1>e. /\ lcd' = [lcd EXCEPT !.front = f] /\ ghost' = [ghost EXCEPT !.latched = seen]
      /\ handle' = [handle EXCEPT ![l] = 1 - @] /\ done' = FALSE /\ phase' = phase
      /\ UNCHANGED <<win, num_of_hwc_layer, num_of_fb_layer, num_of_fb_layer_prev>>
  BY DEF Latch, counts
<1>s. seen \in 0 .. 2 /\ f \in (Layers \X Places) \cup {Old}
  <2>1. ghost.latched \in 0 .. 2 /\ lcd.front \in (Layers \X Places) \cup {Old}
    BY <1>0, FieldTypes
  <2>2. Min({ghost.latched + 1, 2}) = IF ghost.latched = 0 THEN 1 ELSE 2
    BY <2>1, CountsToTwo
  <2>3. QED
    BY <2>1, <2>2
<1>n. /\ win.layer_prev_buf # NoBuf /\ win.layer_prev_buf[1] = l =>
            seen = IF ghost.latched = 0 THEN 1 ELSE 2
      /\ win.layer_prev_buf = NoBuf \/ win.layer_prev_buf[1] # l => seen = ghost.latched
  BY <1>0, FieldTypes, CountsToTwo
<1>t. \A m \in Layers, r \in Places : m # l /\ lcd.front = <<m, r>> => f = <<m, r>>
  OBVIOUS
<1> HIDE DEF f, seen
<1>1. ComposerTyped'
  <2>1. lcd' \in Hardware /\ ghost' \in History
    BY <1>0, <1>e, <1>s DEF ComposerTyped, Hardware, History
  <2>2. (phase \in {"idle", "prepared", "blank"})'
    BY <1>0, <1>e DEF ComposerTyped
  <2>3. (done \in BOOLEAN)'
    BY <1>0, <1>e DEF ComposerTyped
  <2>4. (handle \in [Layers -> {0, 1}])'
    BY <1>0, <1>e DEF ComposerTyped
  <2>5. (num_of_hwc_layer \in {0, 1} /\ num_of_fb_layer \in Nat /\ num_of_fb_layer_prev \in Nat)'
    BY <1>0, <1>e DEF ComposerTyped
  <2>6. (num_of_hwc_layer = 1 => win.layer \in Layers /\ win.rect_info \in Places)'
    BY <1>0, <1>e DEF ComposerTyped
  <2>7. QED
    BY <1>0, <1>e, <2>1, <2>2, <2>3, <2>4, <2>5, <2>6 DEF ComposerTyped
<1>f. /\ lcd'.front = f /\ lcd'.pos = lcd.pos /\ lcd'.pan = lcd.pan /\ lcd'.drawn = lcd.drawn
      /\ ghost'.latched = seen /\ ghost'.panFailed = ghost.panFailed
      /\ ghost'.misplaced = ghost.misplaced /\ ghost'.forgotten = ghost.forgotten
      /\ ghost'.swapped = ghost.swapped /\ ghost'.stuck = ghost.stuck
      /\ ghost'.repeated = ghost.repeated /\ done' = FALSE
      /\ UNCHANGED <<win, num_of_hwc_layer, num_of_fb_layer, num_of_fb_layer_prev>>
  BY <1>0, <1>e DEF ComposerTyped, Hardware, History
<1>2. Remembered'
  <2> SUFFICES ASSUME win.layer_prev_buf # NoBuf  PROVE Remembered'
    BY <1>f DEF Remembered
  <2>1. PICK m \in Layers, b \in {0, 1} : win.layer_prev_buf = <<m, b>>
    BY <1>0, FieldTypes DEF Handles
  <2>2. /\ win.layer_prev_buf[1] = m /\ win.layer_prev_buf[2] = b
        /\ win'.layer_prev_buf[1] = m /\ win'.layer_prev_buf[2] = b
    BY <1>f, <2>1
  <2>3. /\ win.set_win_flag = 0
        /\ ghost.latched = 0 =>
             /\ handle[m] = b
             /\ \/ lcd.front = <<m, win.rect_info>> \/ win.rect_info = Nowhere
                \/ ghost.panFailed \/ ghost.repeated
        /\ ghost.latched = 1 => handle[m] = 1 - b
    BY <1>0, <2>2 DEF Remembered
  <2>4. handle' = [handle EXCEPT ![l] = 1 - @] /\ handle \in [Layers -> {0, 1}]
    BY <1>0, <1>e DEF ComposerTyped
  <2>5. CASE m = l
    <3>1. seen # 0 /\ (seen = 1 => handle'[m] = 1 - b)
      BY <1>n, <2>2, <2>3, <2>4, <2>5
    <3>2. QED
      BY <1>f, <2>2, <2>3, <3>1 DEF Remembered
  <2>6. CASE m # l
    <3>1. seen = ghost.latched /\ handle'[m] = handle[m]
      BY <1>n, <2>2, <2>4, <2>6
    <3>2. lcd.front = <<m, win.rect_info>> => f = <<m, win.rect_info>> \/ win.rect_info = Nowhere
      BY <1>0, <1>t, <2>6, FieldTypes DEF Rects
    <3>3. QED
      BY <1>f, <2>2, <2>3, <3>1, <3>2 DEF Remembered
  <2>7. QED
    BY <2>5, <2>6
<1>3. InPlace'
  BY <1>0, <1>f, FieldTypes DEF InPlace
<1>4. OffWithoutLayer'
  BY <1>0, <1>f, FieldTypes DEF OffWithoutLayer
<1>5. PixelsKnown'
  BY <1>0, <1>f, FieldTypes DEF PixelsKnown
<1>6. FillsAnother'
  BY <1>0, <1>f, FieldTypes DEF FillsAnother
<1>7. FrameShown'
  BY <1>0, <1>f, FieldTypes DEF FrameShown, Showing
<1>8. QED
  BY <1>1, <1>2, <1>3, <1>4, <1>5, <1>6, <1>7

(* prepare without a new geometry, ... *)
LEMMA PrepareSameKeepsComposer ==
  ASSUME ComposerInv, hwc_prepare_same
  PROVE  ComposerInv'
<1> USE ComposerAssumption DEF ComposerInv
<1>0. ComposerTyped /\ Remembered /\ InPlace /\ OffWithoutLayer /\ PixelsKnown /\ FillsAnother
  OBVIOUS
<1>f. /\ phase' = "prepared" /\ done' = FALSE
      /\ UNCHANGED <<handle, win, lcd, ghost, num_of_hwc_layer, num_of_fb_layer,
                     num_of_fb_layer_prev>>
  BY DEF hwc_prepare_same, counts
<1>1. ComposerTyped'
  <2>1. (phase \in {"idle", "prepared", "blank"})'
    BY <1>0, <1>f DEF ComposerTyped
  <2>2. (done \in BOOLEAN)'
    BY <1>0, <1>f DEF ComposerTyped
  <2>3. (handle \in [Layers -> {0, 1}])'
    BY <1>0, <1>f DEF ComposerTyped
  <2>4. (num_of_hwc_layer \in {0, 1} /\ num_of_fb_layer \in Nat /\ num_of_fb_layer_prev \in Nat)'
    BY <1>0, <1>f DEF ComposerTyped
  <2>5. (num_of_hwc_layer = 1 => win.layer \in Layers /\ win.rect_info \in Places)'
    BY <1>0, <1>f DEF ComposerTyped
  <2>6. QED
    BY <1>0, <1>f, <2>1, <2>2, <2>3, <2>4, <2>5 DEF ComposerTyped
<1>2. Remembered'
  BY <1>0, <1>f, FieldTypes DEF Remembered
<1>3. InPlace'
  BY <1>0, <1>f, FieldTypes DEF InPlace
<1>4. OffWithoutLayer'
  BY <1>0, <1>f, FieldTypes DEF OffWithoutLayer
<1>5. PixelsKnown'
  BY <1>0, <1>f, FieldTypes DEF PixelsKnown
<1>6. FillsAnother'
  BY <1>0, <1>f, FieldTypes DEF FillsAnother
<1>7. FrameShown'
  BY <1>0, <1>f, FieldTypes DEF FrameShown, Showing
<1>8. QED
  BY <1>1, <1>2, <1>3, <1>4, <1>5, <1>6, <1>7

(* the screen off ... *)
LEMMA BlankKeepsComposer ==
  ASSUME ComposerInv, hwc_blank
  PROVE  ComposerInv'
<1> USE ComposerAssumption DEF ComposerInv
<1>0. ComposerTyped /\ Remembered /\ InPlace /\ OffWithoutLayer /\ PixelsKnown /\ FillsAnother
  OBVIOUS
<1> DEFINE lost == ghost.forgotten \/ num_of_fb_layer_prev > 0
<1>e. /\ phase' = "blank" /\ done' = FALSE /\ num_of_fb_layer_prev' = 0
      /\ ghost' = [ghost EXCEPT !.forgotten = lost]
      /\ UNCHANGED <<handle, win, lcd, num_of_hwc_layer, num_of_fb_layer>>
  BY DEF hwc_blank
<1>l. lost \in BOOLEAN /\ (lost <=> ghost.forgotten \/ num_of_fb_layer_prev > 0)
  OBVIOUS
<1> HIDE DEF lost
<1>1. ComposerTyped'
  <2>1. ghost' \in History
    BY <1>0, <1>e, <1>l DEF ComposerTyped, History
  <2>2. (phase \in {"idle", "prepared", "blank"})'
    BY <1>0, <1>e DEF ComposerTyped
  <2>3. (done \in BOOLEAN)'
    BY <1>0, <1>e DEF ComposerTyped
  <2>4. (handle \in [Layers -> {0, 1}])'
    BY <1>0, <1>e DEF ComposerTyped
  <2>5. (num_of_hwc_layer \in {0, 1} /\ num_of_fb_layer \in Nat /\ num_of_fb_layer_prev \in Nat)'
    BY <1>0, <1>e DEF ComposerTyped
  <2>6. (num_of_hwc_layer = 1 => win.layer \in Layers /\ win.rect_info \in Places)'
    BY <1>0, <1>e DEF ComposerTyped
  <2>7. QED
    BY <1>0, <1>e, <2>1, <2>2, <2>3, <2>4, <2>5, <2>6 DEF ComposerTyped

<1>f. /\ done' = FALSE /\ num_of_fb_layer_prev' = 0
      /\ ghost'.latched = ghost.latched /\ ghost'.panFailed = ghost.panFailed
      /\ ghost'.misplaced = ghost.misplaced /\ (ghost'.forgotten <=> lost)
      /\ ghost'.swapped = ghost.swapped /\ ghost'.stuck = ghost.stuck
      /\ ghost'.repeated = ghost.repeated
      /\ UNCHANGED <<handle, win, lcd, num_of_hwc_layer, num_of_fb_layer>>
  BY <1>0, <1>e DEF ComposerTyped, History
<1>2. Remembered'
  BY <1>0, <1>f, FieldTypes DEF Remembered
<1>3. InPlace'
  BY <1>0, <1>f, FieldTypes DEF InPlace
<1>4. OffWithoutLayer'
  BY <1>0, <1>f, FieldTypes DEF OffWithoutLayer
<1>5. PixelsKnown'
  BY <1>0, <1>f, <1>l, FieldTypes DEF PixelsKnown, ComposerTyped
<1>6. FillsAnother'
  BY <1>0, <1>f, FieldTypes DEF FillsAnother
<1>7. FrameShown'
  BY <1>0, <1>f, FieldTypes DEF FrameShown, Showing
<1>8. QED
  BY <1>1, <1>2, <1>3, <1>4, <1>5, <1>6, <1>7

(* and on, ... *)
LEMMA UnblankKeepsComposer ==
  ASSUME ComposerInv, Unblank
  PROVE  ComposerInv'
<1> USE ComposerAssumption DEF ComposerInv
<1>0. ComposerTyped /\ Remembered /\ InPlace /\ OffWithoutLayer /\ PixelsKnown /\ FillsAnother
  OBVIOUS
<1>f. /\ phase' = "idle" /\ done' = FALSE
      /\ UNCHANGED <<handle, win, lcd, ghost, num_of_hwc_layer, num_of_fb_layer,
                     num_of_fb_layer_prev>>
  BY DEF Unblank, counts
<1>1. ComposerTyped'
  <2>1. (phase \in {"idle", "prepared", "blank"})'
    BY <1>0, <1>f DEF ComposerTyped
  <2>2. (done \in BOOLEAN)'
    BY <1>0, <1>f DEF ComposerTyped
  <2>3. (handle \in [Layers -> {0, 1}])'
    BY <1>0, <1>f DEF ComposerTyped
  <2>4. (num_of_hwc_layer \in {0, 1} /\ num_of_fb_layer \in Nat /\ num_of_fb_layer_prev \in Nat)'
    BY <1>0, <1>f DEF ComposerTyped
  <2>5. (num_of_hwc_layer = 1 => win.layer \in Layers /\ win.rect_info \in Places)'
    BY <1>0, <1>f DEF ComposerTyped
  <2>6. QED
    BY <1>0, <1>f, <2>1, <2>2, <2>3, <2>4, <2>5 DEF ComposerTyped
<1>2. Remembered'
  BY <1>0, <1>f, FieldTypes DEF Remembered
<1>3. InPlace'
  BY <1>0, <1>f, FieldTypes DEF InPlace
<1>4. OffWithoutLayer'
  BY <1>0, <1>f, FieldTypes DEF OffWithoutLayer
<1>5. PixelsKnown'
  BY <1>0, <1>f, FieldTypes DEF PixelsKnown
<1>6. FillsAnother'
  BY <1>0, <1>f, FieldTypes DEF FillsAnother
<1>7. FrameShown'
  BY <1>0, <1>f, FieldTypes DEF FrameShown, Showing
<1>8. QED
  BY <1>1, <1>2, <1>3, <1>4, <1>5, <1>6, <1>7

(* a set whose eglSwapBuffers fails, ... *)
LEMMA SwapFailsKeepsComposer ==
  ASSUME ComposerInv, SwapFails
  PROVE  ComposerInv'
<1> USE ComposerAssumption DEF ComposerInv
<1>0. ComposerTyped /\ Remembered /\ InPlace /\ OffWithoutLayer /\ PixelsKnown /\ FillsAnother
  OBVIOUS
<1> DEFINE lost == ghost.forgotten \/ Erases
<1>e. /\ phase' = "idle" /\ done' = FALSE /\ num_of_fb_layer_prev' = num_of_fb_layer
      /\ ghost' = [ghost EXCEPT !.forgotten = lost]
      /\ UNCHANGED <<handle, win, lcd, num_of_hwc_layer, num_of_fb_layer>>
  BY DEF SwapFails
<1>l. lost \in BOOLEAN /\ (lost <=> ghost.forgotten \/ Erases)
  BY DEF Erases
<1>s. num_of_fb_layer > 0 \/ Erases
  BY DEF SwapFails, Swaps
<1> HIDE DEF lost
<1>1. ComposerTyped'
  <2>1. ghost' \in History
    BY <1>0, <1>e, <1>l DEF ComposerTyped, History
  <2>2. (phase \in {"idle", "prepared", "blank"})'
    BY <1>0, <1>e DEF ComposerTyped
  <2>3. (done \in BOOLEAN)'
    BY <1>0, <1>e DEF ComposerTyped
  <2>4. (handle \in [Layers -> {0, 1}])'
    BY <1>0, <1>e DEF ComposerTyped
  <2>5. (num_of_hwc_layer \in {0, 1} /\ num_of_fb_layer \in Nat /\ num_of_fb_layer_prev \in Nat)'
    BY <1>0, <1>e DEF ComposerTyped
  <2>6. (num_of_hwc_layer = 1 => win.layer \in Layers /\ win.rect_info \in Places)'
    BY <1>0, <1>e DEF ComposerTyped
  <2>7. QED
    BY <1>0, <1>e, <2>1, <2>2, <2>3, <2>4, <2>5, <2>6 DEF ComposerTyped

<1>f. /\ done' = FALSE /\ num_of_fb_layer_prev' = num_of_fb_layer
      /\ ghost'.latched = ghost.latched /\ ghost'.panFailed = ghost.panFailed
      /\ ghost'.misplaced = ghost.misplaced /\ (ghost'.forgotten <=> lost)
      /\ ghost'.swapped = ghost.swapped /\ ghost'.stuck = ghost.stuck
      /\ ghost'.repeated = ghost.repeated
      /\ UNCHANGED <<handle, win, lcd, num_of_hwc_layer, num_of_fb_layer>>
  BY <1>0, <1>e DEF ComposerTyped, History
<1>2. Remembered'
  BY <1>0, <1>f, FieldTypes DEF Remembered
<1>3. InPlace'
  BY <1>0, <1>f, FieldTypes DEF InPlace
<1>4. OffWithoutLayer'
  BY <1>0, <1>f, FieldTypes DEF OffWithoutLayer
<1>5. PixelsKnown'
  BY <1>0, <1>f, <1>l, <1>s, FieldTypes DEF PixelsKnown, ComposerTyped
<1>6. FillsAnother'
  BY <1>0, <1>f, FieldTypes DEF FillsAnother
<1>7. FrameShown'
  BY <1>0, <1>f, FieldTypes DEF FrameShown, Showing
<1>8. QED
  BY <1>1, <1>2, <1>3, <1>4, <1>5, <1>6, <1>7

(* What a set leaves of the framebuffer's pixels, whatever becomes of the window. *)
LEMMA DrawnOrForgotten ==
  ASSUME ComposerTyped, PixelsKnown
  PROVE  /\ Drawn \in BOOLEAN /\ Forgotten \in BOOLEAN
         /\ Drawn /\ num_of_fb_layer = 0 => Forgotten
<1>1. num_of_fb_layer \in Nat /\ num_of_fb_layer_prev \in Nat /\ num_of_hwc_layer \in {0, 1}
  BY DEF ComposerTyped
<1>2. lcd.drawn \in BOOLEAN /\ ghost.forgotten \in BOOLEAN
  BY FieldTypes
<1>3. lcd.drawn /\ num_of_fb_layer_prev = 0 => ghost.forgotten
  BY DEF PixelsKnown
<1>4. CASE Swaps
  BY <1>1, <1>4 DEF Drawn, Forgotten
<1>5. CASE ~Swaps
  <2>1. Drawn = lcd.drawn
    BY <1>5 DEF Drawn
  <2>2. Forgotten <=> (ghost.forgotten \/ (num_of_hwc_layer = 0 /\ num_of_fb_layer_prev > 0))
    BY <1>5 DEF Forgotten
  <2>3. Forgotten \in BOOLEAN
    BY <1>5 DEF Forgotten
  <2>4. num_of_fb_layer_prev > 0 /\ num_of_fb_layer = 0 => num_of_hwc_layer = 0
    BY <1>1, <1>5 DEF Swaps, Erases
  <2>5. QED
    BY <1>1, <1>2, <1>3, <2>1, <2>2, <2>3, <2>4
<1>6. QED
  BY <1>4, <1>5

(* a set without a layer for the window, ... *)
LEMMA WithoutWindowKeepsComposer ==
  ASSUME ComposerInv, SetWithoutWindow
  PROVE  ComposerInv'
<1> USE ComposerAssumption DEF ComposerInv
<1>0. ComposerTyped /\ Remembered /\ InPlace /\ OffWithoutLayer /\ PixelsKnown /\ FillsAnother
  OBVIOUS
<1>e. /\ phase' = "idle" /\ done' = TRUE /\ num_of_hwc_layer = 0
      /\ num_of_fb_layer_prev' = num_of_fb_layer
      /\ lcd' = [lcd EXCEPT !.drawn = Drawn] /\ ghost' = [ghost EXCEPT !.forgotten = Forgotten]
      /\ UNCHANGED <<handle, win, num_of_hwc_layer, num_of_fb_layer>>
  BY DEF SetWithoutWindow
<1>d. /\ Drawn \in BOOLEAN /\ Forgotten \in BOOLEAN
      /\ Drawn /\ num_of_fb_layer = 0 => Forgotten
  BY <1>0, DrawnOrForgotten
<1>1. ComposerTyped'
  <2>1. lcd' \in Hardware /\ ghost' \in History
    BY <1>0, <1>e, <1>d DEF ComposerTyped, Hardware, History
  <2>2. (phase \in {"idle", "prepared", "blank"})'
    BY <1>0, <1>e DEF ComposerTyped
  <2>3. (done \in BOOLEAN)'
    BY <1>0, <1>e DEF ComposerTyped
  <2>4. (handle \in [Layers -> {0, 1}])'
    BY <1>0, <1>e DEF ComposerTyped
  <2>5. (num_of_hwc_layer \in {0, 1} /\ num_of_fb_layer \in Nat /\ num_of_fb_layer_prev \in Nat)'
    BY <1>0, <1>e DEF ComposerTyped
  <2>6. (num_of_hwc_layer = 1 => win.layer \in Layers /\ win.rect_info \in Places)'
    BY <1>0, <1>e DEF ComposerTyped
  <2>7. QED
    BY <1>0, <1>e, <2>1, <2>2, <2>3, <2>4, <2>5, <2>6 DEF ComposerTyped

<1>f. /\ lcd'.front = lcd.front /\ lcd'.pos = lcd.pos /\ lcd'.pan = lcd.pan
      /\ lcd'.drawn = Drawn
      /\ ghost'.latched = ghost.latched /\ ghost'.panFailed = ghost.panFailed
      /\ ghost'.misplaced = ghost.misplaced /\ ghost'.forgotten = Forgotten
      /\ ghost'.swapped = ghost.swapped /\ ghost'.stuck = ghost.stuck
      /\ ghost'.repeated = ghost.repeated
      /\ num_of_hwc_layer = 0 /\ num_of_fb_layer_prev' = num_of_fb_layer
      /\ UNCHANGED <<handle, win, num_of_hwc_layer, num_of_fb_layer>>
  BY <1>0, <1>e DEF ComposerTyped, Hardware, History
<1>2. Remembered'
  BY <1>0, <1>f, FieldTypes DEF Remembered
<1>3. InPlace'
  BY <1>0, <1>f, FieldTypes DEF InPlace
<1>4. OffWithoutLayer'
  BY <1>0, <1>f, FieldTypes DEF OffWithoutLayer
<1>5. PixelsKnown'
  BY <1>0, <1>f, <1>d, FieldTypes DEF PixelsKnown
<1>6. FillsAnother'
  BY <1>0, <1>f, FieldTypes DEF FillsAnother
<1>7. FrameShown'
  BY <1>0, <1>f, <1>5, FieldTypes DEF FrameShown, Showing, OffWithoutLayer
<1>8. QED
  BY <1>1, <1>2, <1>3, <1>4, <1>5, <1>6, <1>7

(* a set that shows the buffer it showed before, ... *)
LEMMA SkipsKeepsComposer ==
  ASSUME ComposerInv, NEW failing \in {"blit", "off", "size", "position"}, SetSkips(failing)
  PROVE  ComposerInv'
<1> USE ComposerAssumption DEF ComposerInv
<1>0. ComposerTyped /\ Remembered /\ InPlace /\ OffWithoutLayer /\ PixelsKnown /\ FillsAnother
  OBVIOUS
<1>p. PICK power \in {0, win.power_state} :
        /\ win' = [win EXCEPT !.power_state = power]
        /\ ghost' = [ghost EXCEPT !.forgotten = Forgotten, !.stuck = power = 1]
  BY DEF SetSkips
<1> DEFINE f == IF failing # "blit" /\ win.buf_index = lcd.pan THEN Frame ELSE lcd.front
           p == IF failing = "position" THEN Nowhere ELSE lcd.pos
           held == power = 1
<1>e. /\ phase' = "idle" /\ done' = TRUE /\ num_of_hwc_layer = 1
      /\ num_of_fb_layer_prev' = num_of_fb_layer
      /\ win' = [win EXCEPT !.power_state = power]
      /\ lcd' = [lcd EXCEPT !.drawn = Drawn, !.front = f, !.pos = p]
      /\ ghost' = [ghost EXCEPT !.forgotten = Forgotten, !.stuck = held]
      /\ UNCHANGED <<handle, num_of_hwc_layer, num_of_fb_layer>>
  BY <1>p DEF SetSkips
<1>d. /\ Drawn \in BOOLEAN /\ Forgotten \in BOOLEAN
      /\ Drawn /\ num_of_fb_layer = 0 => Forgotten
  BY <1>0, DrawnOrForgotten
<1>s. held \in BOOLEAN /\ (held <=> power = 1) /\ power \in {0, 1}
  BY <1>0, FieldTypes
<1>t. f \in (Layers \X Places) \cup {Old} /\ p \in Rects
  BY <1>0, <1>e, FieldTypes DEF Frame, Rects, ComposerTyped
<1>x. failing = "blit" => f = lcd.front /\ p = lcd.pos
  OBVIOUS
<1>y. failing # "blit" => win.set_win_flag = 1
  BY DEF SetSkips
<1> HIDE DEF f, p, held
<1>1. ComposerTyped'
  <2>1. win' \in WindowInfo
    BY <1>0, <1>e, <1>s DEF ComposerTyped, WindowInfo
  <2>2. lcd' \in Hardware
    BY <1>0, <1>e, <1>d, <1>t DEF ComposerTyped, Hardware
  <2>3. ghost' \in History
    BY <1>0, <1>e, <1>d, <1>s DEF ComposerTyped, History
  <2>10. win'.layer = win.layer /\ win'.rect_info = win.rect_info
    BY <1>0, <1>e DEF ComposerTyped, WindowInfo
  <2>4. (phase \in {"idle", "prepared", "blank"})'
    BY <1>0, <1>e, <2>10 DEF ComposerTyped
  <2>5. (done \in BOOLEAN)'
    BY <1>0, <1>e, <2>10 DEF ComposerTyped
  <2>6. (handle \in [Layers -> {0, 1}])'
    BY <1>0, <1>e, <2>10 DEF ComposerTyped
  <2>7. (num_of_hwc_layer \in {0, 1} /\ num_of_fb_layer \in Nat /\ num_of_fb_layer_prev \in Nat)'
    BY <1>0, <1>e, <2>10 DEF ComposerTyped
  <2>8. (num_of_hwc_layer = 1 => win.layer \in Layers /\ win.rect_info \in Places)'
    BY <1>0, <1>e, <2>10 DEF ComposerTyped
  <2>9. QED
    BY <1>0, <1>e, <2>1, <2>2, <2>3, <2>4, <2>5, <2>6, <2>7, <2>8 DEF ComposerTyped

<1>f. /\ win'.rect_info = win.rect_info /\ win'.buf_index = win.buf_index
      /\ win'.power_state = power /\ win'.set_win_flag = win.set_win_flag
      /\ win'.layer = win.layer /\ win'.layer_prev_buf = win.layer_prev_buf
      /\ lcd'.front = f /\ lcd'.pos = p /\ lcd'.pan = lcd.pan /\ lcd'.drawn = Drawn
      /\ ghost'.latched = ghost.latched /\ ghost'.panFailed = ghost.panFailed
      /\ ghost'.misplaced = ghost.misplaced /\ ghost'.forgotten = Forgotten
      /\ ghost'.swapped = ghost.swapped /\ ghost'.stuck = held
      /\ ghost'.repeated = ghost.repeated
      /\ num_of_hwc_layer = 1 /\ num_of_fb_layer_prev' = num_of_fb_layer
      /\ UNCHANGED <<handle, num_of_hwc_layer, num_of_fb_layer>>
  BY <1>0, <1>e DEF ComposerTyped, WindowInfo, Hardware, History
<1>2. Remembered'
  <2> SUFFICES ASSUME win.layer_prev_buf # NoBuf  PROVE Remembered'
    BY <1>f DEF Remembered
  <2>1. win.set_win_flag = 0 /\ failing = "blit" /\ f = lcd.front
    BY <1>0, <1>x, <1>y DEF Remembered
  <2>2. /\ win'.layer_prev_buf[1] = win.layer_prev_buf[1]
        /\ win'.layer_prev_buf[2] = win.layer_prev_buf[2] /\ handle' = handle
    BY <1>f
  <2>3. QED
    BY <1>0, <1>f, <2>1, <2>2 DEF Remembered
<1>3. InPlace'
  BY <1>0, <1>f, <1>x, <1>y, FieldTypes DEF InPlace
<1>4. OffWithoutLayer'
  BY <1>0, <1>f, FieldTypes DEF OffWithoutLayer
<1>5. PixelsKnown'
  BY <1>0, <1>f, <1>d, FieldTypes DEF PixelsKnown
<1>6. FillsAnother'
  BY <1>0, <1>f, FieldTypes DEF FillsAnother
<1>7. FrameShown'
  <2>1. ~Showing'
    BY <1>f, <1>s DEF Showing
  <2>2. QED
    BY <1>f, <1>d, <2>1 DEF FrameShown
<1>8. QED
  BY <1>1, <1>2, <1>3, <1>4, <1>5, <1>6, <1>7

(* a prepare that finds a layer for the window ... *)
LEMMA FoundKeepsComposer ==
  ASSUME ComposerInv, NEW l, l.layer \in Layers, l.frame \in Places, NEW n \in Nat,
         phase' = "prepared", done' = FALSE,
         win' = Assigned([win EXCEPT !.buf_index = 0], l),
         num_of_hwc_layer' = 1, num_of_fb_layer' = n,
         ghost' = [ghost EXCEPT !.swapped = FALSE,
                                !.misplaced = @ \/ win.set_win_flag > win'.set_win_flag],
         UNCHANGED <<handle, num_of_fb_layer_prev, lcd>>
  PROVE  ComposerInv'
<1> USE ComposerAssumption DEF ComposerInv
<1>0. ComposerTyped /\ Remembered /\ InPlace /\ OffWithoutLayer /\ PixelsKnown /\ FillsAnother
  OBVIOUS
<1> DEFINE lost == ghost.misplaced \/ win.set_win_flag > win'.set_win_flag
<1>e. ghost' = [ghost EXCEPT !.swapped = FALSE, !.misplaced = lost]
  OBVIOUS
<1>l. lost \in BOOLEAN /\ (lost <=> ghost.misplaced \/ win.set_win_flag > win'.set_win_flag)
  OBVIOUS
<1> HIDE DEF lost
<1>w. /\ win' \in WindowInfo
      /\ win'.rect_info = l.frame /\ win'.buf_index = 0 /\ win'.power_state = win.power_state
      /\ win'.set_win_flag = (IF win.rect_info # l.frame THEN 1 ELSE 0)
      /\ win'.layer = l.layer
      /\ win'.layer_prev_buf = IF win.rect_info # l.frame THEN NoBuf ELSE win.layer_prev_buf
  <2>1. CASE win.rect_info # l.frame
    BY <1>0, <2>1 DEF ComposerTyped, Assigned, WindowInfo, Rects
  <2>2. CASE win.rect_info = l.frame
    BY <1>0, <2>2 DEF ComposerTyped, Assigned, WindowInfo, Rects
  <2>3. QED
    BY <2>1, <2>2
<1>1. ComposerTyped'
  <2>1. ghost' \in History
    BY <1>0, <1>e, <1>l DEF ComposerTyped, History
  <2>2. (phase \in {"idle", "prepared", "blank"})'
    BY <1>0, <1>w DEF ComposerTyped
  <2>3. (done \in BOOLEAN)'
    BY <1>0, <1>w DEF ComposerTyped
  <2>4. (handle \in [Layers -> {0, 1}])'
    BY <1>0, <1>w DEF ComposerTyped
  <2>5. (num_of_hwc_layer \in {0, 1} /\ num_of_fb_layer \in Nat /\ num_of_fb_layer_prev \in Nat)'
    BY <1>0, <1>w DEF ComposerTyped
  <2>6. (num_of_hwc_layer = 1 => win.layer \in Layers /\ win.rect_info \in Places)'
    BY <1>0, <1>w DEF ComposerTyped
  <2>7. QED
    BY <1>0, <1>w, <2>1, <2>2, <2>3, <2>4, <2>5, <2>6 DEF ComposerTyped

<1>f. /\ ghost'.latched = ghost.latched /\ ghost'.panFailed = ghost.panFailed
      /\ (ghost'.misplaced <=> lost) /\ ghost'.forgotten = ghost.forgotten
      /\ ghost'.swapped = FALSE /\ ghost'.stuck = ghost.stuck
      /\ ghost'.repeated = ghost.repeated
      /\ done' = FALSE /\ num_of_hwc_layer' = 1
      /\ UNCHANGED <<handle, num_of_fb_layer_prev, lcd>>
  BY <1>0, <1>e DEF ComposerTyped, History
<1>2. Remembered'
  <2> SUFFICES ASSUME win'.layer_prev_buf # NoBuf  PROVE Remembered'
    BY DEF Remembered
  <2>1. /\ win.rect_info = l.frame /\ win'.set_win_flag = 0
        /\ win'.layer_prev_buf = win.layer_prev_buf
    BY <1>w
  <2>2. /\ win'.layer_prev_buf[1] = win.layer_prev_buf[1]
        /\ win'.layer_prev_buf[2] = win.layer_prev_buf[2] /\ handle' = handle /\ lcd' = lcd
        /\ win'.rect_info = win.rect_info
    BY <1>f, <1>w, <2>1
  <2>3. QED
    BY <1>0, <1>f, <2>1, <2>2 DEF Remembered
<1>3. InPlace'
  <2>1. win.set_win_flag \in {0, 1} /\ win.rect_info \in Rects
    BY <1>0, FieldTypes
  <2> SUFFICES ASSUME win'.set_win_flag = 0  PROVE InPlace'
    BY DEF InPlace
  <2>2. win.rect_info = l.frame /\ win'.rect_info = win.rect_info /\ win.rect_info # Nowhere
    BY <1>w
  <2>3. CASE win.set_win_flag = 0
    BY <1>0, <1>f, <1>l, <2>2, <2>3 DEF InPlace
  <2>4. CASE win.set_win_flag = 1
    BY <1>f, <1>l, <2>4 DEF InPlace
  <2>5. QED
    BY <2>1, <2>3, <2>4
<1>4. OffWithoutLayer'
  BY <1>0, <1>f, FieldTypes DEF OffWithoutLayer
<1>5. PixelsKnown'
  BY <1>0, <1>f, FieldTypes DEF PixelsKnown
<1>6. FillsAnother'
  BY <1>w, <1>f DEF FillsAnother
<1>7. FrameShown'
  BY <1>0, <1>f, FieldTypes DEF FrameShown, Showing
<1>8. QED
  BY <1>1, <1>2, <1>3, <1>4, <1>5, <1>6, <1>7

(* or none, ... *)
LEMMA HiddenKeepsComposer ==
  ASSUME ComposerInv, NEW power \in {0, win.power_state}, NEW n \in Nat,
         phase' = "prepared", done' = FALSE,
         win' = [[win EXCEPT !.buf_index = 0] EXCEPT !.rect_info = Nowhere,
                                                     !.power_state = power],
         num_of_hwc_layer' = 0, num_of_fb_layer' = n,
         ghost' = [ghost EXCEPT !.swapped = FALSE, !.stuck = power = 1],
         UNCHANGED <<handle, num_of_fb_layer_prev, lcd>>
  PROVE  ComposerInv'
<1> USE ComposerAssumption DEF ComposerInv
<1>0. ComposerTyped /\ Remembered /\ InPlace /\ OffWithoutLayer /\ PixelsKnown /\ FillsAnother
  OBVIOUS
<1> DEFINE held == power = 1
<1>e. ghost' = [ghost EXCEPT !.swapped = FALSE, !.stuck = held]
  OBVIOUS
<1>l. held \in BOOLEAN /\ (held <=> power = 1) /\ power \in {0, 1}
  BY <1>0, FieldTypes
<1> HIDE DEF held
<1>w. /\ win' \in WindowInfo
      /\ win'.rect_info = Nowhere /\ win'.buf_index = 0 /\ win'.power_state = power
      /\ win'.set_win_flag = win.set_win_flag
      /\ win'.layer = win.layer /\ win'.layer_prev_buf = win.layer_prev_buf
  BY <1>0, <1>l DEF ComposerTyped, WindowInfo, Rects
<1>1. ComposerTyped'
  <2>1. ghost' \in History
    BY <1>0, <1>e, <1>l DEF ComposerTyped, History
  <2>2. (phase \in {"idle", "prepared", "blank"})'
    BY <1>0, <1>w DEF ComposerTyped
  <2>3. (done \in BOOLEAN)'
    BY <1>0, <1>w DEF ComposerTyped
  <2>4. (handle \in [Layers -> {0, 1}])'
    BY <1>0, <1>w DEF ComposerTyped
  <2>5. (num_of_hwc_layer \in {0, 1} /\ num_of_fb_layer \in Nat /\ num_of_fb_layer_prev \in Nat)'
    BY <1>0, <1>w DEF ComposerTyped
  <2>6. (num_of_hwc_layer = 1 => win.layer \in Layers /\ win.rect_info \in Places)'
    BY <1>0, <1>w DEF ComposerTyped
  <2>7. QED
    BY <1>0, <1>w, <2>1, <2>2, <2>3, <2>4, <2>5, <2>6 DEF ComposerTyped

<1>f. /\ ghost'.latched = ghost.latched /\ ghost'.panFailed = ghost.panFailed
      /\ ghost'.misplaced = ghost.misplaced /\ ghost'.forgotten = ghost.forgotten
      /\ ghost'.swapped = FALSE /\ (ghost'.stuck <=> held)
      /\ ghost'.repeated = ghost.repeated
      /\ done' = FALSE /\ num_of_hwc_layer' = 0
      /\ UNCHANGED <<handle, num_of_fb_layer_prev, lcd>>
  BY <1>0, <1>e DEF ComposerTyped, History
<1>2. Remembered'
  <2>1. /\ win'.layer_prev_buf = win.layer_prev_buf /\ win'.set_win_flag = win.set_win_flag
        /\ win'.layer_prev_buf[1] = win.layer_prev_buf[1]
        /\ win'.layer_prev_buf[2] = win.layer_prev_buf[2] /\ win'.rect_info = Nowhere
    BY <1>w
  <2>2. QED
    BY <1>0, <1>f, <2>1 DEF Remembered
<1>3. InPlace'
  BY <1>w DEF InPlace
<1>4. OffWithoutLayer'
  BY <1>w, <1>f, <1>l DEF OffWithoutLayer
<1>5. PixelsKnown'
  BY <1>0, <1>f, FieldTypes DEF PixelsKnown
<1>6. FillsAnother'
  BY <1>0, <1>f, FieldTypes DEF FillsAnother
<1>7. FrameShown'
  BY <1>0, <1>f, FieldTypes DEF FrameShown, Showing
<1>8. QED
  BY <1>1, <1>2, <1>3, <1>4, <1>5, <1>6, <1>7

(* which is all that a new geometry does, ... *)
LEMMA GeometryKeepsComposer ==
  ASSUME ComposerInv, NEW list \in Lists, hwc_prepare_geometry(list)
  PROVE  ComposerInv'
<1> DEFINE fit == {i \in DOMAIN list : list[i].frame # Nowhere}
           free == [win EXCEPT !.buf_index = 0]
<1>1. /\ phase' = "prepared" /\ done' = FALSE
      /\ UNCHANGED <<handle, num_of_fb_layer_prev, lcd>>
  BY DEF hwc_prepare_geometry
<1>2. Len(list) \in Nat
  BY ComposerAssumption
<1>3. CASE fit # {}
  <2> DEFINE l == list[Min(fit)]
  <2>1. /\ win' = Assigned(free, l)
        /\ num_of_hwc_layer' = 1 /\ num_of_fb_layer' = Len(list) - 1
        /\ ghost' = [ghost EXCEPT !.swapped = FALSE,
                                  !.misplaced = @ \/ win.set_win_flag > win'.set_win_flag]
    BY <1>3 DEF hwc_prepare_geometry
  <2>2. l.layer \in Layers /\ l.frame \in Places /\ Len(list) - 1 \in Nat
    BY <1>3, FirstThatFits
  <2> HIDE DEF l
  <2>3. QED
    BY <1>1, <2>1, <2>2, FoundKeepsComposer
<1>4. CASE fit = {}
  <2>1. PICK power \in {0, win.power_state} :
          /\ win' = [free EXCEPT !.rect_info = Nowhere, !.power_state = power]
          /\ ghost' = [ghost EXCEPT !.swapped = FALSE, !.stuck = power = 1]
    BY <1>4 DEF hwc_prepare_geometry
  <2>2. num_of_hwc_layer' = 0 /\ num_of_fb_layer' = Len(list)
    BY <1>4 DEF hwc_prepare_geometry
  <2>3. QED
    BY <1>1, <1>2, <2>1, <2>2, HiddenKeepsComposer
<1>5. QED
  BY <1>3, <1>4

(* the buffer after this one, of at least two, ... *)
LEMMA NextBuffer ==
  ASSUME NEW n \in Nat
  PROVE  (n + 1) % NUM_OF_WIN_BUF \in Nat /\ (n + 1) % NUM_OF_WIN_BUF # n
<1>1. NUM_OF_WIN_BUF \in Nat /\ NUM_OF_WIN_BUF > 1
  BY ComposerAssumption
<1>2. QED
  BY <1>1

(* and a set that fills it and pans to it. *)
LEMMA ComposesKeepsComposer ==
  ASSUME ComposerInv, NEW pans \in BOOLEAN, NEW shows \in BOOLEAN, SetComposes(pans, shows)
  PROVE  ComposerInv'
<1> USE ComposerAssumption DEF ComposerInv
<1>0. ComposerTyped /\ Remembered /\ InPlace /\ OffWithoutLayer /\ PixelsKnown /\ FillsAnother
  OBVIOUS
<1> DEFINE swap == win.layer_prev_buf # Handle
           placed == Placed(win)
           panned == Panned(placed)
           pan == IF swap /\ pans THEN win.buf_index ELSE lcd.pan
           power == IF shows THEN 1 ELSE panned.power_state
           front == IF win.buf_index = pan THEN Frame ELSE lcd.front
           pos == IF win.set_win_flag = 1 THEN win.rect_info ELSE lcd.pos
           lost == ghost.misplaced /\ win.set_win_flag = 0
           failed == IF swap THEN ~pans ELSE ghost.panFailed
           swapped == ghost.swapped \/ swap
           again == ~swap /\ (ghost.repeated \/ ghost.latched > 1)
<1>e. /\ done' = TRUE /\ phase' = "idle" /\ num_of_hwc_layer = 1
      /\ num_of_fb_layer_prev' = num_of_fb_layer
      /\ win' = [panned EXCEPT !.power_state = power]
      /\ lcd' = [lcd EXCEPT !.drawn = Drawn, !.front = front, !.pos = pos, !.pan = pan]
      /\ ghost' = [ghost EXCEPT !.forgotten = Forgotten, !.latched = 0, !.misplaced = lost,
                                !.panFailed = failed, !.swapped = swapped,
                                !.repeated = again, !.stuck = FALSE]
      /\ UNCHANGED <<handle, num_of_hwc_layer, num_of_fb_layer>>
  BY DEF SetComposes
<1>d. /\ Drawn \in BOOLEAN /\ Forgotten \in BOOLEAN
      /\ Drawn /\ num_of_fb_layer = 0 => Forgotten
  BY <1>0, DrawnOrForgotten
<1>h. win.layer \in Layers /\ win.rect_info \in Places /\ Handle \in Handles /\ Handle # NoBuf
      /\ Handle[1] = win.layer /\ Handle[2] = handle[win.layer]
      /\ Frame = <<win.layer, win.rect_info>>
  BY <1>0, <1>e, PairIsSomething DEF ComposerTyped, Handle, Handles, NoBuf, Frame
<1>w. /\ placed \in WindowInfo /\ placed.rect_info = win.rect_info
      /\ placed.buf_index = win.buf_index /\ placed.set_win_flag = 0
      /\ placed.layer = win.layer /\ placed.layer_prev_buf = win.layer_prev_buf
  <2>1. CASE win.set_win_flag = 1
    BY <1>0, <2>1 DEF Placed, ComposerTyped, WindowInfo
  <2>2. CASE win.set_win_flag = 0
    BY <1>0, <2>2 DEF Placed, ComposerTyped, WindowInfo
  <2>3. QED
    BY <1>0, <2>1, <2>2, FieldTypes
<1> HIDE DEF placed
<1>v. /\ panned \in WindowInfo /\ panned.rect_info = win.rect_info
      /\ panned.buf_index = IF swap THEN (win.buf_index + 1) % NUM_OF_WIN_BUF
                            ELSE win.buf_index
      /\ panned.set_win_flag = 0 /\ panned.layer = win.layer
      /\ panned.layer_prev_buf = Handle
  <2>1. CASE swap
    <3>1. panned = [placed EXCEPT !.layer_prev_buf = Handle,
                                  !.buf_index = (@ + 1) % NUM_OF_WIN_BUF]
      BY <1>w, <2>1 DEF Panned
    <3> DEFINE next == (win.buf_index + 1) % NUM_OF_WIN_BUF
    <3>2. next \in Nat
      BY <1>0, FieldTypes, NextBuffer
    <3>3. panned = [placed EXCEPT !.layer_prev_buf = Handle, !.buf_index = next]
      BY <1>w, <3>1
    <3> HIDE DEF next
    <3>4. /\ panned \in WindowInfo /\ panned.rect_info = win.rect_info
          /\ panned.buf_index = next /\ panned.set_win_flag = 0
          /\ panned.layer = win.layer /\ panned.layer_prev_buf = Handle
      BY <1>w, <1>h, <3>2, <3>3 DEF WindowInfo
    <3>5. QED
      BY <2>1, <3>4 DEF next
  <2>2. CASE ~swap
    BY <1>w, <2>2 DEF Panned
  <2>3. QED
    BY <2>1, <2>2
<1> HIDE DEF panned
<1>s. power \in {0, 1}
  BY <1>v DEF WindowInfo
<1>t. front \in (Layers \X Places) \cup {Old} /\ pos \in Rects /\ pan \in Nat
  BY <1>0, <1>h, FieldTypes
<1>u. lost \in BOOLEAN /\ failed \in BOOLEAN /\ swapped \in BOOLEAN /\ again \in BOOLEAN
  BY <1>0, FieldTypes
<1>1. ComposerTyped'
  <2>1. win' \in WindowInfo /\ win'.layer = win.layer /\ win'.rect_info = win.rect_info
    BY <1>e, <1>s, <1>v DEF WindowInfo
  <2>2. lcd' \in Hardware
    <3> HIDE DEF front, pos, pan
    <3>1. QED
      BY <1>0, <1>e, <1>d, <1>t DEF ComposerTyped, Hardware
  <2>3. ghost' \in History
    <3> DEFINE gone == Forgotten
    <3>1. gone \in BOOLEAN /\ ghost.stuck \in BOOLEAN /\ ghost.latched \in 0 .. 2
      BY <1>0, <1>d, FieldTypes
    <3>2. ghost' = [latched |-> 0, panFailed |-> failed, misplaced |-> lost,
                    forgotten |-> gone, swapped |-> swapped, stuck |-> FALSE,
                    repeated |-> again]
      <4> HIDE DEF lost, failed, swapped, again, gone
      <4>1. QED
        BY <1>0, <1>e DEF ComposerTyped, History, gone
    <3> HIDE DEF lost, failed, swapped, again, gone
    <3>3. QED
      BY <1>u, <3>1, <3>2 DEF History
  <2>4. (phase \in {"idle", "prepared", "blank"})'
    BY <1>0, <1>e, <2>1 DEF ComposerTyped
  <2>5. (done \in BOOLEAN)'
    BY <1>0, <1>e, <2>1 DEF ComposerTyped
  <2>6. (handle \in [Layers -> {0, 1}])'
    BY <1>0, <1>e, <2>1 DEF ComposerTyped
  <2>7. (num_of_hwc_layer \in {0, 1} /\ num_of_fb_layer \in Nat /\ num_of_fb_layer_prev \in Nat)'
    BY <1>0, <1>e, <2>1 DEF ComposerTyped
  <2>8. (num_of_hwc_layer = 1 => win.layer \in Layers /\ win.rect_info \in Places)'
    BY <1>0, <1>e, <2>1 DEF ComposerTyped
  <2>9. QED
    BY <1>0, <1>e, <2>1, <2>2, <2>3, <2>4, <2>5, <2>6, <2>7, <2>8 DEF ComposerTyped

<1>f. /\ win'.rect_info = win.rect_info /\ win'.buf_index = panned.buf_index
      /\ win'.power_state = power /\ win'.set_win_flag = 0
      /\ win'.layer = win.layer /\ win'.layer_prev_buf = Handle
      /\ num_of_hwc_layer = 1 /\ num_of_fb_layer_prev' = num_of_fb_layer
      /\ UNCHANGED <<handle, num_of_hwc_layer, num_of_fb_layer>>
  BY <1>e, <1>v DEF WindowInfo
<1>g. lcd'.front = front /\ lcd'.pos = pos /\ lcd'.pan = pan /\ lcd'.drawn = Drawn
  <2> HIDE DEF front, pos, pan
  <2>1. QED
    BY <1>0, <1>e DEF ComposerTyped, Hardware
<1>i. /\ ghost'.latched = 0 /\ ghost'.panFailed = failed
      /\ ghost'.misplaced = lost /\ ghost'.forgotten = Forgotten
      /\ ghost'.swapped = swapped /\ ghost'.stuck = FALSE
      /\ ghost'.repeated = again
  <2> HIDE DEF lost, failed, swapped, again
  <2>1. QED
    BY <1>0, <1>e DEF ComposerTyped, History
<1>j. front = Frame \/ failed \/ again
  <2>1. CASE swap
    BY <2>1
  <2>2. CASE ~swap
    <3> SUFFICES ASSUME ~failed, ~again, win.buf_index # pan  PROVE lcd.front = Frame
      OBVIOUS
    <3>1. win.layer_prev_buf # NoBuf /\ ghost.latched \in {0, 1} /\ ~ghost.repeated
          /\ ~ghost.panFailed
      BY <1>0, <1>h, <2>2, FieldTypes
    <3>2. win.layer_prev_buf[1] = win.layer /\ win.layer_prev_buf[2] = handle[win.layer]
      BY <1>h, <2>2
    <3>3. handle[win.layer] \in {0, 1} /\ win.rect_info # Nowhere
      BY <1>0, <1>h DEF ComposerTyped
    <3>4. ghost.latched = 0
      BY <1>0, <3>1, <3>2, <3>3 DEF Remembered
    <3>5. QED
      BY <1>0, <1>h, <3>1, <3>2, <3>3, <3>4 DEF Remembered
  <2>3. QED
    BY <2>1, <2>2
<1>k. pos = win.rect_info \/ lost
  BY <1>0, <1>h, FieldTypes DEF InPlace
<1>2. Remembered'
  <2>1. win'.layer_prev_buf[1] = win.layer /\ win'.layer_prev_buf[2] = handle'[win.layer]
    BY <1>f, <1>h
  <2> HIDE DEF front, failed, again
  <2>2. lcd'.front = Frame \/ ghost'.panFailed \/ ghost'.repeated
    BY <1>g, <1>i, <1>j
  <2>3. QED
    BY <1>f, <1>h, <1>i, <2>1, <2>2 DEF Remembered
<1>3. InPlace'
  <2> HIDE DEF pos, lost
  <2>1. QED
    BY <1>f, <1>g, <1>i, <1>k DEF InPlace
<1>4. OffWithoutLayer'
  BY <1>f DEF OffWithoutLayer
<1>5. PixelsKnown'
  BY <1>f, <1>g, <1>i, <1>d DEF PixelsKnown
<1>6. FillsAnother'
  <2>1. (win.buf_index + 1) % NUM_OF_WIN_BUF # win.buf_index
    BY <1>0, FieldTypes, NextBuffer
  <2>2. CASE swap
    BY <1>f, <1>g, <1>i, <1>v, <2>1, <2>2 DEF FillsAnother
  <2>3. CASE ~swap
    BY <1>0, <1>f, <1>g, <1>i, <1>v, <2>3 DEF FillsAnother
  <2>4. QED
    BY <2>2, <2>3
<1>7. FrameShown'
  <2> HIDE DEF front, failed, again, pos, lost
  <2>1. Frame' = Frame
    BY <1>f, <1>h DEF Frame
  <2>2. lcd'.front = Frame' \/ ghost'.panFailed \/ ghost'.repeated
    BY <1>g, <1>i, <1>j, <2>1
  <2>3. lcd'.pos = win'.rect_info \/ ghost'.misplaced
    BY <1>f, <1>g, <1>i, <1>k
  <2>4. num_of_fb_layer' = 0 => ~lcd'.drawn \/ ghost'.forgotten
    BY <1>f, <1>g, <1>i, <1>d
  <2>5. QED
    BY <1>f, <2>2, <2>3, <2>4 DEF FrameShown
<1>8. QED
  BY <1>1, <1>2, <1>3, <1>4, <1>5, <1>6, <1>7

-----------------------------------------------------------------------------
(* Every step keeps the invariant. *)
LEMMA ComposerStepInv == ComposerInv /\ [ComposerNext]_composerVars => ComposerInv'
<1> SUFFICES ASSUME ComposerInv, [ComposerNext]_composerVars  PROVE ComposerInv'
  OBVIOUS
<1>1. CASE \E l \in Layers : Latch(l)
  BY <1>1, LatchKeepsComposer
<1>2. CASE hwc_prepare_same
  BY <1>2, PrepareSameKeepsComposer
<1>3. CASE \E list \in Lists : hwc_prepare_geometry(list)
  BY <1>3, GeometryKeepsComposer
<1>4. CASE SwapFails
  BY <1>4, SwapFailsKeepsComposer
<1>5. CASE SetWithoutWindow
  BY <1>5, WithoutWindowKeepsComposer
<1>6. CASE \E failing \in {"blit", "off", "size", "position"} : SetSkips(failing)
  BY <1>6, SkipsKeepsComposer
<1>7. CASE \E pans, shows \in BOOLEAN : SetComposes(pans, shows)
  BY <1>7, ComposesKeepsComposer
<1>8. CASE hwc_blank
  BY <1>8, BlankKeepsComposer
<1>9. CASE Unblank
  BY <1>9, UnblankKeepsComposer
<1>10. CASE UNCHANGED composerVars
  <2>1. UNCHANGED <<handle, phase, done, win, num_of_hwc_layer, num_of_fb_layer,
                    num_of_fb_layer_prev, lcd, ghost>>
    BY <1>10 DEF composerVars, counts
  <2>2. (ComposerTyped /\ Remembered /\ InPlace)'
    BY <2>1 DEF ComposerInv, ComposerTyped, Remembered, InPlace
  <2>3. (OffWithoutLayer /\ PixelsKnown /\ FillsAnother)'
    BY <2>1 DEF ComposerInv, OffWithoutLayer, PixelsKnown, FillsAnother
  <2>4. FrameShown'
    BY <2>1 DEF ComposerInv, FrameShown, Showing, Frame
  <2>5. QED
    BY <2>2, <2>3, <2>4 DEF ComposerInv
<1>11. QED
  BY <1>1, <1>2, <1>3, <1>4, <1>5, <1>6, <1>7, <1>8, <1>9, <1>10 DEF ComposerNext

(* The bookkeeping of hwc_prepare and hwc_set agrees with the screen: the buffer
   that hwc_set remembers is that of the picture on it, the window is where
   prepare found it, the pixels to erase are counted. *)
THEOREM ComposerInvariant == ComposerSpec => []ComposerInv
  BY ComposerInitInv, ComposerStepInv, PTL DEF ComposerSpec

(* For every number of window buffers above one and every set of layers, places
   and lists: a window that hwc_set has composed shows its layer's present frame
   where the layer is, and no pixels of the framebuffer hide it. *)
THEOREM ComposerFrameShown == ComposerSpec => []FrameShown
<1>1. ComposerInv => FrameShown
  BY DEF ComposerInv
<1>2. QED
  BY <1>1, ComposerInvariant, PTL

(* When hwc_set draws a frame into the buffer that the window scans out, the last pan
   has failed, or a geometry change has reset buf_index to 0 (SecHWC.cpp 237) with
   buffer 0 on the screen and nothing has been swapped since: for every number of
   window buffers above one, and whatever device calls fail.  Nothing is said of the
   time between such a reset and the next swap but that the buffer is number 0. *)
THEOREM ComposerNoTearing == ComposerSpec => []NoTearing
<1>1. ComposerInv => NoTearing
  BY DEF ComposerInv, FillsAnother, NoTearing
<1>2. QED
  BY <1>1, ComposerInvariant, PTL

=============================================================================
