--------------------------- MODULE Readers_proofs ---------------------------
(***************************************************************************)
(* What is read from a URL and from a file, whatever they hold: the first  *)
(* UUID, and the record that was written or nothing.  And what there is to *)
(* read in a flow: where its lines are, and what it says.                  *)
(***************************************************************************)
EXTENDS FlowUrl, FlowFile, FlowParser, FiniteSums

(* The scan for a UUID.  When the cursor jumps, the dashes it jumps to     *)
(* have been seen in their places; a UUID that began in between would have *)
(* a hexadecimal digit at the place of one of them.                        *)

(* A dash at p + d rules out a UUID that begins where the dash would be    *)
(* one of its digits.                                                      *)
LEMMA DashIsNoDigit ==
  ASSUME NEW p \in Int, NEW d \in Int, NEW q \in Int,
         At(p + d) = "dash", p + d - q \in (0 .. 35) \ Dashes
  PROVE  ~UuidAt(q)
<1> DEFINE i == p + d - q
<1>1. q + i = p + d
  OBVIOUS
<1>2. i \in 0 .. 35 /\ i \notin Dashes
  OBVIOUS
<1> HIDE DEF i
<1>3. UuidAt(q) => At(q + i) = "hex"
  BY <1>2 DEF UuidAt
<1> QED BY <1>1, <1>3

(* The cursor never jumps over a UUID.                                     *)
LEMMA JumpSkipsNone ==
  ASSUME UrlTypeOK, ScanOn, NEW q \in cursor .. cursor' - 1
  PROVE  ~UuidAt(q)
<1> USE DEF Dashes
<1>1. cursor \in Int /\ q \in Int /\ q >= cursor /\ q < cursor'
  BY DEF UrlTypeOK, ScanOn
<1>2. CASE q = cursor
  BY <1>2 DEF ScanOn
<1>3. CASE q > cursor /\ q <= cursor + 8
  <2>1. At(cursor + 8) = "dash"
    BY <1>1, <1>3 DEF ScanOn, Sees
  <2> QED BY <1>1, <1>3, <2>1, DashIsNoDigit
<1>4. CASE q > cursor + 8 /\ q <= cursor + 13
  <2>1. At(cursor + 13) = "dash"
    BY <1>1, <1>4 DEF ScanOn, Sees
  <2> QED BY <1>1, <1>4, <2>1, DashIsNoDigit
<1>5. CASE q > cursor + 13 /\ q <= cursor + 18
  <2>1. At(cursor + 18) = "dash"
    BY <1>1, <1>5 DEF ScanOn, Sees
  <2> QED BY <1>1, <1>5, <2>1, DashIsNoDigit
<1>6. q <= cursor + 18
  BY <1>1 DEF ScanOn
<1> QED BY <1>1, <1>2, <1>3, <1>4, <1>5, <1>6

(* It stays inside the text: behind the end there is no dash to jump to.   *)
LEMMA JumpStaysInside ==
  ASSUME UrlTypeOK, ScanOn
  PROVE  cursor' \in 0 .. Len(url) /\ cursor' > cursor
<1>1. \A i \in Int : At(i) # "zero" => i < Len(url)
  BY DEF At
<1>2. cursor \in Nat /\ Len(url) \in Nat
  BY DEF UrlTypeOK
<1>3. \A d \in {0, 8, 13, 18} :
        At(cursor + d) # "zero" => cursor + d + 1 \in 0 .. Len(url)
  BY <1>1, <1>2
<1>4. PICK d \in {0, 8, 13, 18} :
        At(cursor + d) # "zero" /\ cursor' = cursor + d + 1
  <2>1. At(cursor + 0) # "zero"
    BY <1>2 DEF ScanOn, Scanning
  <2>2. CASE cursor' = cursor + 1
    BY <1>2, <2>1, <2>2
  <2>3. CASE cursor' = cursor + 9 /\ At(cursor + 8) = "dash"
    BY <1>2, <2>3
  <2>4. CASE cursor' = cursor + 14 /\ At(cursor + 13) = "dash"
    BY <1>2, <2>4
  <2>5. CASE cursor' = cursor + 19 /\ At(cursor + 18) = "dash"
    BY <1>2, <2>5
  <2> QED BY <2>2, <2>3, <2>4, <2>5 DEF ScanOn, Sees
<1> QED BY <1>2, <1>3, <1>4

(* Zero is at the end of the text and behind it, and only there.           *)
LEMMA LettersAreNotZero ==
  ASSUME UrlTypeOK, NEW i \in Nat
  PROVE  At(i) = "zero" <=> i >= Len(url)
<1>1. Len(url) \in Nat /\ \A k \in 1 .. Len(url) : url[k] \in Letter
  BY DEF UrlTypeOK
<1>2. "zero" \notin Letter
  BY DEF Letter
<1> QED BY <1>1, <1>2 DEF At

----------------------------------------------------------------------------
(* A text put in the array is cut to it.                                   *)
LEMMA StoredFits ==
  ASSUME UrlAssumption, NEW t \in Seq(Letter)
  PROVE  Stored(t) \in Seq(Letter) /\ Len(Stored(t)) < UrlBytes
<1> DEFINE n == IF Len(t) < UrlBytes THEN Len(t) ELSE UrlBytes - 1
<1>1. n \in 0 .. Len(t) /\ n < UrlBytes
  BY DEF UrlAssumption
<1>2. SubSeq(t, 1, n) \in Seq(Letter) /\ Len(SubSeq(t, 1, n)) = n
  BY <1>1
<1> QED BY <1>1, <1>2 DEF Stored

(* Type correctness: the scan reads no character behind the end of the     *)
(* text as the beginning of a token.                                       *)
THEOREM UrlTypeCorrect == UrlSpec => []UrlTypeOK
<1>1. UrlInit => UrlTypeOK
  BY UrlAssumption DEF UrlInit, UrlTypeOK, UrlAssumption
<1>2. UrlTypeOK /\ [UrlNext]_urlVars => UrlTypeOK'
  <2> SUFFICES ASSUME UrlTypeOK, [UrlNext]_urlVars PROVE UrlTypeOK'
    OBVIOUS
  <2>1. CASE ResolveArg \/ ResolveBuilt
    <3>1. PICK t \in Seq(Letter) : url' = Stored(t)
      BY <2>1, UrlAssumption DEF ResolveArg, ResolveBuilt, UrlAssumption
    <3>2. url' \in Seq(Letter) /\ Len(url') < UrlBytes
      BY <3>1, StoredFits, UrlAssumption
    <3>3. cursor' = 0 /\ urlStep' = "scan" /\ Len(url') \in Nat
      BY <2>1, <3>2 DEF ResolveArg, ResolveBuilt
    <3> QED BY <3>2, <3>3 DEF UrlTypeOK
  <2>2. CASE ScanOn
    BY <2>2, JumpStaysInside DEF ScanOn, UrlTypeOK
  <2>3. CASE ResolveFails \/ ScanFinds \/ ScanEnds \/ ScanStrays \/ UrlDone
    BY <2>3 DEF ResolveFails, ScanFinds, ScanEnds, ScanStrays, UrlDone,
                UrlTypeOK, urlVars
  <2>4. CASE UNCHANGED urlVars
    BY <2>4 DEF UrlTypeOK, urlVars
  <2> QED BY <2>1, <2>2, <2>3, <2>4 DEF UrlNext
<1> QED BY <1>1, <1>2, PTL DEF UrlSpec

(* What the scan has passed, and what it answers.                          *)
THEOREM ScanFindsFirst == UrlSpec => []FirstUuidIsFound
<1> DEFINE Passed == \A p \in 0 .. cursor - 1 : ~UuidAt(p)
<1>1. UrlInit => FirstUuidIsFound
  BY DEF UrlInit, FirstUuidIsFound
<1>2. UrlTypeOK /\ FirstUuidIsFound /\ [UrlNext]_urlVars => FirstUuidIsFound'
  <2> SUFFICES ASSUME UrlTypeOK, FirstUuidIsFound, [UrlNext]_urlVars,
                      Len(url') + 22 < UrlBytes
               PROVE  FirstUuidIsFound'
    BY DEF FirstUuidIsFound
  <2>0. cursor \in 0 .. Len(url) /\ Len(url) \in Nat
    BY DEF UrlTypeOK
  <2>1. CASE ResolveArg \/ ResolveBuilt
    BY <2>1 DEF ResolveArg, ResolveBuilt, FirstUuidIsFound
  <2>2. CASE ~(ResolveArg \/ ResolveBuilt)
    <3>1. url' = url
      BY <2>2 DEF UrlNext, urlVars, ResolveFails, ScanFinds, ScanOn, ScanEnds,
                  ScanStrays, UrlDone
    <3>2. \A p : UuidAt(p)' <=> UuidAt(p)
      BY <3>1 DEF UuidAt, At
    <3>3. Passed
      BY <3>1 DEF FirstUuidIsFound
    <3>4. CASE ScanFinds
      BY <3>1, <3>2, <3>3, <3>4 DEF ScanFinds, FirstUuidIsFound
    <3>5. CASE ScanOn
      <4>1. \A p \in 0 .. cursor' - 1 : ~UuidAt(p)
        BY <2>0, <3>3, <3>5, JumpSkipsNone, JumpStaysInside
      <4> QED BY <3>2, <3>5, <4>1 DEF ScanOn, Scanning, FirstUuidIsFound
    <3>6. CASE ScanEnds
      <4>1. cursor = Len(url)
        BY <2>0, <3>6, LettersAreNotZero DEF ScanEnds
      <4>2. ~UuidAt(Len(url))
        BY <3>6, <4>1 DEF ScanEnds, UuidAt, Dashes
      <4>3. \A p \in 0 .. Len(url) : ~UuidAt(p)
        BY <2>0, <3>3, <4>1, <4>2
      <4> QED BY <3>1, <3>2, <3>3, <3>6, <4>3 DEF ScanEnds, FirstUuidIsFound
    <3>7. CASE ScanStrays
      BY <2>0, <3>1, <3>7, LettersAreNotZero, UrlAssumption
         DEF ScanStrays, Strays, Dashes, UrlAssumption
    <3>8. CASE ResolveFails \/ UrlDone \/ UNCHANGED urlVars
      BY <3>1, <3>2, <3>8 DEF ResolveFails, UrlDone, urlVars, FirstUuidIsFound
    <3> QED BY <2>2, <3>4, <3>5, <3>6, <3>7, <3>8 DEF UrlNext
  <2> QED BY <2>1, <2>2
<1> QED BY <1>1, <1>2, UrlTypeCorrect, PTL DEF UrlSpec

----------------------------------------------------------------------------
(* FlowFiles and their records.  Attributes as set_attribute leaves them:  *)
(* no more than fit, each with a name and a value that can be written, and *)
(* no two with one name.                                                   *)
Writable(p) == p[1] # "" /\ TooLong \notin {p[1], p[2]}

Pair == {p \in Names \X Values : Writable(p)}

Kept ==
  {as \in Seq(Pair) :
     /\ Len(as) <= MaxAttributes
     /\ \A i, j \in 1 .. Len(as) : as[i][1] = as[j][1] => i = j}

(* What sequences are, as functions.                                       *)
LEMMA SeqIs ==
  ASSUME NEW S, NEW q \in Seq(S)
  PROVE  /\ Len(q) \in Nat /\ DOMAIN q = 1 .. Len(q)
         /\ \A i \in 1 .. Len(q) : q[i] \in S
         /\ q \in [1 .. Len(q) -> S]
  OBVIOUS

LEMMA IsSeq ==
  ASSUME NEW S, NEW n \in Nat, NEW q \in [1 .. n -> S]
  PROVE  q \in Seq(S) /\ Len(q) = n
  OBVIOUS

Grown(S, q, x, n, new) ==
  /\ new \in [1 .. n + 1 -> S]
  /\ new[n + 1] = x
  /\ \A i \in 1 .. n : new[i] = q[i]

LEMMA AppendIs ==
  ASSUME NEW S, NEW q \in Seq(S), NEW x \in S
  PROVE  Grown(S, q, x, Len(q), Append(q, x))
<1>1. Append(q, x) \in Seq(S) /\ Len(Append(q, x)) = Len(q) + 1
  OBVIOUS
<1>2. /\ Append(q, x)[Len(q) + 1] = x
      /\ \A i \in 1 .. Len(q) : Append(q, x)[i] = q[i]
  OBVIOUS
<1>3. Append(q, x) \in [1 .. Len(q) + 1 -> S]
  BY <1>1, SeqIs, Zenon
<1> QED
  BY <1>2, <1>3, Zenon DEF Grown

LEMMA KeptIs ==
  ASSUME NEW as \in Kept
  PROVE  /\ as \in Seq(Pair) /\ Len(as) \in Nat /\ Len(as) <= MaxAttributes
         /\ DOMAIN as = 1 .. Len(as)
         /\ \A i \in 1 .. Len(as) : as[i] \in Pair
         /\ \A i, j \in 1 .. Len(as) : as[i][1] = as[j][1] => i = j
<1>1. as \in Seq(Pair)
  BY Zenon DEF Kept
<1>2. /\ Len(as) <= MaxAttributes
      /\ \A i, j \in 1 .. Len(as) : as[i][1] = as[j][1] => i = j
  BY Zenon DEF Kept
<1>3. /\ Len(as) \in Nat /\ DOMAIN as = 1 .. Len(as)
      /\ \A i \in 1 .. Len(as) : as[i] \in Pair
  BY <1>1, SeqIs, Zenon
<1> QED
  BY <1>1, <1>2, <1>3, Zenon

LEMMA IsKept ==
  ASSUME NEW n \in Nat, n <= MaxAttributes, NEW as \in [1 .. n -> Pair],
         \A i, j \in 1 .. n : as[i][1] = as[j][1] => i = j
  PROVE  as \in Kept
<1>1. as \in Seq(Pair) /\ Len(as) = n
  BY IsSeq, Zenon
<1> QED
  BY <1>1, Zenon DEF Kept

LEMMA AppendKeeps ==
  ASSUME NEW as \in Kept, NEW q \in Pair, Len(as) < MaxAttributes,
         \A i \in 1 .. Len(as) : as[i][1] # q[1]
  PROVE  Append(as, q) \in Kept
<1> DEFINE n == Len(as)
           new == Append(as, q)
<1>1. /\ n \in Nat /\ as \in Seq(Pair)
      /\ \A i, j \in 1 .. n : as[i][1] = as[j][1] => i = j
  BY KeptIs, Zenon
<1>2. Grown(Pair, as, q, n, new)
  BY <1>1, AppendIs, Zenon
<1>3. n + 1 \in Nat /\ n + 1 <= MaxAttributes
  <2>1. n \in Nat /\ n < MaxAttributes /\ MaxAttributes \in Nat
    BY <1>1, FlowFileAssumption
  <2> HIDE DEF n
  <2> QED
    BY <2>1
<1>4. \A i \in 1 .. n : as[i][1] # q[1]
  OBVIOUS
<1> HIDE DEF n, new
<1>5. ASSUME NEW i \in 1 .. n + 1, NEW j \in 1 .. n + 1, new[i][1] = new[j][1]
      PROVE  i = j
  <2>1. (i \in 1 .. n \/ i = n + 1) /\ (j \in 1 .. n \/ j = n + 1)
    BY <1>1
  <2> QED
    BY <1>1, <1>2, <1>4, <1>5, <2>1 DEF Grown
<1>6. new \in Kept
  BY <1>2, <1>3, <1>5, IsKept, Zenon DEF Grown
<1> QED
  BY <1>6 DEF new

LEMMA SetAttributeKeeps ==
  ASSUME NEW as \in Kept, NEW name \in Names, NEW value \in Values
  PROVE  SetAttribute(as, name, value) \in Kept
<1> DEFINE p == <<name, value>>
           n == Len(as)
           places == {i \in DOMAIN as : as[i][1] = name}
           new == SetAttribute(as, name, value)
<1>1. /\ n \in Nat /\ n <= MaxAttributes /\ MaxAttributes \in Nat
      /\ DOMAIN as = 1 .. n /\ as \in Seq(Pair)
      /\ \A i \in 1 .. n : as[i] \in Pair
      /\ \A i, j \in 1 .. n : as[i][1] = as[j][1] => i = j
  BY KeptIs, FlowFileAssumption
<1>2. CASE ~Writable(p)
  BY <1>2 DEF Writable, SetAttribute
<1>3. CASE Writable(p)
  <2>1. p \in Pair /\ p[1] = name
    BY <1>3 DEF Pair
  <2>2. CASE places # {}
    <3>1. new = [i \in 1 .. n |-> IF i \in places THEN p ELSE as[i]]
      BY <1>1, <1>3, <2>2 DEF SetAttribute, Writable
    <3>2. \A i \in 1 .. n : i \in places <=> as[i][1] = name
      BY <1>1
    <3> HIDE DEF new, p, n, places
    <3>3. /\ new \in [1 .. n -> Pair]
          /\ \A i \in 1 .. n : new[i][1] = as[i][1]
      BY <1>1, <2>1, <3>1, <3>2
    <3>4. new \in Kept
      <4>1. \A i, j \in 1 .. n : new[i][1] = new[j][1] => i = j
        BY <1>1, <3>3
      <4> QED
        BY <1>1, <3>3, <4>1, IsKept, Zenon
    <3> QED
      BY <3>4 DEF new
  <2>3. CASE places = {} /\ n >= MaxAttributes
    BY <1>1, <1>3, <2>3 DEF SetAttribute, Writable
  <2>4. CASE places = {} /\ ~(n >= MaxAttributes)
    <3>1. new = Append(as, p)
      BY <1>1, <1>3, <2>4 DEF SetAttribute, Writable
    <3>2. \A i \in 1 .. n : as[i][1] # name
      BY <1>1, <2>4
    <3>3. Append(as, p) \in Kept
      <4>1. Len(as) < MaxAttributes
        <5>1. n \in Nat /\ MaxAttributes \in Nat /\ ~(n >= MaxAttributes)
          BY <1>1, <2>4, Zenon
        <5>2. \A k, m \in Nat : ~(k >= m) => k < m
          OBVIOUS
        <5> QED
          BY <5>1, <5>2, Zenon
      <4>2. \A i \in 1 .. Len(as) : as[i][1] # p[1]
        BY <2>1, <3>2
      <4> HIDE DEF p
      <4> QED
        BY <2>1, <4>1, <4>2, AppendKeeps, Zenon
    <3> QED
      BY <3>1, <3>3
  <2> QED
    BY <2>2, <2>3, <2>4
<1> QED
  BY <1>2, <1>3

(* What SetAll is: a fold over the places of the pairs, the last first.    *)
Setting(as, pairs, g) ==
  g = [s \in SUBSET DOMAIN pairs |->
         IF s = {} THEN as
         ELSE SetAttribute(g[s \ {Max(s)}], pairs[Max(s)][1], pairs[Max(s)][2])]

LEMMA SetAllIsChosen ==
  ASSUME NEW as, NEW pairs
  PROVE  SetAll(as, pairs) = (CHOOSE g : Setting(as, pairs, g))[DOMAIN pairs]
  BY DEF SetAll, FoldLeft, MapThenFoldSet, Setting

LEMMA MaxOfSome ==
  ASSUME NEW n \in Nat, NEW s, s \subseteq 1 .. n, s # {}
  PROVE  Max(s) \in s /\ \A m \in s : m <= Max(s)
<1> DEFINE D == {n - m : m \in s}
<1>1. PICK d \in D : \A e \in D : d <= e
  <2>1. \A m \in s : n - m \in Nat
    OBVIOUS
  <2>2. D \subseteq Nat /\ D # {}
    BY <2>1
  <2> HIDE DEF D
  <2> QED
    BY <2>2, LeastNumber
<1>2. PICK x \in s : d = n - x
  OBVIOUS
<1>3. \A y \in s : x >= y
  <2>1. \A y \in s : y \in Int /\ x \in Int /\ n - y \in D
    OBVIOUS
  <2> HIDE DEF D
  <2>2. \A y \in s : n - x <= n - y
    BY <1>1, <1>2, <2>1
  <2> QED
    BY <2>1, <2>2
<1>4. Max(s) \in s /\ \A y \in s : Max(s) >= y
  BY <1>3 DEF Max
<1> QED
  BY <1>4

LEMMA MaxOfFirst ==
  ASSUME NEW n \in Nat, n >= 1
  PROVE  Max(1 .. n) = n /\ (1 .. n) \ {n} = 1 .. n - 1
<1>1. n \in 1 .. n /\ \A m \in 1 .. n : m <= n
  OBVIOUS
<1>2. Max(1 .. n) \in 1 .. n /\ \A m \in 1 .. n : m <= Max(1 .. n)
  BY <1>1, MaxOfSome
<1> QED
  BY <1>1, <1>2

(* What holds for no place, and for some places if for all but the last of *)
(* them, holds for any.                                                    *)
LEMMA KeptThroughout ==
  ASSUME NEW n \in Nat, NEW g, g[{}] \in Kept,
         \A s \in SUBSET (1 .. n) :
           s # {} /\ g[s \ {Max(s)}] \in Kept => g[s] \in Kept
  PROVE  \A s \in SUBSET (1 .. n) : g[s] \in Kept
<1> DEFINE C == {s \in SUBSET (1 .. n) : g[s] \notin Kept}
<1>1. SUFFICES ASSUME C # {} PROVE FALSE
  OBVIOUS
<1>2. PICK s \in C : \A x \in s : s \ {x} \notin C
  <2>1. C \subseteq SUBSET (1 .. n)
    OBVIOUS
  <2>2. IsFiniteSet(1 .. n)
    BY FS_Interval
  <2> HIDE DEF C
  <2> QED
    BY <1>1, <2>1, <2>2, SmallestSet
<1>3. s \in SUBSET (1 .. n) /\ g[s] \notin Kept /\ s # {}
  OBVIOUS
<1>4. Max(s) \in s
  BY <1>3, MaxOfSome
<1>5. s \ {Max(s)} \in SUBSET (1 .. n) /\ s \ {Max(s)} \notin C
  BY <1>2, <1>3, <1>4
<1>6. g[s \ {Max(s)}] \in Kept
  BY <1>5
<1> QED
  BY <1>3, <1>6

(* The fold exists, and all it passes through can be kept.                 *)
LEMMA SettingExists ==
  ASSUME NEW as \in Kept, NEW pairs \in Seq(Names \X Values)
  PROVE  \E g : Setting(as, pairs, g)
<1> DEFINE n == Len(pairs)
           op == [i \in 1 .. n |->
                    [a \in Kept |-> SetAttribute(a, pairs[i][1], pairs[i][2])]]
           pick == [s \in SUBSET (1 .. n) |-> Max(s)]
<1>1. /\ n \in Nat /\ DOMAIN pairs = 1 .. n
      /\ \A i \in 1 .. n : pairs[i] \in Names \X Values
  BY SeqIs, Zenon
<1>2. \A i \in 1 .. n : pairs[i][1] \in Names /\ pairs[i][2] \in Values
  BY <1>1
<1>3. \A s \in SUBSET (1 .. n) : s # {} => pick[s] = Max(s) /\ Max(s) \in s
  <2> HIDE DEF n
  <2> QED
    BY <1>1, MaxOfSome
<1>4. \A i \in 1 .. n : \A a \in Kept :
        /\ op[i][a] = SetAttribute(a, pairs[i][1], pairs[i][2])
        /\ op[i][a] \in Kept
  BY <1>2, SetAttributeKeeps
<1>5. IsFiniteSet(1 .. n)
  BY <1>1, FS_Interval
<1> HIDE DEF op, pick, n
<1>6. PICK g : Folds(op, as, pick, 1 .. n, g)
  BY <1>3, <1>5, FoldsExist
<1>7. /\ g = [s \in SUBSET (1 .. n) |->
                IF s = {} THEN as ELSE op[pick[s]][g[s \ {pick[s]}]]]
      /\ g[{}] = as
      /\ \A s \in SUBSET (1 .. n) : s # {} =>
           g[s] = op[Max(s)][g[s \ {Max(s)}]] /\ Max(s) \in 1 .. n
  BY <1>3, <1>6 DEF Folds
<1>8. \A s \in SUBSET (1 .. n) :
           s # {} /\ g[s \ {Max(s)}] \in Kept => g[s] \in Kept
  BY <1>4, <1>7
<1>9. \A s \in SUBSET (1 .. n) : g[s] \in Kept
  BY <1>1, <1>7, <1>8, KeptThroughout
<1>10. \A s \in SUBSET (1 .. n) : s # {} =>
         g[s] = SetAttribute(g[s \ {Max(s)}],
                             pairs[Max(s)][1], pairs[Max(s)][2])
  <2> TAKE s \in SUBSET (1 .. n)
  <2> HAVE s # {}
  <2>1. Max(s) \in 1 .. n /\ s \ {Max(s)} \in SUBSET (1 .. n)
    BY <1>7
  <2>2. g[s \ {Max(s)}] \in Kept
    BY <1>9, <2>1
  <2> QED
    BY <1>4, <1>7, <2>1, <2>2
<1>11. g = [s \in SUBSET (1 .. n) |->
              IF s = {} THEN as
              ELSE SetAttribute(g[s \ {Max(s)}],
                                pairs[Max(s)][1], pairs[Max(s)][2])]
  <2>1. g = [s \in SUBSET (1 .. n) |-> g[s]]
    BY <1>7
  <2> QED
    BY <1>7, <1>10, <2>1
<1> QED
  BY <1>1, <1>11 DEF Setting

(* SetAll sets one pair after the other.                                   *)
Steps(as, pairs, u) ==
  /\ u \in [0 .. Len(pairs) -> Kept]
  /\ u[0] = as
  /\ \A n \in 1 .. Len(pairs) :
       u[n] = SetAttribute(u[n - 1], pairs[n][1], pairs[n][2])
  /\ u[Len(pairs)] = SetAll(as, pairs)

LEMMA SetAllSteps ==
  ASSUME NEW as \in Kept, NEW pairs \in Seq(Names \X Values)
  PROVE  \E u : Steps(as, pairs, u)
<1> DEFINE N == Len(pairs)
           g == CHOOSE f : Setting(as, pairs, f)
           u == [n \in 0 .. N |-> g[1 .. n]]
<1>1. /\ N \in Nat /\ DOMAIN pairs = 1 .. N
      /\ \A i \in 1 .. N : pairs[i] \in Names \X Values
  BY SeqIs, Zenon
<1>2. \A i \in 1 .. N : pairs[i][1] \in Names /\ pairs[i][2] \in Values
  BY <1>1
<1>3. Setting(as, pairs, g)
  BY SettingExists
<1>4. SetAll(as, pairs) = g[1 .. N]
  BY <1>1, SetAllIsChosen
<1> HIDE DEF g, N
<1>5. /\ g[{}] = as
      /\ \A s \in SUBSET (1 .. N) : s # {} =>
           g[s] = SetAttribute(g[s \ {Max(s)}],
                               pairs[Max(s)][1], pairs[Max(s)][2])
  BY <1>1, <1>3 DEF Setting
<1>6. \A s \in SUBSET (1 .. N) :
        s # {} /\ g[s \ {Max(s)}] \in Kept => g[s] \in Kept
  <2> TAKE s \in SUBSET (1 .. N)
  <2> HAVE s # {} /\ g[s \ {Max(s)}] \in Kept
  <2>1. Max(s) \in 1 .. N
    BY <1>1, MaxOfSome
  <2> QED
    BY <1>2, <1>5, <2>1, SetAttributeKeeps, ZenonT(60)
<1>7. \A s \in SUBSET (1 .. N) : g[s] \in Kept
  BY <1>1, <1>5, <1>6, KeptThroughout
<1>8. \A n \in 1 .. N : Max(1 .. n) = n /\ (1 .. n) \ {n} = 1 .. n - 1
  BY <1>1, MaxOfFirst
<1>9. \A n \in 1 .. N :
        g[1 .. n] = SetAttribute(g[1 .. n - 1], pairs[n][1], pairs[n][2])
  <2> TAKE n \in 1 .. N
  <2>1. n \in Nat /\ n <= N /\ n \in 1 .. n
    BY <1>1
  <2>2. 1 .. n \in SUBSET (1 .. N) /\ 1 .. n # {}
    <3>1. N \in Nat
      BY <1>1
    <3>2. \A i \in 1 .. n : i \in 1 .. N
      BY <2>1, <3>1
    <3> QED
      BY <2>1, <3>2, Zenon
  <2> QED
    BY <1>5, <1>8, <2>2
<1>10. \A n \in 0 .. N : 1 .. n \in SUBSET (1 .. N)
  BY <1>1
<1>11. 1 .. 0 = {} /\ 0 \in 0 .. N /\ N \in 0 .. N
       /\ \A n \in 1 .. N : n \in 0 .. N /\ n - 1 \in 0 .. N
  BY <1>1
<1>12. /\ u \in [0 .. N -> Kept] /\ u[0] = as /\ u[N] = SetAll(as, pairs)
       /\ \A n \in 1 .. N :
            u[n] = SetAttribute(u[n - 1], pairs[n][1], pairs[n][2])
  BY <1>4, <1>5, <1>7, <1>9, <1>10, <1>11
<1> QED
  BY <1>12 DEF Steps, N

LEMMA SetAllKeeps ==
  ASSUME NEW as \in Kept, NEW pairs \in Seq(Names \X Values)
  PROVE  SetAll(as, pairs) \in Kept
<1>1. PICK u : Steps(as, pairs, u)
  BY SetAllSteps
<1>2. Len(pairs) \in Nat /\ Len(pairs) \in 0 .. Len(pairs)
  BY SeqIs
<1> QED
  BY <1>1, <1>2 DEF Steps

LEMMA EmptyIsKept == <<>> \in Kept
<1>1. <<>> \in Seq(Pair) /\ Len(<<>>) = 0
  OBVIOUS
<1>2. 0 <= MaxAttributes /\ 1 .. 0 = {}
  BY FlowFileAssumption
<1> QED
  BY <1>1, <1>2 DEF Kept

(* Attributes that could be kept are set again one by one, each in its     *)
(* place: nothing is dropped or merged when a record is read.              *)
LEMMA SetAllRebuilds ==
  ASSUME NEW as \in Kept
  PROVE  SetAll(<<>>, as) = as
<1> DEFINE N == Len(as)
           Leading(n) == [i \in 1 .. n |-> as[i]]
<1>1. /\ as \in Seq(Pair) /\ N \in Nat /\ N <= MaxAttributes
      /\ MaxAttributes \in Nat /\ as = Leading(N)
      /\ \A i \in 1 .. N : as[i] \in Pair
      /\ \A i, j \in 1 .. N : as[i][1] = as[j][1] => i = j
  <2>1. /\ as \in Seq(Pair) /\ N \in Nat /\ N <= MaxAttributes
        /\ \A i \in 1 .. N : as[i] \in Pair
        /\ \A i, j \in 1 .. N : as[i][1] = as[j][1] => i = j
    BY KeptIs, Zenon
  <2>2. as \in [1 .. N -> Pair]
    BY <2>1, SeqIs, Zenon
  <2> HIDE DEF N
  <2>3. as = Leading(N)
    BY <2>2
  <2> QED
    BY <2>1, <2>3, FlowFileAssumption
<1>2. as \in Seq(Names \X Values)
  <2>1. Pair \subseteq Names \X Values
    BY DEF Pair
  <2>2. as \in [1 .. N -> Pair]
    BY <1>1, SeqIs, Zenon
  <2> HIDE DEF N
  <2>3. as \in [1 .. N -> Names \X Values]
    BY <2>1, <2>2
  <2> QED
    BY <1>1, <2>3, IsSeq, Zenon
<1>3. PICK u : Steps(<<>>, as, u)
  BY <1>2, EmptyIsKept, SetAllSteps
<1>4. /\ u[0] = <<>> /\ u[N] = SetAll(<<>>, as)
      /\ \A n \in 1 .. N : u[n] = SetAttribute(u[n - 1], as[n][1], as[n][2])
  BY <1>3 DEF Steps
<1> HIDE DEF N
<1>5. u[0] = Leading(0)
  BY <1>4
<1>6. ASSUME NEW n \in 1 .. N, u[n - 1] = Leading(n - 1)
      PROVE  u[n] = Leading(n)
  <2> DEFINE b == Leading(n - 1)
  <2>1. n - 1 \in Nat /\ n \in Nat /\ n - 1 < MaxAttributes
        /\ \A i \in 1 .. n - 1 : i \in 1 .. N /\ i # n
    BY <1>1
  <2>2. b \in [1 .. n - 1 -> Pair]
    BY <1>1, <2>1
  <2>3. b \in Seq(Pair) /\ Len(b) = n - 1 /\ DOMAIN b = 1 .. n - 1
    <3> HIDE DEF b
    <3> QED
      BY <2>1, <2>2, IsSeq
  <2>4. \A i \in DOMAIN b : b[i][1] # as[n][1]
    <3>1. \A i \in 1 .. n - 1 : b[i] = as[i]
      OBVIOUS
    <3> HIDE DEF b
    <3> QED
      BY <1>1, <2>1, <2>3, <3>1
  <2>5. /\ as[n][1] # "" /\ TooLong \notin {as[n][1], as[n][2]}
        /\ <<as[n][1], as[n][2]>> = as[n] /\ as[n] \in Pair
    <3>1. as[n] \in Pair
      BY <1>1
    <3>2. \A x \in Pair : Writable(x) /\ x \in Names \X Values
      BY DEF Pair
    <3>3. \A x \in Names \X Values : <<x[1], x[2]>> = x
      OBVIOUS
    <3> QED
      BY <3>1, <3>2, <3>3, Zenon DEF Writable
  <2>6. u[n] = SetAttribute(b, as[n][1], as[n][2])
    BY <1>4, <1>6
  <2> HIDE DEF b
  <2>7. ~(Len(b) >= MaxAttributes)
    BY <1>1, <2>1, <2>3
  <2>8. u[n] = Append(b, as[n])
    BY <2>4, <2>5, <2>6, <2>7 DEF SetAttribute
  <2>9. Grown(Pair, b, as[n], n - 1, u[n])
    BY <2>3, <2>5, <2>8, AppendIs, Zenon
  <2>10. /\ u[n] \in [1 .. n -> Pair] /\ u[n][n] = as[n]
         /\ \A i \in 1 .. n - 1 : u[n][i] = b[i]
    <3>1. (n - 1) + 1 = n
      BY <2>1
    <3> QED
      BY <2>9, <3>1, Zenon DEF Grown
  <2>11. \A i \in 1 .. n : u[n][i] = as[i]
    <3>1. \A i \in 1 .. n - 1 : b[i] = as[i]
      BY DEF b
    <3>2. \A i \in 1 .. n : i = n \/ i \in 1 .. n - 1
      BY <2>1
    <3> QED
      BY <2>10, <3>1, <3>2, Zenon
  <2>12. u[n] = [i \in 1 .. n |-> u[n][i]]
    BY <2>10
  <2> QED
    BY <2>11, <2>12
<1> DEFINE Bad == {n \in 0 .. N : u[n] # Leading(n)}
<1>7. Bad = {}
  <2>1. SUFFICES ASSUME Bad # {} PROVE FALSE
    OBVIOUS
  <2>2. Bad \subseteq Nat
    <3>1. 0 .. N \subseteq Nat
      BY <1>1
    <3> QED
      BY <3>1, Zenon
  <2>3. PICK n \in Bad : \A m \in Bad : n <= m
    <3> HIDE DEF Bad
    <3> QED
      BY <2>1, <2>2, LeastNumber
  <2>4. n \in 0 .. N /\ u[n] # Leading(n)
    OBVIOUS
  <2>5. n \in 1 .. N /\ n - 1 \in 0 .. N /\ ~(n <= n - 1)
    <3>1. n # 0
      BY <1>5, <2>4
    <3> HIDE DEF Bad
    <3> QED
      BY <1>1, <2>4, <3>1
  <2>6. n - 1 \notin Bad
    <3> HIDE DEF Bad
    <3> QED
      BY <2>3, <2>5
  <2>7. u[n - 1] = Leading(n - 1)
    BY <2>5, <2>6
  <2> QED
    BY <1>6, <2>4, <2>5, <2>7
<1>8. N \in 0 .. N
  BY <1>1
<1>9. u[N] = Leading(N)
  BY <1>7, <1>8
<1> HIDE DEF Leading
<1> QED
  BY <1>1, <1>4, <1>9

(* What is refused is what is shorter than its header says, and no more.   *)
LEMMA RefusesWhatIsCut ==
  ASSUME NEW r, Len(r.attrs) \in Nat, r.size \in Nat, NEW n \in 0 .. Bytes(r)
  PROVE  /\ Refuses(r, n) <=> n < Bytes(r)
         /\ n \in Nat /\ Bytes(r) \in Nat
<1> DEFINE a == AttributeBytes * Len(r.attrs)
<1>1. HeaderBytes \in Nat /\ AttributeBytes \in Nat
  BY FlowFileAssumption
<1>2. a \in Nat
  <2>1. \A x, y \in Nat : x * y \in Nat
    OBVIOUS
  <2> QED
    BY <1>1, <2>1
<1> HIDE DEF a
<1>3. /\ Bytes(r) = HeaderBytes + a + 2 + r.size
      /\ Refuses(r, n) <=>
           \/ n < HeaderBytes + 2
           \/ n - HeaderBytes < a + 2
           \/ r.size > 0 /\ n - HeaderBytes - a - 2 < r.size
  BY DEF Bytes, Refuses, LengthBytes, a
<1> QED
  BY <1>1, <1>2, <1>3

(* No part of a record passes for a whole one, no whole one is refused,    *)
(* and what is read is what was written: the checks of                     *)
(* flowfile_deserialize account for every byte that flowfile_serialize     *)
(* writes, and set_attribute puts the attributes back where they were.     *)
FileInv ==
  /\ attrs \in Kept /\ size \in 0 .. InlineBytes
  /\ record.attrs \in Kept /\ record.size \in Nat
  /\ record = [attrs |-> record.attrs, size |-> record.size]
  /\ written \in 0 .. Bytes(record)
  /\ readBack.status \in {"none", "Ok", "ParseError"}
  /\ ReadsBackWhole

LEMMA FileInvariant == FlowFileSpec => []FileInv
<1>1. FlowFileInit => FileInv
  <2> SUFFICES ASSUME FlowFileInit PROVE FileInv
    OBVIOUS
  <2>1. record.attrs = <<>> /\ record.size = 0 /\ Len(record.attrs) = 0
    BY DEF FlowFileInit, Empty
  <2>2. Bytes(record) \in Nat
    <3>1. Bytes(record) = HeaderBytes + AttributeBytes * 0 + 2 + 0
      BY <2>1 DEF Bytes, LengthBytes
    <3> QED
      BY <3>1, FlowFileAssumption
  <2>3. 0 \in 0 .. InlineBytes
    BY FlowFileAssumption
  <2> QED
    BY <2>1, <2>2, <2>3, EmptyIsKept
       DEF FlowFileInit, FileInv, Empty, NotRead, ReadsBackWhole
<1>2. FileInv /\ [FlowFileNext]_flowFileVars => FileInv'
  <2> SUFFICES ASSUME FileInv, [FlowFileNext]_flowFileVars PROVE FileInv'
    OBVIOUS
  <2>1. ASSUME UNCHANGED <<record, written, readBack>>,
               attrs' \in Kept, size' \in 0 .. InlineBytes
        PROVE  FileInv'
    BY <2>1 DEF FileInv, ReadsBackWhole, Bytes
  <2>2. ASSUME NEW name \in Names, NEW value \in Values,
               SourceSets(name, value)
        PROVE  FileInv'
    BY <2>1, <2>2, SetAttributeKeeps DEF SourceSets, FileInv, fileVars
  <2>3. ASSUME NEW n \in 0 .. InlineBytes + 1, SetContent(n)
        PROVE  FileInv'
    <3>1. size' \in 0 .. InlineBytes
      BY <2>3, FlowFileAssumption DEF SetContent, FileInv
    <3> QED
      BY <2>1, <2>3, <3>1 DEF SetContent, FileInv, fileVars
  <2>4. ASSUME NEW slots \in Slots, UpdateAttributes(slots)
        PROVE  FileInv'
    <3>1. SetAll(attrs, slots) \in Kept
      BY FlowFileAssumption, SetAllKeeps DEF FileInv
    <3> QED
      BY <2>1, <2>4, <3>1 DEF UpdateAttributes, FileInv, fileVars
  <2>5. CASE Serialize
    BY <2>5 DEF Serialize, FileInv, NotRead, ReadsBackWhole
  <2>6. CASE Deserialize
    <3>1. /\ Refuses(record, written) <=> written < Bytes(record)
          /\ written \in Nat /\ Bytes(record) \in Nat
          /\ written <= Bytes(record)
      <4>1. Len(record.attrs) \in Nat /\ record.size \in Nat
            /\ written \in 0 .. Bytes(record)
        BY KeptIs DEF FileInv
      <4>2. /\ Refuses(record, written) <=> written < Bytes(record)
            /\ written \in Nat /\ Bytes(record) \in Nat
        BY <4>1, RefusesWhatIsCut
      <4> QED
        BY <4>1, <4>2
    <3>2. SetAll(<<>>, record.attrs) = record.attrs
      BY SetAllRebuilds DEF FileInv
    <3>3. UNCHANGED <<attrs, size, record, written>> /\ Bytes(record)' = Bytes(record)
      BY <2>6 DEF Deserialize, Bytes
    <3>4. CASE Refuses(record, written)
      <4>1. readBack'.status = "ParseError"
        BY <2>6, <3>4 DEF Deserialize, NotRead
      <4> QED
        BY <3>1, <3>3, <3>4, <4>1 DEF FileInv, ReadsBackWhole
    <3>5. CASE ~Refuses(record, written)
      <4>1. /\ readBack'.status = "Ok" /\ readBack'.attrs = record.attrs
            /\ readBack'.size = record.size
        BY <2>6, <3>2, <3>5 DEF Deserialize
      <4>2. written = Bytes(record)
        BY <3>1, <3>5
      <4> QED
        BY <3>3, <4>1, <4>2 DEF FileInv, ReadsBackWhole
    <3> QED
      BY <3>4, <3>5
  <2>7. CASE UNCHANGED flowFileVars
    BY <2>1, <2>7 DEF flowFileVars, fileVars, FileInv
  <2> QED
    BY <2>2, <2>3, <2>4, <2>5, <2>6, <2>7 DEF FlowFileNext
<1> QED
  BY <1>1, <1>2, PTL DEF FlowFileSpec

THEOREM RecordsReadBack == FlowFileSpec => []ReadsBackWhole
<1>1. FileInv => ReadsBackWhole
  BY DEF FileInv
<1> QED
  BY <1>1, FileInvariant, PTL

LEMMA FlowFileTyped == FlowFileSpec => []FlowFileTypeOK
<1>1. ASSUME FileInv PROVE FlowFileTypeOK
  <2>1. attrs \in Seq(Pair) /\ Len(attrs) <= MaxAttributes
    BY <1>1, KeptIs DEF FileInv
  <2>2. Pair \subseteq Names \X Values
    BY DEF Pair
  <2>3. attrs \in Seq(Names \X Values)
    BY <2>1, <2>2
  <2> QED
    BY <1>1, <2>1, <2>3 DEF FileInv, FlowFileTypeOK
<1> QED
  BY <1>1, FileInvariant, PTL

----------------------------------------------------------------------------
(* Sequences put one behind the other.                                     *)
Joining(q, f) ==
  f = [i \in 1 .. Len(q) |-> IF i = 1 THEN q[i] ELSE f[i - 1] \o q[i]]

LEMMA FlattenIsChosen ==
  ASSUME NEW q, Len(q) # 0
  PROVE  FlattenSeq(q) = (CHOOSE f : Joining(q, f))[Len(q)]
BY DEF FlattenSeq, Joining

(* What holds at the start and for each after the one before holds for all.*)
LEMMA FirstToLast ==
  ASSUME NEW n \in Nat, NEW T, NEW f, f[0] \in T,
         \A k \in 1 .. n : f[k - 1] \in T => f[k] \in T
  PROVE  \A k \in 0 .. n : f[k] \in T
<1> DEFINE C == {k \in 0 .. n : f[k] \notin T}
<1>1. SUFFICES ASSUME C # {} PROVE FALSE
  OBVIOUS
<1>2. PICK k \in C : \A m \in C : k <= m
  <2>1. C \subseteq Nat
    OBVIOUS
  <2> HIDE DEF C
  <2> QED
    BY <1>1, <2>1, LeastNumber
<1>3. k \in 0 .. n /\ f[k] \notin T
  OBVIOUS
<1>4. k \in 1 .. n /\ k - 1 \in 0 .. n /\ k - 1 < k
  BY <1>3
<1>5. k - 1 \notin C
  <2> HIDE DEF C
  <2> QED
    BY <1>2, <1>4
<1> QED
  BY <1>3, <1>4, <1>5

LEMMA JoiningExists ==
  ASSUME NEW S, NEW q \in Seq(Seq(S))
  PROVE  \E f : Joining(q, f)
<1> DEFINE n == Len(q)
           T == Seq(S)
           op == [i \in 1 .. n |-> [a \in T |-> a \o q[i]]]
           pick == [s \in SUBSET (1 .. n) |-> Max(s)]
<1>1. n \in Nat /\ \A i \in 1 .. n : q[i] \in T
  BY SeqIs, Zenon
<1>2. \A s \in SUBSET (1 .. n) : s # {} => pick[s] = Max(s) /\ Max(s) \in s
  <2> HIDE DEF n
  <2> QED
    BY <1>1, MaxOfSome
<1>3. \A i \in 1 .. n : \A a \in T : op[i][a] = a \o q[i] /\ a \o q[i] \in T
  BY <1>1
<1>4. IsFiniteSet(1 .. n)
  BY <1>1, FS_Interval
<1>5. \A i \in 1 .. n : <<>> \o q[i] = q[i]
  BY <1>1
<1>6. <<>> \in T
  OBVIOUS
<1> HIDE DEF op, pick, n, T
<1>7. PICK g : Folds(op, <<>>, pick, 1 .. n, g)
  BY <1>2, <1>4, FoldsExist
<1> DEFINE f == [k \in 0 .. n |-> g[1 .. k]]
<1>8. f[0] = <<>>
  <2>1. 1 .. 0 = {} /\ 0 \in 0 .. n
    BY <1>1
  <2>2. g[{}] = <<>>
    BY <1>7 DEF Folds
  <2> QED
    BY <2>1, <2>2
<1>9. ASSUME NEW k \in 1 .. n
      PROVE  f[k] = op[k][f[k - 1]]
  <2>0. k \in Nat /\ n \in Nat /\ k <= n /\ k >= 1
    BY <1>1
  <2>1. 1 .. k \in SUBSET (1 .. n)
    <3>1. \A i \in 1 .. k : i \in 1 .. n
      BY <2>0
    <3> QED
      BY <3>1, Zenon
  <2>2. k \in 1 .. k /\ k \in 0 .. n /\ k - 1 \in 0 .. n
    BY <2>0
  <2>3. Max(1 .. k) = k /\ (1 .. k) \ {k} = 1 .. k - 1
    BY <2>0, MaxOfFirst
  <2>4. pick[1 .. k] = k /\ 1 .. k # {}
    BY <1>2, <2>1, <2>2, <2>3
  <2>5. g[1 .. k] = op[pick[1 .. k]][g[(1 .. k) \ {pick[1 .. k]}]]
    BY <1>7, <2>1, <2>4, Zenon DEF Folds
  <2> QED
    BY <2>2, <2>3, <2>4, <2>5
<1> HIDE DEF f
<1>10. \A k \in 0 .. n : f[k] \in T
  <2>1. ASSUME NEW k \in 1 .. n, f[k - 1] \in T
        PROVE  f[k] \in T
    BY <1>3, <1>9, <2>1, ZenonT(40)
  <2> QED
    BY <1>1, <1>6, <1>8, <2>1, FirstToLast
<1> DEFINE h == [k \in 1 .. n |-> f[k]]
<1>11. ASSUME NEW k \in 1 .. n
       PROVE  f[k] = IF k = 1 THEN q[k] ELSE h[k - 1] \o q[k]
  <2>1. k - 1 \in 0 .. n
    BY <1>1
  <2>2. f[k] = f[k - 1] \o q[k]
    BY <1>3, <1>9, <1>10, <2>1, Zenon
  <2>3. CASE k = 1
    <3>1. f[k - 1] = <<>>
      BY <1>8, <2>3
    <3> QED
      BY <1>5, <2>2, <2>3, <3>1, Zenon
  <2>4. CASE k # 1
    <3>1. k - 1 \in 1 .. n
      BY <1>1, <2>4
    <3>2. h[k - 1] = f[k - 1]
      BY <3>1
    <3> QED
      BY <2>2, <2>4, <3>2, Zenon
  <2> QED
    BY <2>3, <2>4
<1>12. h = [k \in 1 .. n |-> IF k = 1 THEN q[k] ELSE h[k - 1] \o q[k]]
  <2>1. \A k \in 1 .. n : h[k] = f[k]
    OBVIOUS
  <2>2. h = [k \in 1 .. n |-> h[k]]
    OBVIOUS
  <2> HIDE DEF h
  <2>3. \A k \in 1 .. n : h[k] = IF k = 1 THEN q[k] ELSE h[k - 1] \o q[k]
    BY <1>11, <2>1, Zenon
  <2> QED
    BY <2>2, <2>3, Zenon
<1> HIDE DEF h
<1> QED
  BY <1>12, Zenon DEF Joining, n

LEMMA FlattenTyped ==
  ASSUME NEW S, NEW q \in Seq(Seq(S))
  PROVE  FlattenSeq(q) \in Seq(S)
<1> DEFINE n == Len(q)
           T == Seq(S)
           f == CHOOSE h : Joining(q, h)
<1>1. n \in Nat /\ \A i \in 1 .. n : q[i] \in T
  BY SeqIs, Zenon
<1>2. CASE n = 0
  <2>1. FlattenSeq(q) = q /\ q = <<>>
    BY <1>2 DEF FlattenSeq
  <2> QED
    BY <2>1
<1>3. CASE n # 0
  <2>1. Joining(q, f)
    BY JoiningExists, Zenon
  <2>2. FlattenSeq(q) = f[n]
    BY <1>3, FlattenIsChosen
  <2>3. \A a, b \in T : a \o b \in T
    OBVIOUS
  <2>4. <<>> \in T
    OBVIOUS
  <2> HIDE DEF f, T
  <2>5. \A i \in 1 .. n : f[i] = IF i = 1 THEN q[i] ELSE f[i - 1] \o q[i]
    BY <2>1, Zenon DEF Joining
  <2> HIDE DEF n
  <2> DEFINE e == [k \in 0 .. n |-> IF k = 0 THEN <<>> ELSE f[k]]
  <2>6. e[0] = <<>> /\ e[n] = f[n]
    BY <1>1, <1>3
  <2>7. ASSUME NEW k \in 1 .. n, e[k - 1] \in T
        PROVE  e[k] \in T
    <3>1. CASE k = 1
      <4>1. e[k] = f[k] /\ f[k] = q[k]
        BY <1>1, <2>5, <3>1
      <4> QED
        BY <1>1, <4>1, Zenon
    <3>2. CASE k # 1
      <4>1. k \in 0 .. n /\ k - 1 \in 0 .. n /\ k # 0 /\ k - 1 # 0
        BY <1>1, <3>2
      <4>2. e[k] = f[k] /\ e[k - 1] = f[k - 1]
        BY <4>1
      <4>3. f[k] = f[k - 1] \o q[k]
        BY <2>5, <3>2, Zenon
      <4> QED
        BY <1>1, <2>3, <2>7, <4>2, <4>3, Zenon
    <3> QED
      BY <3>1, <3>2
  <2> HIDE DEF e
  <2>8. \A k \in 0 .. n : e[k] \in T
    BY <1>1, <2>4, <2>6, <2>7, FirstToLast
  <2>9. n \in 0 .. n
    BY <1>1
  <2> QED
    BY <2>2, <2>6, <2>8, <2>9 DEF T
<1> QED
  BY <1>2, <1>3
(* The lines of a flow, and the items of its arrays.                       *)
Sections == {"Processors", "Connections", "other"}

Keys ==
  Sections \cup {"", "id", "name", "class", "Properties", "key", "source id",
                "source relationship names", "destination id"}

YamlLine ==
  {l \in [kind : {"header", "item", "field", "prop", "list", "spaced", "deep"},
          key : Keys, val : Int, place : Nat] :
     l.kind = "header" => l.key \in Sections}

JsonItem(d) ==
  {l \in [kind : {"processor", "connection"}, key : {""}, val : Nat,
          place : {0}] :
     l.kind = "processor" => l.val \in DOMAIN d.props}

LEMMA LineTyped ==
  ASSUME NEW key \in Keys, NEW val \in Int
  PROVE  /\ Line("item", key, val) \in YamlLine
         /\ Line("field", key, val) \in YamlLine
         /\ Line("list", key, val) \in YamlLine
         /\ Line("spaced", key, val) \in YamlLine
         /\ key \in Sections => Line("header", key, val) \in YamlLine
<1> HIDE DEF Keys, Sections
<1> QED
  BY DEF YamlLine, Line

LEMMA PropLineTyped ==
  ASSUME NEW val \in Int, NEW j \in Nat
  PROVE  PropLine(j, val) \in YamlLine
<1>1. PropLine(j, val)
        = [kind |-> "prop", key |-> "key", val |-> val, place |-> j]
  BY DEF PropLine, Line
<1>2. "key" \in Keys
  BY DEF Keys
<1> QED
  BY <1>1, <1>2 DEF YamlLine

LEMMA ItemTyped ==
  ASSUME NEW d, NEW i \in Nat
  PROVE  /\ i \in DOMAIN d.props => Line("processor", "", i) \in JsonItem(d)
         /\ Line("connection", "", i) \in JsonItem(d)
BY DEF Line, JsonItem

LEMMA ShortSeqs ==
  ASSUME NEW S, NEW a \in S, NEW b \in S, NEW c \in S, NEW e \in S
  PROVE  /\ <<>> \in Seq(S) /\ <<a>> \in Seq(S)
         /\ <<a, b>> \in Seq(S) /\ <<a, b, c, e>> \in Seq(S)
OBVIOUS

LEMMA JoinedSeqs ==
  ASSUME NEW S, NEW a \in Seq(S), NEW b \in Seq(S)
  PROVE  a \o b \in Seq(S)
OBVIOUS

LEMMA YamlTyped ==
  ASSUME ParserAssumption, NEW d \in Documents
  PROVE  Yaml(d) \in Seq(YamlLine)
<1>1. d.props \in Seq(Nat) /\ d.rels \in Seq(Nat)
  BY DEF ParserAssumption
<1>2. /\ DOMAIN d.props = 1 .. Len(d.props) /\ Len(d.props) \in Nat
      /\ DOMAIN d.rels = 1 .. Len(d.rels) /\ Len(d.rels) \in Nat
      /\ \A i \in DOMAIN d.props : d.props[i] \in Nat /\ i \in Int
      /\ \A i \in DOMAIN d.rels : d.rels[i] \in Nat /\ i \in Int
  BY <1>1
<1>3. /\ \A k \in Sections : k \in Keys
      /\ \A k \in {"", "id", "name", "class", "Properties", "source id",
                    "source relationship names", "destination id"} : k \in Keys
  BY Zenon DEF Keys
<1>4. ASSUME NEW i \in DOMAIN d.props
      PROVE  ProcLines(d, i) \in Seq(YamlLine)
  <2>1. /\ Line("item", "id", i) \in YamlLine
        /\ Line("field", "name", i) \in YamlLine
        /\ Line("field", "class", i) \in YamlLine
        /\ Line("field", "Properties", 0) \in YamlLine
    <3>1. i \in Int /\ 0 \in Int
      BY <1>2
    <3> QED
      BY <1>3, <3>1, LineTyped, Zenon
  <2>2. ClassLine(d, i) \in Seq(YamlLine)
    BY <2>1, ShortSeqs, Zenon DEF ClassLine, Unless
  <2>3. PropLines(d, i) \in Seq(YamlLine)
    <3> DEFINE ps == [j \in 1 .. d.props[i] |->
                        PropLine(j, IF d.cleared /\ j = 1 THEN 0 ELSE i)]
    <3>1. \A j \in 1 .. d.props[i] :
            PropLine(j, IF d.cleared /\ j = 1 THEN 0 ELSE i) \in YamlLine
      <4> TAKE j \in 1 .. d.props[i]
      <4>1. j \in Nat /\ (IF d.cleared /\ j = 1 THEN 0 ELSE i) \in Int
        BY <1>2
      <4> QED
        BY <4>1, PropLineTyped, Zenon
    <3>2. ps \in [1 .. d.props[i] -> YamlLine]
      BY <3>1, Zenon
    <3> HIDE DEF ps
    <3>3. ps \in Seq(YamlLine)
      BY <1>2, <3>2, IsSeq, Zenon
    <3> QED
      BY <2>1, <3>3, ShortSeqs, JoinedSeqs, Zenon DEF PropLines, ps
  <2>4. <<Line("item", "id", i), Line("field", "name", i)>> \in Seq(YamlLine)
    BY <2>1, ShortSeqs, Zenon
  <2> QED
    BY <2>2, <2>3, <2>4, JoinedSeqs, Zenon DEF ProcLines
<1>5. ASSUME NEW i \in DOMAIN d.rels
      PROVE  ConnLines(d, i) \in Seq(YamlLine)
  <2> DEFINE ls == [j \in 1 .. d.rels[i] |-> Line("list", "", j)]
             top == <<Line("item", "id", i), Line("field", "name", i),
                      Line("field", "source id", i),
                      Line("field", "source relationship names", 0)>>
             end == Unless(d.loose, i, <<Line("field", "destination id", i)>>)
  <2>1. /\ Line("item", "id", i) \in YamlLine
        /\ Line("field", "name", i) \in YamlLine
        /\ Line("field", "source id", i) \in YamlLine
        /\ Line("field", "source relationship names", 0) \in YamlLine
        /\ Line("field", "destination id", i) \in YamlLine
    <3>1. i \in Int /\ 0 \in Int
      BY <1>2
    <3> QED
      BY <1>3, <3>1, LineTyped, Zenon
  <2>2. \A j \in 1 .. d.rels[i] : Line("list", "", j) \in YamlLine
    <3> TAKE j \in 1 .. d.rels[i]
    <3>1. j \in Int
      BY <1>2
    <3> QED
      BY <1>3, <3>1, LineTyped, Zenon
  <2>3. ls \in Seq(YamlLine)
    <3>1. ls \in [1 .. d.rels[i] -> YamlLine]
      BY <2>2, Zenon
    <3> HIDE DEF ls
    <3> QED
      BY <1>2, <3>1, IsSeq, Zenon
  <2>4. top \in Seq(YamlLine)
    BY <2>1, ShortSeqs, Zenon
  <2>5. end \in Seq(YamlLine)
    BY <2>1, ShortSeqs, Zenon DEF Unless
  <2>6. top \o ls \in Seq(YamlLine)
    BY <2>3, <2>4, JoinedSeqs, Zenon
  <2>7. (top \o ls) \o end \in Seq(YamlLine)
    BY <2>5, <2>6, JoinedSeqs, Zenon
  <2> QED
    BY <2>7, Zenon DEF ConnLines
<1> DEFINE ps == [i \in DOMAIN d.props |-> ProcLines(d, i)]
           cs == [i \in DOMAIN d.rels |-> ConnLines(d, i)]
           start == <<Line("header", "other", 0), Line("header", "Processors", 0)>>
           middle == <<Line("header", "Connections", 0)>>
<1>6. ps \in Seq(Seq(YamlLine)) /\ cs \in Seq(Seq(YamlLine))
  <2>1. /\ ps \in [1 .. Len(d.props) -> Seq(YamlLine)]
        /\ cs \in [1 .. Len(d.rels) -> Seq(YamlLine)]
    BY <1>2, <1>4, <1>5, Zenon
  <2> HIDE DEF ps, cs
  <2> QED
    BY <1>2, <2>1, IsSeq, Zenon
<1>7. start \in Seq(YamlLine) /\ middle \in Seq(YamlLine)
  <2>1. /\ Line("header", "other", 0) \in YamlLine
        /\ Line("header", "Processors", 0) \in YamlLine
        /\ Line("header", "Connections", 0) \in YamlLine
    <3>1. \A k \in Sections : Line("header", k, 0) \in YamlLine
      <4>1. 0 \in Int
        OBVIOUS
      <4> QED
        BY <1>3, <4>1, LineTyped, Zenon
    <3> QED
      BY <3>1, Zenon DEF Sections
  <2> QED
    BY <2>1, ShortSeqs, Zenon
<1> HIDE DEF ps, cs, start, middle
<1>8. FlattenSeq(ps) \in Seq(YamlLine) /\ FlattenSeq(cs) \in Seq(YamlLine)
  BY <1>6, FlattenTyped, Zenon
<1>9. start \o FlattenSeq(ps) \in Seq(YamlLine)
  BY <1>7, <1>8, JoinedSeqs, Zenon
<1>10. (start \o FlattenSeq(ps)) \o middle \in Seq(YamlLine)
  BY <1>7, <1>9, JoinedSeqs, Zenon
<1>11. ((start \o FlattenSeq(ps)) \o middle) \o FlattenSeq(cs) \in Seq(YamlLine)
  BY <1>8, <1>10, JoinedSeqs, Zenon
<1> QED
  BY <1>11, Zenon DEF Yaml, ps, cs, start, middle

LEMMA JsonTyped ==
  ASSUME ParserAssumption, NEW d \in Documents
  PROVE  Json(d) \in Seq(JsonItem(d))
<1>1. d.props \in Seq(Nat) /\ d.rels \in Seq(Nat)
  BY DEF ParserAssumption
<1>2. /\ DOMAIN d.props = 1 .. Len(d.props) /\ Len(d.props) \in Nat
      /\ DOMAIN d.rels = 1 .. Len(d.rels) /\ Len(d.rels) \in Nat
      /\ \A i \in DOMAIN d.props : i \in Nat
      /\ \A i \in DOMAIN d.rels : i \in Nat
  BY <1>1
<1> DEFINE ps == [i \in DOMAIN d.props |-> Line("processor", "", i)]
           cs == [i \in DOMAIN d.rels |-> Line("connection", "", i)]
<1>3. /\ ps \in [1 .. Len(d.props) -> JsonItem(d)]
      /\ cs \in [1 .. Len(d.rels) -> JsonItem(d)]
  BY <1>2, ItemTyped, Zenon
<1> HIDE DEF ps, cs
<1>4. ps \in Seq(JsonItem(d)) /\ cs \in Seq(JsonItem(d))
  BY <1>2, <1>3, IsSeq, Zenon
<1>5. ps \o cs \in Seq(JsonItem(d))
  BY <1>4, JoinedSeqs, Zenon
<1> QED
  BY <1>5, Zenon DEF Json, ps, cs
LEMMA ShortenedTyped ==
  ASSUME NEW l \in YamlLine, NEW m \in Shortened(l)
  PROVE  m \in YamlLine
<1>1. l \in [kind : {"header", "item", "field", "prop", "list", "spaced", "deep"},
             key : Keys, val : Int, place : Nat]
      /\ (l.kind = "header" => l.key \in Sections)
  BY DEF YamlLine
<1>2. "other" \in Keys /\ "other" \in Sections
  BY DEF Keys, Sections
<1>3. CASE m = Line(l.kind, "other", 0)
  BY <1>1, <1>2, <1>3 DEF Line, YamlLine
<1>4. ASSUME NEW v \in {0, Cut}, l.kind # "header", m = [l EXCEPT !.val = v]
      PROVE  m \in YamlLine
  <2>1. v \in Int
    BY DEF Cut
  <2> QED
    BY <1>1, <1>4, <2>1 DEF YamlLine
<1>5. \/ m = Line(l.kind, "other", 0)
      \/ \E v \in {0, Cut} : l.kind # "header" /\ m = [l EXCEPT !.val = v]
  BY DEF Shortened
<1> QED
  BY <1>3, <1>4, <1>5

LEMMA RestTyped ==
  ASSUME NEW r \in Rest
  PROVE  r \in YamlLine
<1>1. Cut \in Int
  BY DEF Cut
<1>2. /\ \A key \in Sections : key \in Keys
      /\ \A key \in FieldKeys : key \in Keys
      /\ "key" \in Keys /\ "" \in Keys
  BY DEF Keys, Sections, FieldKeys
<1>3. "id" \in FieldKeys /\ "other" \in FieldKeys
  BY DEF FieldKeys
<1>4. ASSUME NEW kind \in {"prop", "deep"}, NEW key \in Keys
      PROVE  Line(kind, key, Cut) \in YamlLine
  <2> HIDE DEF Keys, Cut, Sections
  <2>1. Line(kind, key, Cut)
          = [kind |-> kind, key |-> key, val |-> Cut, place |-> 0]
    BY DEF Line
  <2> QED
    BY <1>1, <2>1 DEF YamlLine
<1>5. \/ \E key \in Sections : r = Line("header", key, Cut)
      \/ \E key \in FieldKeys : r = Line("item", key, Cut)
      \/ \E key \in FieldKeys : r = Line("field", key, Cut)
      \/ \E key \in FieldKeys \cup {"key"} : r = Line("prop", key, Cut)
      \/ r = Line("list", "", Cut)
      \/ r = Line("spaced", "", Cut)
      \/ r = Line("deep", "", Cut)
  BY <1>3 DEF Rest, Sections
<1> QED
  BY <1>1, <1>2, <1>4, <1>5, LineTyped, Zenon

(* What holds for 0 and for each after the one before holds for all.       *)
LEMMA Counting ==
  ASSUME NEW n \in Nat, NEW C, 0 \in C, \A k \in 1 .. n : k - 1 \in C => k \in C
  PROVE  \A k \in 0 .. n : k \in C
<1> DEFINE f == [k \in 0 .. n |-> k]
<1>1. f[0] \in C /\ \A k \in 1 .. n : f[k - 1] \in C => f[k] \in C
  OBVIOUS
<1> HIDE DEF f
<1>2. \A k \in 0 .. n : f[k] \in C
  BY <1>1, FirstToLast
<1> QED
  BY <1>2 DEF f

Joined(q, a, b) ==
  /\ Len(q) = Len(a) + Len(b)
  /\ \A i \in 1 .. Len(a) : q[i] = a[i]
  /\ \A i \in 1 .. Len(b) : q[Len(a) + i] = b[i]

(* Two sequences put one behind the other: where their elements are.       *)
LEMMA ConcatIs ==
  ASSUME NEW S, NEW a \in Seq(S), NEW b \in Seq(S)
  PROVE  a \o b \in Seq(S) /\ Joined(a \o b, a, b)
BY DEF Joined

(* Sequences with the same elements are the same.                          *)
LEMMA SameSeq ==
  ASSUME NEW S, NEW a \in Seq(S), NEW b \in Seq(S), Len(a) = Len(b),
         \A i \in 1 .. Len(a) : a[i] = b[i]
  PROVE  a = b
OBVIOUS

LEMMA ConcatAssociates ==
  ASSUME NEW S, NEW a \in Seq(S), NEW b \in Seq(S), NEW c \in Seq(S)
  PROVE  (a \o b) \o c = a \o (b \o c)
OBVIOUS

LEMMA ConcatEmpty ==
  ASSUME NEW S, NEW a \in Seq(S)
  PROVE  a \o <<>> = a /\ <<>> \o a = a
OBVIOUS

(* A sequence is flattened one element after the other.                    *)
LEMMA FlattenBy ==
  ASSUME NEW S, NEW q \in Seq(Seq(S))
  PROVE  \E f : /\ FlattenSeq(q) = f[Len(q)] /\ f[0] = <<>>
               /\ \A i \in 1 .. Len(q) : f[i] = f[i - 1] \o q[i]
<1>1. PICK n \in Nat : n = Len(q)
  OBVIOUS
<1>2. \A i \in 1 .. n : q[i] \in Seq(S)
  BY <1>1
<1>3. CASE n = 0
  <2>1. FlattenSeq(q) = <<>>
    <3>1. Len(q) = 0
      BY <1>1, <1>3
    <3>2. q = <<>> /\ FlattenSeq(q) = q
      BY <3>1 DEF FlattenSeq
    <3> QED
      BY <3>1, <3>2, Zenon
  <2> DEFINE f == [i \in {0} |-> <<>>]
  <2>2. f[0] = <<>> /\ \A i \in 1 .. 0 : f[i] = f[i - 1] \o q[i]
    OBVIOUS
  <2> QED
    BY <1>1, <1>3, <2>1, <2>2, Zenon
<1>4. CASE n # 0
  <2>1. PICK h : Joining(q, h) /\ FlattenSeq(q) = h[n]
    BY <1>1, <1>4, JoiningExists, FlattenIsChosen, Zenon
  <2>2. \A i \in 1 .. n : h[i] = IF i = 1 THEN q[i] ELSE h[i - 1] \o q[i]
    BY <1>1, <2>1, Zenon DEF Joining
  <2> DEFINE f == [k \in 0 .. n |-> IF k = 0 THEN <<>> ELSE h[k]]
  <2>3. f[0] = <<>> /\ f[n] = h[n]
    BY <1>4
  <2>4. ASSUME NEW i \in 1 .. n PROVE f[i] = f[i - 1] \o q[i]
    <3>1. CASE i = 1
      <4>1. f[i] = q[i] /\ f[i - 1] = <<>>
        BY <2>2, <3>1
      <4>2. q[i] \in Seq(S)
        BY <1>2
      <4> HIDE DEF f
      <4>3. <<>> \o q[i] = q[i]
        BY <4>2, ConcatEmpty, Zenon
      <4> QED
        BY <4>1, <4>3, Zenon
    <3>2. CASE i # 1
      <4>1. f[i] = h[i] /\ f[i - 1] = h[i - 1]
        BY <3>2
      <4> HIDE DEF f
      <4> QED
        BY <2>2, <3>2, <4>1, Zenon
    <3> QED
      BY <3>1, <3>2
  <2> HIDE DEF f
  <2> QED
    BY <1>1, <2>1, <2>3, <2>4, Zenon
<1> QED
  BY <1>3, <1>4

(* A sequence of sequences put one behind the other, first one first.      *)
LEMMA FlattenFirst ==
  ASSUME NEW S, NEW q \in Seq(Seq(S)), Len(q) # 0
  PROVE  FlattenSeq(q) = q[1] \o FlattenSeq(Tail(q))
<1>1. PICK n \in Nat : n + 1 = Len(q)
  <2>1. Len(q) \in Nat
    OBVIOUS
  <2>2. Len(q) - 1 \in Nat /\ Len(q) - 1 + 1 = Len(q)
    BY <2>1
  <2> QED
    BY <2>2, Zenon
<1>2. PICK r \in Seq(Seq(S)) : r = Tail(q)
  <2>1. q # <<>>
    OBVIOUS
  <2>2. Tail(q) \in Seq(Seq(S))
    BY <2>1
  <2> QED
    BY <2>2, Zenon
<1>3. /\ \A i \in 1 .. n + 1 : q[i] \in Seq(S)
      /\ Len(r) = n /\ \A i \in 1 .. n : r[i] = q[i + 1]
  BY <1>1, <1>2
<1>4. PICK f : /\ FlattenSeq(q) = f[n + 1] /\ f[0] = <<>>
               /\ \A i \in 1 .. n + 1 : f[i] = f[i - 1] \o q[i]
  BY <1>1, FlattenBy, Zenon
<1>5. PICK g : /\ FlattenSeq(r) = g[n] /\ g[0] = <<>>
               /\ \A i \in 1 .. n : g[i] = g[i - 1] \o r[i]
  BY <1>3, FlattenBy, Zenon
<1>6. PICK a \in Seq(S) : a = q[1]
  BY <1>3
<1> DEFINE C == {k \in Nat : f[k + 1] = a \o g[k] /\ g[k] \in Seq(S)}
<1> HIDE DEF C
<1>7. 0 \in C
  <2>1. f[1] = f[0] \o q[1]
    <3>1. 1 \in 1 .. n + 1 /\ 1 - 1 = 0
      BY <1>1
    <3>2. f[1] = f[1 - 1] \o q[1]
      BY <1>4, <3>1, Zenon
    <3> QED
      BY <3>1, <3>2, Zenon
  <2>2. <<>> \o a = a /\ a \o <<>> = a /\ <<>> \in Seq(S)
    BY <1>6, ConcatEmpty
  <2>3. 0 \in Nat /\ 0 + 1 = 1
    OBVIOUS
  <2>4. f[0 + 1] = a \o g[0] /\ g[0] \in Seq(S)
    BY <1>4, <1>5, <1>6, <2>1, <2>2, <2>3, Zenon
  <2> QED
    BY <2>3, <2>4, Zenon DEF C
<1>8. ASSUME NEW k \in 1 .. n, k - 1 \in C
      PROVE  k \in C
  <2>1. (k - 1) + 1 = k /\ k \in Nat /\ k + 1 \in 1 .. n + 1 /\ (k + 1) - 1 = k
    BY <1>1
  <2>2. f[(k - 1) + 1] = a \o g[k - 1] /\ g[k - 1] \in Seq(S)
    BY <1>8, Zenon DEF C
  <2>3. f[k + 1] = f[k] \o q[k + 1]
    BY <1>4, <2>1, Zenon
  <2>4. PICK b \in Seq(S) : b = q[k + 1] /\ b = r[k]
    BY <1>3, <2>1, Zenon
  <2>5. PICK c \in Seq(S) : c = g[k - 1]
    BY <2>2, Zenon
  <2>6. g[k] = c \o b
    BY <1>5, <2>4, <2>5, Zenon
  <2>7. f[k + 1] = (a \o c) \o b
    BY <2>1, <2>2, <2>3, <2>4, <2>5, Zenon
  <2>8. (a \o c) \o b = a \o (c \o b) /\ c \o b \in Seq(S)
    <3>1. a \in Seq(S) /\ b \in Seq(S) /\ c \in Seq(S)
      BY <1>6, <2>4, <2>5, Zenon
    <3>2. c \o b \in Seq(S)
      BY <3>1, JoinedSeqs, Zenon
    <3>3. (a \o c) \o b = a \o (c \o b)
      BY <3>1
    <3> QED
      BY <3>2, <3>3, Zenon
  <2> QED
    BY <2>1, <2>6, <2>7, <2>8, Zenon DEF C
<1>9. n \in C
  <2>1. n \in 0 .. n
    BY <1>1
  <2> QED
    BY <1>1, <1>7, <1>8, <2>1, Counting
<1> QED
  BY <1>2, <1>4, <1>5, <1>6, <1>9, Zenon DEF C

----------------------------------------------------------------------------
(* The lines of a flow.                                                    *)

(* Where the lines of a processor are, and those of a connection.          *)
PropsAt(d, i) == IF i # d.untyped /\ ~d.propsFirst THEN 4 ELSE 3
ClassAt(d, i) == IF d.propsFirst THEN 4 + d.props[i] ELSE 3

ProcSize(d, i) ==
  IF i = 0 THEN 0 ELSE 3 + d.props[i] + (IF i # d.untyped THEN 1 ELSE 0)

IsPropAt(d, i, t) ==
  i > 0 /\ t > PropsAt(d, i) /\ t <= PropsAt(d, i) + d.props[i]

PropOf(d, i, j) == PropLine(j, IF d.cleared /\ j = 1 THEN 0 ELSE i)

ProcLine(d, i, t) ==
  CASE t = 1             -> Line("item", "id", i)
    [] t = 2             -> Line("field", "name", i)
    [] t = PropsAt(d, i) -> Line("field", "Properties", 0)
    [] IsPropAt(d, i, t) -> PropOf(d, i, t - PropsAt(d, i))
    [] OTHER             -> Line("field", "class", i)

ConnSize(d, i) ==
  IF i = 0 THEN 0 ELSE 4 + d.rels[i] + (IF i # d.loose THEN 1 ELSE 0)

ConnLine(d, i, t) ==
  CASE t = 1             -> Line("item", "id", i)
    [] t = 2             -> Line("field", "name", i)
    [] t = 3             -> Line("field", "source id", i)
    [] t = 4             -> Line("field", "source relationship names", 0)
    [] t \in 5 .. 4 + d.rels[i] -> Line("list", "", t - 4)
    [] OTHER             -> Line("field", "destination id", i)

LEMMA ShortSeqsAre ==
  ASSUME NEW S, NEW a \in S, NEW b \in S, NEW c \in S, NEW e \in S
  PROVE  /\ <<>> \in Seq(S) /\ Len(<<>>) = 0
         /\ <<a>> \in Seq(S) /\ Len(<<a>>) = 1 /\ <<a>>[1] = a
         /\ <<a, b>> \in Seq(S) /\ Len(<<a, b>>) = 2
         /\ <<a, b>>[1] = a /\ <<a, b>>[2] = b
         /\ <<a, b, c, e>> \in Seq(S) /\ Len(<<a, b, c, e>>) = 4
         /\ <<a, b, c, e>>[1] = a /\ <<a, b, c, e>>[2] = b
         /\ <<a, b, c, e>>[3] = c /\ <<a, b, c, e>>[4] = e
OBVIOUS

(* Three sequences put one behind the other: where their elements are.     *)
JoinThree(q, u, v, w) == q = u \o (v \o w) \/ q = (u \o v) \o w

AreThree(S, q, u, v, w) ==
  /\ q \in Seq(S) /\ Len(q) = Len(u) + Len(v) + Len(w)
  /\ \A j \in 1 .. Len(u) : q[j] = u[j]
  /\ \A j \in 1 .. Len(v) : q[Len(u) + j] = v[j]
  /\ \A j \in 1 .. Len(w) : q[Len(u) + Len(v) + j] = w[j]

LEMMA ThreeParts ==
  ASSUME NEW S, NEW u \in Seq(S), NEW v \in Seq(S), NEW w \in Seq(S), NEW q,
         JoinThree(q, u, v, w)
  PROVE  AreThree(S, q, u, v, w)
<1>1. q = (u \o v) \o w
  <2>1. (u \o v) \o w = u \o (v \o w)
    BY ConcatAssociates, SMT
  <2> QED
    BY <2>1, Zenon DEF JoinThree
<1> DEFINE x == u \o v
<1>2. /\ x \in Seq(S) /\ Len(x) = Len(u) + Len(v)
      /\ \A j \in 1 .. Len(u) : x[j] = u[j]
      /\ \A j \in 1 .. Len(v) : x[Len(u) + j] = v[j]
  OBVIOUS
<1>3. q = x \o w
  BY <1>1, Zenon
<1> HIDE DEF x
<1>4. /\ q \in Seq(S) /\ Len(q) = Len(x) + Len(w)
      /\ \A j \in 1 .. Len(x) : q[j] = x[j]
      /\ \A j \in 1 .. Len(w) : q[Len(x) + j] = w[j]
  <2>1. x \o w \in Seq(S) /\ Joined(x \o w, x, w)
    BY <1>2, ConcatIs, Zenon
  <2>2. q \in Seq(S) /\ Joined(q, x, w)
    BY <1>3, <2>1, Zenon
  <2> QED
    BY <2>2, Zenon DEF Joined
<1>5. Len(u) \in Nat /\ Len(v) \in Nat /\ Len(w) \in Nat
  OBVIOUS
<1>6. /\ \A j \in 1 .. Len(u) : j \in 1 .. Len(x)
      /\ \A j \in 1 .. Len(v) : Len(u) + j \in 1 .. Len(x)
  BY <1>2, <1>5
<1>7. /\ \A j \in 1 .. Len(u) : q[j] = u[j]
      /\ \A j \in 1 .. Len(v) : q[Len(u) + j] = v[j]
      /\ \A j \in 1 .. Len(w) : q[Len(u) + Len(v) + j] = w[j]
  BY <1>2, <1>4, <1>6, Zenon
<1>8. q \in Seq(S) /\ Len(q) = Len(u) + Len(v) + Len(w)
  BY <1>2, <1>4
<1> QED
  BY <1>7, <1>8, Zenon DEF AreThree

(* The parts of a document and their types.                                *)
LEMMA DocumentIs ==
  ASSUME ParserAssumption, NEW d \in Documents
  PROVE  /\ d.props \in Seq(Nat) /\ Len(d.props) \in Nat
         /\ DOMAIN d.props = 1 .. Len(d.props)
         /\ \A i \in 1 .. Len(d.props) : d.props[i] \in Nat /\ i \in Nat
         /\ d.rels \in Seq(Nat) /\ Len(d.rels) \in Nat
         /\ DOMAIN d.rels = 1 .. Len(d.rels)
         /\ \A i \in 1 .. Len(d.rels) : d.rels[i] \in Nat /\ i \in Nat
         /\ d.untyped \in Nat /\ d.loose \in Nat
         /\ d.cleared \in BOOLEAN /\ d.propsFirst \in BOOLEAN
<1>1. /\ d.props \in Seq(Nat) /\ d.rels \in Seq(Nat)
      /\ d.untyped \in Nat /\ d.loose \in Nat
      /\ d.cleared \in BOOLEAN /\ d.propsFirst \in BOOLEAN
  BY DEF ParserAssumption
<1>2. /\ Len(d.props) \in Nat /\ DOMAIN d.props = 1 .. Len(d.props)
      /\ \A i \in 1 .. Len(d.props) : d.props[i] \in Nat
      /\ Len(d.rels) \in Nat /\ DOMAIN d.rels = 1 .. Len(d.rels)
      /\ \A i \in 1 .. Len(d.rels) : d.rels[i] \in Nat
  BY <1>1, SeqIs, Zenon
<1>3. /\ \A i \in 1 .. Len(d.props) : i \in Nat
      /\ \A i \in 1 .. Len(d.rels) : i \in Nat
  BY <1>2
<1> QED
  BY <1>1, <1>2, <1>3, Zenon

(* The lines of a processor: where each of them is, and that there is no   *)
(* other.                                                                  *)
LEMMA ProcLineIs ==
  ASSUME ParserAssumption, NEW d \in Documents, NEW i \in 1 .. Len(d.props)
  PROVE  /\ ProcSize(d, i) \in Nat /\ PropsAt(d, i) \in {3, 4}
         /\ PropsAt(d, i) + d.props[i] <= ProcSize(d, i)
         /\ ClassAt(d, i) \in Nat /\ ClassAt(d, i) > 2
         /\ ProcLine(d, i, 1) = Line("item", "id", i)
         /\ ProcLine(d, i, 2) = Line("field", "name", i)
         /\ ProcLine(d, i, PropsAt(d, i)) = Line("field", "Properties", 0)
         /\ \A t \in Nat : IsPropAt(d, i, t) =>
              ProcLine(d, i, t) = PropOf(d, i, t - PropsAt(d, i))
         /\ i # d.untyped =>
              /\ ProcLine(d, i, ClassAt(d, i)) = Line("field", "class", i)
              /\ ClassAt(d, i) <= ProcSize(d, i)
              /\ ClassAt(d, i) # PropsAt(d, i) /\ ~IsPropAt(d, i, ClassAt(d, i))
         /\ \A t \in 1 .. ProcSize(d, i) :
              \/ t \in {1, 2, PropsAt(d, i)} \/ IsPropAt(d, i, t)
              \/ i # d.untyped /\ t = ClassAt(d, i)
<1>1. /\ d.props[i] \in Nat /\ i \in Nat /\ i # 0 /\ i > 0
      /\ d.untyped \in Nat /\ d.propsFirst \in BOOLEAN
  BY DocumentIs
<1> DEFINE k == d.props[i]
           o == PropsAt(d, i)
           c == ClassAt(d, i)
           n == ProcSize(d, i)
<1>2. /\ o = IF i # d.untyped /\ ~d.propsFirst THEN 4 ELSE 3
      /\ c = IF d.propsFirst THEN 4 + k ELSE 3
      /\ n = 3 + k + (IF i # d.untyped THEN 1 ELSE 0)
  BY <1>1 DEF PropsAt, ClassAt, ProcSize
<1>3. \A t : IsPropAt(d, i, t) <=> t > o /\ t <= o + k
  BY <1>1 DEF IsPropAt
<1>4. k \in Nat
  BY <1>1
<1>5. \A t : ProcLine(d, i, t) =
        CASE t = 1             -> Line("item", "id", i)
          [] t = 2             -> Line("field", "name", i)
          [] t = o             -> Line("field", "Properties", 0)
          [] IsPropAt(d, i, t) -> PropOf(d, i, t - o)
          [] OTHER             -> Line("field", "class", i)
  BY DEF ProcLine
<1> HIDE DEF k, o, c, n
<1>6. /\ n \in Nat /\ o \in {3, 4} /\ o + k <= n /\ c \in Nat /\ c > 2
      /\ i # d.untyped => c <= n /\ c # o /\ ~IsPropAt(d, i, c)
      /\ \A t \in 1 .. n :
           \/ t \in {1, 2, o} \/ IsPropAt(d, i, t)
           \/ i # d.untyped /\ t = c
  <2>1. /\ n \in Nat /\ o \in {3, 4} /\ o + k <= n /\ c \in Nat /\ c > 2
        /\ i # d.untyped => c <= n /\ c # o /\ ~(c > o /\ c <= o + k)
        /\ \A t \in 1 .. n :
             \/ t \in {1, 2, o} \/ (t > o /\ t <= o + k)
             \/ i # d.untyped /\ t = c
    <3>1. CASE i = d.untyped
      <4>1. o = 3 /\ n = 3 + k /\ c \in {3, 4 + k}
        BY <1>2, <1>4, <3>1
      <4> QED
        BY <1>4, <3>1, <4>1
    <3>2. CASE i # d.untyped /\ d.propsFirst
      <4>1. o = 3 /\ n = 4 + k /\ c = 4 + k
        BY <1>2, <1>4, <3>2
      <4> QED
        BY <1>4, <3>2, <4>1
    <3>3. CASE i # d.untyped /\ ~d.propsFirst
      <4>1. o = 4 /\ n = 4 + k /\ c = 3
        BY <1>2, <1>4, <3>3
      <4> QED
        BY <1>4, <3>3, <4>1
    <3> QED
      BY <3>1, <3>2, <3>3, Zenon
  <2> QED
    BY <1>3, <2>1, Zenon
<1>7. ~IsPropAt(d, i, 1) /\ ~IsPropAt(d, i, 2) /\ ~IsPropAt(d, i, o)
  BY <1>3, <1>6
<1>8. /\ ProcLine(d, i, 1) = Line("item", "id", i)
      /\ ProcLine(d, i, 2) = Line("field", "name", i)
      /\ ProcLine(d, i, o) = Line("field", "Properties", 0)
  BY <1>5, <1>6, <1>7
<1>9. ASSUME NEW t \in Nat, IsPropAt(d, i, t)
      PROVE  ProcLine(d, i, t) = PropOf(d, i, t - o)
  <2>1. t # 1 /\ t # 2 /\ t # o
    BY <1>3, <1>6, <1>9
  <2> QED
    BY <1>5, <1>9, <2>1
<1>10. i # d.untyped => ProcLine(d, i, c) = Line("field", "class", i)
  <2>1. c # 1 /\ c # 2
    BY <1>6
  <2> QED
    BY <1>5, <1>6, <2>1
<1> QED
  BY <1>6, <1>8, <1>9, <1>10 DEF k, o, c, n

(* The lines of a processor, counted.                                      *)
LEMMA ProcLinesAre ==
  ASSUME ParserAssumption, NEW d \in Documents, NEW i \in 1 .. Len(d.props)
  PROVE  /\ ProcLines(d, i) \in Seq(YamlLine)
         /\ Len(ProcLines(d, i)) = ProcSize(d, i)
         /\ \A t \in 1 .. ProcSize(d, i) : ProcLines(d, i)[t] = ProcLine(d, i, t)
<1>1. /\ d.props[i] \in Nat /\ i \in Nat /\ i # 0
      /\ d.untyped \in Nat /\ d.propsFirst \in BOOLEAN
  BY DocumentIs
<1> DEFINE k == d.props[i]
           a == Line("item", "id", i)
           b == Line("field", "name", i)
           p == Line("field", "Properties", 0)
           c == Line("field", "class", i)
           ps == [j \in 1 .. k |-> PropOf(d, i, j)]
           pl == PropLines(d, i)
           cl == ClassLine(d, i)
           q == ProcLines(d, i)
           top == <<a, b>>
<1>0. k \in Nat
  BY <1>1
<1>2. a \in YamlLine /\ b \in YamlLine /\ p \in YamlLine /\ c \in YamlLine
  <2>1. i \in Int /\ 0 \in Int
    BY <1>1
  <2>2. "id" \in Keys /\ "name" \in Keys /\ "Properties" \in Keys /\ "class" \in Keys
    BY DEF Keys
  <2> QED
    BY <2>1, <2>2, LineTyped, Zenon
<1>3. ps \in Seq(YamlLine) /\ Len(ps) = k
  <2>1. \A j \in 1 .. k : PropOf(d, i, j) \in YamlLine
    <3> TAKE j \in 1 .. k
    <3>1. j \in Nat /\ (IF d.cleared /\ j = 1 THEN 0 ELSE i) \in Int
      BY <1>1
    <3> QED
      BY <3>1, PropLineTyped, Zenon DEF PropOf
  <2>2. ps \in [1 .. k -> YamlLine]
    BY <2>1, Zenon
  <2> HIDE DEF ps
  <2> QED
    BY <1>1, <2>2, IsSeq, Zenon
<1>4. pl = <<p>> \o ps
  BY Zenon DEF PropLines, PropOf
<1>5. cl = IF i = d.untyped THEN <<>> ELSE <<c>>
  BY Zenon DEF ClassLine, Unless
<1>6. q = top \o (IF d.propsFirst THEN pl \o cl ELSE cl \o pl)
  BY Zenon DEF ProcLines
<1>7. \A j \in 1 .. k : ps[j] = PropOf(d, i, j)
  OBVIOUS
<1> HIDE DEF a, b, p, c, ps, pl, cl, q, k
<1>8. /\ <<p>> \in Seq(YamlLine) /\ Len(<<p>>) = 1 /\ <<p>>[1] = p
      /\ top \in Seq(YamlLine) /\ Len(top) = 2 /\ top[1] = a /\ top[2] = b
  BY <1>2, ShortSeqsAre, Zenon
<1> HIDE DEF top
<1>9. /\ pl \in Seq(YamlLine) /\ Len(pl) = 1 + k /\ pl[1] = p
      /\ \A j \in 1 .. k : pl[1 + j] = PropOf(d, i, j)
  BY <1>0, <1>3, <1>4, <1>7, <1>8
<1>10. /\ cl \in Seq(YamlLine) /\ Len(cl) = (IF i = d.untyped THEN 0 ELSE 1)
       /\ i # d.untyped => cl[1] = c
  BY <1>2, <1>5
<1>11. CASE d.propsFirst
  <2>1. /\ q \in Seq(YamlLine) /\ Len(q) = 2 + (1 + k) + Len(cl)
        /\ \A j \in 1 .. 2 : q[j] = top[j]
        /\ \A j \in 1 .. 1 + k : q[2 + j] = pl[j]
        /\ \A j \in 1 .. Len(cl) : q[2 + (1 + k) + j] = cl[j]
    <3>1. q = top \o (pl \o cl)
      BY <1>6, <1>11, Zenon
    <3>2. /\ q \in Seq(YamlLine) /\ Len(q) = Len(top) + Len(pl) + Len(cl)
          /\ \A j \in 1 .. Len(top) : q[j] = top[j]
          /\ \A j \in 1 .. Len(pl) : q[Len(top) + j] = pl[j]
          /\ \A j \in 1 .. Len(cl) : q[Len(top) + Len(pl) + j] = cl[j]
      <4>1. top \in Seq(YamlLine) /\ pl \in Seq(YamlLine) /\ cl \in Seq(YamlLine)
        BY <1>8, <1>9, <1>10, Zenon
      <4>2. JoinThree(q, top, pl, cl)
        BY <3>1, Zenon DEF JoinThree
      <4>3. AreThree(YamlLine, q, top, pl, cl)
        BY <4>1, <4>2, ThreeParts, Zenon
      <4> QED
        BY <4>3, Zenon DEF AreThree
    <3> QED
      BY <1>8, <1>9, <3>2
  <2>2. /\ PropsAt(d, i) = 3 /\ ClassAt(d, i) = 4 + k
        /\ ProcSize(d, i) = 3 + k + (IF i # d.untyped THEN 1 ELSE 0)
    BY <1>1, <1>11 DEF PropsAt, ClassAt, ProcSize, k
  <2>3. q[1] = a /\ q[2] = b /\ q[3] = p
    <3>1. q[2 + 1] = p
      BY <1>0, <1>1, <1>8, <1>9, <2>1
    <3> QED
      BY <1>8, <2>1, <3>1
  <2>4. ASSUME NEW j \in 1 .. k PROVE q[3 + j] = PropOf(d, i, j)
    <3>1. q[2 + (1 + j)] = pl[1 + j] /\ 2 + (1 + j) = 3 + j
      <4>1. \A m \in Nat : \A j1 \in 1 .. m :
              1 + j1 \in 1 .. 1 + m /\ 2 + (1 + j1) = 3 + j1
        OBVIOUS
      <4> QED
        BY <1>0, <2>1, <4>1, Zenon
    <3> QED
      BY <1>9, <3>1, Zenon
  <2>5. i # d.untyped => q[4 + k] = c
    <3>1. i # d.untyped => q[2 + (1 + k) + 1] = c
      BY <1>0, <1>1, <1>8, <1>9, <1>10, <2>1
    <3>2. 2 + (1 + k) + 1 = 4 + k
      BY <1>0, <1>1
    <3> QED
      BY <3>1, <3>2
  <2>6. Len(q) = ProcSize(d, i)
    <3>1. \A x \in Nat : \A e \in {0, 1} : 2 + (1 + x) + e = 3 + x + e
      OBVIOUS
    <3>2. Len(cl) = (IF i # d.untyped THEN 1 ELSE 0) /\ Len(cl) \in {0, 1}
      BY <1>10
    <3> QED
      BY <1>0, <2>1, <2>2, <3>1, <3>2, Zenon
  <2>7. ASSUME NEW t \in 1 .. ProcSize(d, i)
        PROVE  q[t] = ProcLine(d, i, t)
    <3>1. \/ t \in {1, 2, PropsAt(d, i)} \/ IsPropAt(d, i, t)
          \/ i # d.untyped /\ t = ClassAt(d, i)
      BY ProcLineIs
    <3>2. CASE t \in {1, 2, PropsAt(d, i)}
      BY <2>2, <2>3, <3>2, ProcLineIs DEF a, b, p
    <3>3. CASE IsPropAt(d, i, t)
      <4>1. t - 3 \in 1 .. k /\ 3 + (t - 3) = t /\ t \in Nat
        <5>1. t > 3 /\ t <= 3 + k
          BY <2>2, <3>3, Zenon DEF IsPropAt, k
        <5>2. \A n : \A x \in 1 .. n : x \in Nat
          OBVIOUS
        <5>3. \A x \in Nat : \A m \in Nat :
                x > 3 /\ x <= 3 + m => x - 3 \in 1 .. m /\ 3 + (x - 3) = x
          OBVIOUS
        <5> QED
          BY <1>0, <5>1, <5>2, <5>3, Zenon
      <4>2. ProcLine(d, i, t) = PropOf(d, i, t - 3)
        BY <2>2, <3>3, <4>1, ProcLineIs
      <4>3. q[3 + (t - 3)] = PropOf(d, i, t - 3)
        BY <2>4, <4>1, Zenon
      <4> QED
        BY <4>1, <4>2, <4>3
    <3>4. CASE i # d.untyped /\ t = ClassAt(d, i)
      BY <2>2, <2>5, <3>4, ProcLineIs DEF c
    <3> QED
      BY <3>1, <3>2, <3>3, <3>4
  <2> QED
    BY <2>1, <2>6, <2>7 DEF q
<1>12. CASE ~d.propsFirst
  <2> DEFINE m == Len(cl)
  <2>1. /\ q \in Seq(YamlLine) /\ Len(q) = 2 + m + (1 + k)
        /\ \A j \in 1 .. 2 : q[j] = top[j]
        /\ \A j \in 1 .. m : q[2 + j] = cl[j]
        /\ \A j \in 1 .. 1 + k : q[2 + m + j] = pl[j]
    <3>1. q = top \o (cl \o pl)
      BY <1>6, <1>12, Zenon
    <3>2. /\ q \in Seq(YamlLine) /\ Len(q) = Len(top) + Len(cl) + Len(pl)
          /\ \A j \in 1 .. Len(top) : q[j] = top[j]
          /\ \A j \in 1 .. Len(cl) : q[Len(top) + j] = cl[j]
          /\ \A j \in 1 .. Len(pl) : q[Len(top) + Len(cl) + j] = pl[j]
      <4>1. top \in Seq(YamlLine) /\ pl \in Seq(YamlLine) /\ cl \in Seq(YamlLine)
        BY <1>8, <1>9, <1>10, Zenon
      <4>2. JoinThree(q, top, cl, pl)
        BY <3>1, Zenon DEF JoinThree
      <4>3. AreThree(YamlLine, q, top, cl, pl)
        BY <4>1, <4>2, ThreeParts, Zenon
      <4> QED
        BY <4>3, Zenon DEF AreThree
    <3> QED
      BY <1>8, <1>9, <3>2
  <2>2. /\ PropsAt(d, i) = 3 + m /\ ClassAt(d, i) = 3
        /\ ProcSize(d, i) = 3 + k + m /\ m \in {0, 1}
        /\ m = (IF i = d.untyped THEN 0 ELSE 1)
    BY <1>1, <1>10, <1>12 DEF PropsAt, ClassAt, ProcSize, k
  <2>3. q[1] = a /\ q[2] = b /\ q[3 + m] = p
    <3>1. q[(2 + m) + 1] = p /\ (2 + m) + 1 = 3 + m
      BY <1>0, <1>1, <1>8, <1>9, <2>1, <2>2
    <3> QED
      BY <1>8, <2>1, <3>1
  <2>4. ASSUME NEW j \in 1 .. k PROVE q[(3 + m) + j] = PropOf(d, i, j)
    <3>1. q[(2 + m) + (1 + j)] = pl[1 + j] /\ (2 + m) + (1 + j) = (3 + m) + j
      <4>1. \A x \in Nat : \A j1 \in 1 .. x : \A y \in {0, 1} :
              1 + j1 \in 1 .. 1 + x /\ (2 + y) + (1 + j1) = (3 + y) + j1
        OBVIOUS
      <4> QED
        BY <1>0, <2>1, <2>2, <4>1, Zenon
    <3> QED
      BY <1>9, <3>1, Zenon
  <2>5. i # d.untyped => q[3] = c
    <3>1. i # d.untyped => q[2 + 1] = c
      <4>1. i # d.untyped => 1 \in 1 .. m
        BY <2>2
      <4> QED
        BY <1>10, <2>1, <4>1, Zenon
    <3> QED
      BY <3>1
  <2>6. Len(q) = ProcSize(d, i)
    BY <1>0, <1>1, <1>8, <1>9, <1>10, <2>1, <2>2
  <2> HIDE DEF m
  <2>7. ASSUME NEW t \in 1 .. ProcSize(d, i)
        PROVE  q[t] = ProcLine(d, i, t)
    <3>1. \/ t \in {1, 2, PropsAt(d, i)} \/ IsPropAt(d, i, t)
          \/ i # d.untyped /\ t = ClassAt(d, i)
      BY ProcLineIs
    <3>2. CASE t \in {1, 2, PropsAt(d, i)}
      BY <2>2, <2>3, <3>2, ProcLineIs DEF a, b, p
    <3>3. CASE IsPropAt(d, i, t)
      <4>1. t - (3 + m) \in 1 .. k /\ (3 + m) + (t - (3 + m)) = t /\ t \in Nat
        <5>1. t > 3 + m /\ t <= 3 + m + k
          BY <2>2, <3>3, Zenon DEF IsPropAt, k
        <5>2. \A n : \A x \in 1 .. n : x \in Nat
          OBVIOUS
        <5>3. \A x \in Nat : \A y \in Nat : \A z \in {0, 1} :
                x > 3 + z /\ x <= 3 + z + y =>
                  x - (3 + z) \in 1 .. y /\ (3 + z) + (x - (3 + z)) = x
          OBVIOUS
        <5> QED
          BY <1>0, <2>2, <5>1, <5>2, <5>3, Zenon
      <4>2. ProcLine(d, i, t) = PropOf(d, i, t - (3 + m))
        <5>1. ProcLine(d, i, t) = PropOf(d, i, t - PropsAt(d, i))
          BY <3>3, <4>1, ProcLineIs, Zenon
        <5> QED
          BY <2>2, <5>1, Zenon
      <4>3. q[(3 + m) + (t - (3 + m))] = PropOf(d, i, t - (3 + m))
        BY <2>4, <4>1, Zenon
      <4> QED
        BY <4>1, <4>2, <4>3
    <3>4. CASE i # d.untyped /\ t = ClassAt(d, i)
      BY <2>2, <2>5, <3>4, ProcLineIs DEF c
    <3> QED
      BY <3>1, <3>2, <3>3, <3>4
  <2> QED
    BY <2>1, <2>6, <2>7 DEF q
<1> QED
  BY <1>1, <1>11, <1>12, Zenon

(* The lines of a connection: where each of them is.                       *)
LEMMA ConnLineIs ==
  ASSUME ParserAssumption, NEW d \in Documents, NEW i \in 1 .. Len(d.rels)
  PROVE  /\ ConnSize(d, i) \in Nat /\ ConnSize(d, i) >= 4 + d.rels[i]
         /\ ConnLine(d, i, 1) = Line("item", "id", i)
         /\ ConnLine(d, i, 2) = Line("field", "name", i)
         /\ ConnLine(d, i, 3) = Line("field", "source id", i)
         /\ ConnLine(d, i, 4) = Line("field", "source relationship names", 0)
         /\ \A t \in 5 .. 4 + d.rels[i] : ConnLine(d, i, t) = Line("list", "", t - 4)
         /\ i # d.loose =>
              /\ ConnSize(d, i) = 5 + d.rels[i]
              /\ ConnLine(d, i, 5 + d.rels[i]) = Line("field", "destination id", i)
         /\ \A t \in 1 .. ConnSize(d, i) :
              \/ t \in 1 .. 4 \/ t \in 5 .. 4 + d.rels[i]
              \/ i # d.loose /\ t = 5 + d.rels[i]
<1>1. d.rels[i] \in Nat /\ i \in Nat /\ i # 0
  BY DocumentIs
<1> DEFINE k == d.rels[i]
<1>2. k \in Nat
  BY <1>1
<1>3. \A t : ConnLine(d, i, t) =
        CASE t = 1             -> Line("item", "id", i)
          [] t = 2             -> Line("field", "name", i)
          [] t = 3             -> Line("field", "source id", i)
          [] t = 4             -> Line("field", "source relationship names", 0)
          [] t \in 5 .. 4 + k  -> Line("list", "", t - 4)
          [] OTHER             -> Line("field", "destination id", i)
  BY DEF ConnLine
<1>4. ConnSize(d, i) = 4 + k + (IF i # d.loose THEN 1 ELSE 0)
  BY <1>1 DEF ConnSize
<1> HIDE DEF k
<1>5. /\ ConnSize(d, i) \in Nat /\ ConnSize(d, i) >= 4 + k
      /\ i # d.loose => ConnSize(d, i) = 5 + k
      /\ \A t \in 1 .. ConnSize(d, i) :
           \/ t \in 1 .. 4 \/ t \in 5 .. 4 + k
           \/ i # d.loose /\ t = 5 + k
  BY <1>2, <1>4
<1>6. /\ 1 # 2 /\ 1 # 3 /\ 1 # 4 /\ 2 # 3 /\ 2 # 4 /\ 3 # 4
      /\ \A t \in 1 .. 4 : t \notin 5 .. 4 + k
      /\ \A t \in 5 .. 4 + k : t # 1 /\ t # 2 /\ t # 3 /\ t # 4
      /\ 5 + k # 1 /\ 5 + k # 2 /\ 5 + k # 3 /\ 5 + k # 4
      /\ 5 + k \notin 5 .. 4 + k
  BY <1>2
<1>7. /\ ConnLine(d, i, 1) = Line("item", "id", i)
      /\ ConnLine(d, i, 2) = Line("field", "name", i)
      /\ ConnLine(d, i, 3) = Line("field", "source id", i)
      /\ ConnLine(d, i, 4) = Line("field", "source relationship names", 0)
      /\ ConnLine(d, i, 5 + k) = Line("field", "destination id", i)
  BY <1>3, <1>6
<1>8. \A t \in 5 .. 4 + k : ConnLine(d, i, t) = Line("list", "", t - 4)
  <2> TAKE t \in 5 .. 4 + k
  <2> QED
    BY <1>3, <1>6
<1> QED
  BY <1>5, <1>7, <1>8 DEF k

(* The lines of a connection, counted.                                     *)
LEMMA ConnLinesAre ==
  ASSUME ParserAssumption, NEW d \in Documents, NEW i \in 1 .. Len(d.rels)
  PROVE  /\ ConnLines(d, i) \in Seq(YamlLine)
         /\ Len(ConnLines(d, i)) = ConnSize(d, i)
         /\ \A t \in 1 .. ConnSize(d, i) : ConnLines(d, i)[t] = ConnLine(d, i, t)
<1>1. d.rels[i] \in Nat /\ i \in Nat /\ i # 0
  BY DocumentIs
<1> DEFINE k == d.rels[i]
           a == Line("item", "id", i)
           b == Line("field", "name", i)
           c == Line("field", "source id", i)
           e == Line("field", "source relationship names", 0)
           z == Line("field", "destination id", i)
           top == <<a, b, c, e>>
           ls == [j \in 1 .. k |-> Line("list", "", j)]
           end == IF i = d.loose THEN <<>> ELSE <<z>>
           q == ConnLines(d, i)
<1>2. k \in Nat
  BY <1>1
<1>3. /\ a \in YamlLine /\ b \in YamlLine /\ c \in YamlLine /\ e \in YamlLine
      /\ z \in YamlLine
  <2>1. i \in Int /\ 0 \in Int
    BY <1>1
  <2>2. /\ "id" \in Keys /\ "name" \in Keys /\ "source id" \in Keys
        /\ "source relationship names" \in Keys /\ "destination id" \in Keys
    BY DEF Keys
  <2> QED
    BY <2>1, <2>2, LineTyped, Zenon
<1>4. ls \in Seq(YamlLine) /\ Len(ls) = k
  <2>1. \A j \in 1 .. k : Line("list", "", j) \in YamlLine
    <3> TAKE j \in 1 .. k
    <3>1. j \in Int /\ "" \in Keys
      BY <1>2 DEF Keys
    <3> QED
      BY <3>1, LineTyped, Zenon
  <2>2. ls \in [1 .. k -> YamlLine]
    BY <2>1, Zenon
  <2> HIDE DEF ls
  <2> QED
    BY <1>2, <2>2, IsSeq, Zenon
<1>5. \A j \in 1 .. k : ls[j] = Line("list", "", j)
  OBVIOUS
<1>6. q = (top \o ls) \o end
  BY Zenon DEF ConnLines, Unless
<1>7. /\ top \in Seq(YamlLine) /\ Len(top) = 4
      /\ top[1] = a /\ top[2] = b /\ top[3] = c /\ top[4] = e
      /\ <<z>> \in Seq(YamlLine) /\ Len(<<z>>) = 1 /\ <<z>>[1] = z
      /\ <<>> \in Seq(YamlLine) /\ Len(<<>>) = 0
  <2> HIDE DEF a, b, c, e, z
  <2>1. /\ top \in Seq(YamlLine) /\ Len(top) = 4
        /\ top[1] = a /\ top[2] = b /\ top[3] = c /\ top[4] = e
    BY <1>3
  <2>2. /\ <<z>> \in Seq(YamlLine) /\ Len(<<z>>) = 1 /\ <<z>>[1] = z
        /\ <<>> \in Seq(YamlLine) /\ Len(<<>>) = 0
    BY <1>3
  <2> QED
    BY <2>1, <2>2, Zenon
<1> HIDE DEF a, b, c, e, z, top, ls, q, k
<1>8. /\ end \in Seq(YamlLine) /\ Len(end) = (IF i = d.loose THEN 0 ELSE 1)
      /\ i # d.loose => end[1] = z
  <2>1. CASE i = d.loose
    <3>1. end = <<>>
      BY <2>1, Zenon
    <3> HIDE DEF end
    <3> QED
      BY <1>7, <2>1, <3>1
  <2>2. CASE i # d.loose
    <3>1. end = <<z>>
      BY <2>2, Zenon
    <3> HIDE DEF end
    <3> QED
      BY <1>7, <2>2, <3>1
  <2> QED
    BY <2>1, <2>2
<1> HIDE DEF end
<1>9. /\ q \in Seq(YamlLine) /\ Len(q) = 4 + k + Len(end)
      /\ \A j \in 1 .. 4 : q[j] = top[j]
      /\ \A j \in 1 .. k : q[4 + j] = ls[j]
      /\ \A j \in 1 .. Len(end) : q[4 + k + j] = end[j]
  <2>1. /\ q \in Seq(YamlLine) /\ Len(q) = Len(top) + Len(ls) + Len(end)
        /\ \A j \in 1 .. Len(top) : q[j] = top[j]
        /\ \A j \in 1 .. Len(ls) : q[Len(top) + j] = ls[j]
        /\ \A j \in 1 .. Len(end) : q[Len(top) + Len(ls) + j] = end[j]
    <3>1. top \in Seq(YamlLine) /\ ls \in Seq(YamlLine) /\ end \in Seq(YamlLine)
      BY <1>4, <1>7, <1>8, Zenon
    <3>2. JoinThree(q, top, ls, end)
      BY <1>6, Zenon DEF JoinThree
    <3>3. AreThree(YamlLine, q, top, ls, end)
      BY <3>1, <3>2, ThreeParts, Zenon
    <3> QED
      BY <3>3, Zenon DEF AreThree
  <2> QED
    BY <1>4, <1>7, <2>1, Zenon
<1>10. /\ ConnSize(d, i) = 4 + k + Len(end)
       /\ i # d.loose => ConnSize(d, i) = 5 + k
  <2>1. ConnSize(d, i) = 4 + k + (IF i # d.loose THEN 1 ELSE 0)
    BY <1>1 DEF ConnSize, k
  <2> QED
    BY <1>2, <1>8, <2>1
<1>11. ASSUME NEW t \in 1 .. ConnSize(d, i)
       PROVE  q[t] = ConnLine(d, i, t)
  <2>1. \/ t \in 1 .. 4 \/ t \in 5 .. 4 + k
        \/ i # d.loose /\ t = 5 + k
    BY ConnLineIs DEF k
  <2>2. CASE t \in 1 .. 4
    <3>1. t = 1 \/ t = 2 \/ t = 3 \/ t = 4
      BY <2>2
    <3>2. /\ ConnLine(d, i, 1) = a /\ ConnLine(d, i, 2) = b
          /\ ConnLine(d, i, 3) = c /\ ConnLine(d, i, 4) = e
      BY ConnLineIs DEF a, b, c, e
    <3>3. q[t] = top[t]
      BY <1>9, <2>2
    <3> QED
      BY <1>7, <3>1, <3>2, <3>3, Zenon
  <2>3. CASE t \in 5 .. 4 + k
    <3>1. t - 4 \in 1 .. k /\ 4 + (t - 4) = t
      BY <1>2, <2>3
    <3>2. q[4 + (t - 4)] = ls[t - 4] /\ ls[t - 4] = Line("list", "", t - 4)
      BY <1>5, <1>9, <3>1, Zenon
    <3>3. ConnLine(d, i, t) = Line("list", "", t - 4)
      BY <2>3, ConnLineIs DEF k
    <3> QED
      BY <3>1, <3>2, <3>3
  <2>4. CASE i # d.loose /\ t = 5 + k
    <3>1. q[4 + k + 1] = z /\ 4 + k + 1 = 5 + k
      BY <1>2, <1>8, <1>9, <2>4
    <3> QED
      BY <2>4, <3>1, ConnLineIs DEF z, k
  <2> QED
    BY <2>1, <2>2, <2>3, <2>4
<1> QED
  BY <1>9, <1>10, <1>11 DEF q

----------------------------------------------------------------------------
(* What is left of them to read.                                           *)

(* What is left of lines[1], lines[2] ... and then end, after the first t  *)
(* of lines[i] have been read.                                             *)
Following(lines, i) == FlattenSeq([k \in 1 .. Len(lines) - i |-> lines[k + i]])

Left(lines, i, t, end) ==
  (IF i = 0 THEN <<>> ELSE SubSeq(lines[i], t + 1, Len(lines[i])))
    \o (Following(lines, i) \o end)

LEMMA EmptyFlattens == FlattenSeq(<<>>) = <<>>
<1>1. Len(<<>>) = 0
  OBVIOUS
<1> QED
  BY <1>1 DEF FlattenSeq

Associate(a, b, c) == (a \o b) \o c = a \o (b \o c)

LEMMA TheyAssociate ==
  ASSUME NEW S, NEW a \in Seq(S), NEW b \in Seq(S), NEW c \in Seq(S)
  PROVE  Associate(a, b, c)
BY DEF Associate

(* The sequences after the i-th begin with the next.                       *)
LEMMA FollowingFirst ==
  ASSUME NEW S, NEW L \in Seq(Seq(S)), NEW i \in 0 .. Len(L)
  PROVE  /\ Following(L, i) \in Seq(S)
         /\ i < Len(L) => Following(L, i) = L[i + 1] \o Following(L, i + 1)
         /\ i = Len(L) => Following(L, i) = <<>>
<1>1. PICK n \in Nat : n = Len(L)
  OBVIOUS
<1>2. \A k \in 1 .. n : L[k] \in Seq(S)
  BY <1>1, SeqIs
<1> DEFINE q(j) == [k \in 1 .. n - j |-> L[k + j]]
<1>3. ASSUME NEW j \in 0 .. n
      PROVE  /\ q(j) \in Seq(Seq(S)) /\ Len(q(j)) = n - j
             /\ \A k \in 1 .. n - j : q(j)[k] = L[k + j]
  <2>1. n - j \in Nat /\ \A k \in 1 .. n - j : k + j \in 1 .. n
    BY <1>1
  <2>2. q(j) \in [1 .. n - j -> Seq(S)]
    BY <1>2, <2>1, Zenon
  <2>3. \A k \in 1 .. n - j : q(j)[k] = L[k + j]
    OBVIOUS
  <2> HIDE DEF q
  <2>4. q(j) \in Seq(Seq(S)) /\ Len(q(j)) = n - j
    BY <2>1, <2>2, IsSeq, Zenon
  <2> QED
    BY <2>3, <2>4
<1>4. \A j : Following(L, j) = FlattenSeq(q(j))
  BY <1>1 DEF Following
<1> HIDE DEF q
<1>5. i \in 0 .. n
  BY <1>1
<1>6. Following(L, i) \in Seq(S)
  BY <1>3, <1>4, <1>5, FlattenTyped, Zenon
<1>7. CASE i < n
  <2>1. i + 1 \in 0 .. n /\ 1 \in 1 .. n - i /\ 1 + i = i + 1
    BY <1>1, <1>5, <1>7
  <2>2. Len(q(i)) # 0 /\ q(i)[1] = L[i + 1]
    <3>1. q(i)[1] = L[1 + i] /\ Len(q(i)) = n - i
      BY <1>3, <1>5, <2>1, Zenon
    <3>2. n - i # 0
      BY <1>1, <1>7
    <3> QED
      BY <2>1, <3>1, <3>2, Zenon
  <2>3. Tail(q(i)) = q(i + 1)
    <3>1. PICK a \in Seq(Seq(S)) : a = q(i)
      BY <1>3, <1>5, Zenon
    <3>2. PICK b \in Seq(Seq(S)) : b = q(i + 1)
      BY <1>3, <2>1, Zenon
    <3>3. Len(a) = n - i /\ Len(b) = n - (i + 1) /\ a # <<>>
      BY <1>3, <1>5, <2>1, <2>2, <3>1, <3>2
    <3>4. /\ Tail(a) \in Seq(Seq(S)) /\ Len(Tail(a)) = n - (i + 1)
          /\ \A k \in 1 .. n - (i + 1) : Tail(a)[k] = a[k + 1]
      <4>1. /\ Tail(a) \in Seq(Seq(S)) /\ Len(Tail(a)) = Len(a) - 1
            /\ \A k \in 1 .. Len(a) - 1 : Tail(a)[k] = a[k + 1]
        BY <3>1, <3>3
      <4>2. Len(a) - 1 = n - (i + 1)
        BY <1>1, <1>5, <3>3
      <4> QED
        BY <4>1, <4>2, Zenon
    <3>5. \A k \in 1 .. n - (i + 1) : a[k + 1] = L[(k + 1) + i] /\ b[k] = L[k + (i + 1)]
      <4> TAKE k \in 1 .. n - (i + 1)
      <4>1. k + 1 \in 1 .. n - i
        BY <1>1, <1>5
      <4> QED
        BY <1>3, <1>5, <2>1, <3>1, <3>2, <4>1, Zenon
    <3>6. \A k \in 1 .. n - (i + 1) : (k + 1) + i = k + (i + 1)
      BY <1>1, <1>5
    <3>7. \A k \in 1 .. n - (i + 1) : Tail(a)[k] = b[k]
      BY <3>4, <3>5, <3>6, Zenon
    <3>8. Tail(a) = b
      <4>1. Len(Tail(a)) = Len(b) /\ \A k \in 1 .. Len(Tail(a)) : Tail(a)[k] = b[k]
        BY <3>3, <3>4, <3>7, Zenon
      <4> QED
        BY <3>2, <3>4, <4>1, SameSeq, Zenon
    <3> QED
      BY <3>1, <3>2, <3>8, Zenon
  <2>4. FlattenSeq(q(i)) = q(i)[1] \o FlattenSeq(Tail(q(i)))
    BY <1>3, <1>5, <2>2, FlattenFirst, Zenon
  <2>5. Following(L, i) = L[i + 1] \o Following(L, i + 1)
    BY <1>4, <2>2, <2>3, <2>4, Zenon
  <2>6. i # Len(L)
    BY <1>1, <1>7
  <2> QED
    BY <1>6, <2>5, <2>6, Zenon
<1>8. CASE i = n
  <2>1. Len(q(i)) = 0
    BY <1>1, <1>3, <1>5, <1>8
  <2>2. q(i) = <<>>
    BY <1>3, <1>5, <2>1
  <2>3. FlattenSeq(q(i)) = <<>>
    <3>1. FlattenSeq(<<>>) = <<>>
      BY EmptyFlattens, Zenon
    <3> QED
      BY <2>2, <3>1, Zenon
  <2>4. ~(i < Len(L))
    BY <1>1, <1>8
  <2> QED
    BY <1>4, <1>6, <2>3, <2>4, Zenon
<1>9. i < n \/ i = n
  BY <1>1, <1>5
<1> QED
  BY <1>7, <1>8, <1>9, Zenon

LEMMA SubSeqFirst ==
  ASSUME NEW S, NEW q \in Seq(S), NEW t \in 1 .. Len(q) + 1
  PROVE  /\ SubSeq(q, t, Len(q)) \in Seq(S)
         /\ t <= Len(q) =>
              SubSeq(q, t, Len(q)) = <<q[t]>> \o SubSeq(q, t + 1, Len(q))
         /\ t = Len(q) + 1 => SubSeq(q, t, Len(q)) = <<>>
         /\ t = 1 => SubSeq(q, t, Len(q)) = q
<1>1. SubSeq(q, t, Len(q)) \in Seq(S)
  OBVIOUS
<1>2. ASSUME t <= Len(q)
      PROVE  SubSeq(q, t, Len(q)) = <<q[t]>> \o SubSeq(q, t + 1, Len(q))
  <2>1. SubSeq(q, t + 1, Len(q)) \in Seq(S) /\ q[t] \in S
    BY <1>2
  <2>2. Len(SubSeq(q, t, Len(q))) = Len(q) - t + 1
    BY <1>2
  <2>3. Len(SubSeq(q, t + 1, Len(q))) = Len(q) - t
    BY <1>2
  <2> QED
    BY <1>1, <1>2, <2>1, <2>2, <2>3
<1>3. t = Len(q) + 1 => SubSeq(q, t, Len(q)) = <<>>
  OBVIOUS
<1>4. t = 1 => SubSeq(q, t, Len(q)) = q
  OBVIOUS
<1> QED
  BY <1>1, <1>2, <1>3, <1>4

(* The element x stands before v in u.                                     *)
Before(x, v, u) == u = <<x>> \o v

(* One line less is left, and where none is, the next sequence begins.     *)
LEMMA LeftIs ==
  ASSUME NEW S, NEW L \in Seq(Seq(S)), NEW e \in Seq(S), NEW i \in 0 .. Len(L),
         NEW t \in Nat, i = 0 => t = 0, i # 0 => t <= Len(L[i])
  PROVE  /\ Left(L, i, t, e) \in Seq(S)
         /\ i # 0 /\ t < Len(L[i]) =>
              Before(L[i][t + 1], Left(L, i, t + 1, e), Left(L, i, t, e))
         /\ i < Len(L) /\ (i = 0 \/ t = Len(L[i])) /\ Len(L[i + 1]) # 0 =>
              Before(L[i + 1][1], Left(L, i + 1, 1, e), Left(L, i, t, e))
         /\ i = Len(L) /\ (i = 0 \/ t = Len(L[i])) => Left(L, i, t, e) = e
<1>1. PICK n \in Nat : n = Len(L)
  OBVIOUS
<1>2. \A k \in 1 .. n : L[k] \in Seq(S)
  BY <1>1, SeqIs
<1> DEFINE h == IF i = 0 THEN <<>> ELSE SubSeq(L[i], t + 1, Len(L[i]))
           f == Following(L, i)
<1>3. Left(L, i, t, e) = h \o (f \o e)
  BY DEF Left
<1>4. f \in Seq(S)
  BY FollowingFirst
<1>5. i # 0 => L[i] \in Seq(S) /\ Len(L[i]) \in Nat /\ t + 1 \in 1 .. Len(L[i]) + 1
  <2>1. i # 0 => i \in 1 .. n
    BY <1>1
  <2> QED
    BY <1>2, <2>1
<1>6. h \in Seq(S)
  BY <1>5
<1> HIDE DEF h, f
<1>7. f \o e \in Seq(S) /\ h \o (f \o e) \in Seq(S)
  BY <1>4, <1>6
<1>8. ASSUME i # 0, t < Len(L[i])
      PROVE  Before(L[i][t + 1], Left(L, i, t + 1, e), Left(L, i, t, e))
  <2>1. PICK m \in Seq(S) : m = L[i]
    BY <1>5, <1>8
  <2>2. PICK g \in Seq(S) : g = SubSeq(L[i], (t + 1) + 1, Len(L[i]))
    <3>1. (t + 1) + 1 \in 1 .. Len(L[i]) + 1
      BY <1>5, <1>8
    <3> QED
      BY <1>5, <1>8, <3>1, SubSeqFirst, Zenon
  <2>3. h = <<m[t + 1]>> \o g
    <3>1. t + 1 <= Len(L[i])
      BY <1>5, <1>8
    <3> QED
      BY <1>5, <1>8, <2>1, <2>2, <3>1, SubSeqFirst, ZenonT(40) DEF h
  <2>4. PICK x \in Seq(S) : x = f \o e
    BY <1>7, Zenon
  <2>5. m[t + 1] \in S
    BY <1>8, <2>1
  <2>6. <<m[t + 1]>> \in Seq(S)
    BY <2>5
  <2>7. (<<m[t + 1]>> \o g) \o x = <<m[t + 1]>> \o (g \o x)
    <3>1. g \in Seq(S) /\ x \in Seq(S)
      BY <2>2, <2>4, Zenon
    <3> QED
      BY <2>6, <3>1, ConcatAssociates, SMT
  <2>8. Left(L, i, t + 1, e) = g \o x
    BY <1>8, <2>2, <2>4, Zenon DEF Left, f
  <2> QED
    BY <1>3, <2>1, <2>3, <2>4, <2>7, <2>8, Zenon DEF Before
<1>9. i = 0 \/ t = Len(L[i]) => h = <<>>
  <2>1. i # 0 /\ t = Len(L[i]) => t + 1 = Len(L[i]) + 1
    OBVIOUS
  <2> QED
    BY <1>5, <2>1, SubSeqFirst, Zenon DEF h
<1>10. i = 0 \/ t = Len(L[i]) => Left(L, i, t, e) = f \o e
  <2>1. <<>> \o (f \o e) = f \o e
    BY <1>7, ConcatEmpty
  <2> QED
    BY <1>3, <1>9, <2>1, Zenon
<1>11. ASSUME i < Len(L), i = 0 \/ t = Len(L[i]), Len(L[i + 1]) # 0
       PROVE  Before(L[i + 1][1], Left(L, i + 1, 1, e), Left(L, i, t, e))
  <2>1. i + 1 \in 1 .. n /\ i + 1 \in 0 .. Len(L)
    BY <1>1, <1>11
  <2>2. PICK m \in Seq(S) : m = L[i + 1]
    BY <1>2, <2>1
  <2>3. PICK y \in Seq(S) : y = Following(L, i + 1)
    BY <2>1, FollowingFirst, Zenon
  <2>4. f = m \o y
    BY <1>11, <2>2, <2>3, FollowingFirst, Zenon DEF f
  <2>5. PICK g \in Seq(S) : g = SubSeq(m, 1 + 1, Len(m)) /\ m = <<m[1]>> \o g /\ m[1] \in S
    <3>1. m \in Seq(S) /\ 1 \in 1 .. Len(m) + 1 /\ 1 <= Len(m) /\ 1 + 1 \in 1 .. Len(m) + 1
          /\ m[1] \in S
      BY <1>11, <2>2
    <3>2. SubSeq(m, 1, Len(m)) = m
      BY <3>1, SubSeqFirst, Zenon
    <3>3. SubSeq(m, 1, Len(m)) = <<m[1]>> \o SubSeq(m, 1 + 1, Len(m))
      BY <3>1, SubSeqFirst, Zenon
    <3>4. SubSeq(m, 1 + 1, Len(m)) \in Seq(S)
      BY <3>1, SubSeqFirst, Zenon
    <3> QED
      BY <3>1, <3>2, <3>3, <3>4, Zenon
  <2>6. <<m[1]>> \in Seq(S) /\ g \in Seq(S) /\ y \in Seq(S) /\ e \in Seq(S) /\ m \in Seq(S)
    BY <2>2, <2>3, <2>5
  <2>7. PICK x \in Seq(S) : x = y \o e
    <3>1. y \o e \in Seq(S)
      BY <2>6, JoinedSeqs, Zenon
    <3> QED
      BY <3>1, Zenon
  <2>8. (m \o y) \o e = m \o (y \o e)
    <3>1. m \in Seq(S) /\ y \in Seq(S) /\ e \in Seq(S)
      BY <2>6, Zenon
    <3>2. Associate(m, y, e)
      BY <3>1, TheyAssociate, Zenon
    <3> QED
      BY <3>2, Zenon DEF Associate
  <2>9. (<<m[1]>> \o g) \o x = <<m[1]>> \o (g \o x)
    <3>1. x \in Seq(S)
      BY <2>7, Zenon
    <3> QED
      BY <2>6, <3>1, ConcatAssociates, SMTT(30)
  <2>10. f \o e = <<m[1]>> \o (g \o x)
    BY <2>4, <2>5, <2>7, <2>8, <2>9, Zenon
  <2>11. Left(L, i + 1, 1, e) = g \o x
    <3>1. i + 1 # 0
      BY <2>1
    <3> QED
      BY <2>2, <2>3, <2>5, <2>7, <3>1, Zenon DEF Left
  <2> QED
    BY <1>10, <1>11, <2>2, <2>10, <2>11, Zenon DEF Before
<1>12. i = Len(L) /\ (i = 0 \/ t = Len(L[i])) => Left(L, i, t, e) = e
  <2>1. i = Len(L) => f = <<>>
    BY FollowingFirst DEF f
  <2>2. <<>> \o e = e
    BY ConcatEmpty
  <2> QED
    BY <1>10, <2>1, <2>2, Zenon
<1>13. Left(L, i, t, e) \in Seq(S)
  BY <1>3, <1>7, Zenon
<1> QED
  BY <1>8, <1>11, <1>12, <1>13, Zenon

(* The lines left after t of those of the i-th processor, or connection.   *)
ProcSeqs(d) == [i \in DOMAIN d.props |-> ProcLines(d, i)]
ConnSeqs(d) == [i \in DOMAIN d.rels |-> ConnLines(d, i)]

ConnUnread(d, i, t) == Left(ConnSeqs(d), i, t, <<>>)
ProcUnread(d, i, t) ==
  Left(ProcSeqs(d), i, t,
       <<Line("header", "Connections", 0)>> \o ConnUnread(d, 0, 0))

ProcPlace(d, i, t) ==
  /\ i \in 0 .. Len(d.props) /\ t \in 0 .. ProcSize(d, i)
  /\ i # 0 => t # 0
ConnPlace(d, i, t) ==
  /\ i \in 0 .. Len(d.rels) /\ t \in 0 .. ConnSize(d, i)
  /\ i # 0 => t # 0

(* The line l is the next of those in u, and v is what follows it.         *)
NextIs(u, l, v) == u # <<>> /\ Head(u) = l /\ Tail(u) = v

(* What stands first is read next.                                         *)
LEMMA NextOf ==
  ASSUME NEW S, NEW l \in S, NEW v \in Seq(S), NEW u, Before(l, v, u)
  PROVE  u \in Seq(S) /\ NextIs(u, l, v)
<1>0. u = <<l>> \o v
  BY DEF Before
<1>1. u \in Seq(S) /\ Len(u) = Len(v) + 1 /\ u # <<>> /\ u[1] = l
  BY <1>0
<1>2. Head(u) = l
  BY <1>1
<1>3. \A i \in 1 .. Len(v) : u[i + 1] = v[i]
  BY <1>0
<1>4. PICK w \in Seq(S) : w = u
  BY <1>1, Zenon
<1>5. /\ Tail(w) \in Seq(S) /\ Len(Tail(w)) = Len(w) - 1
      /\ \A i \in 1 .. Len(w) - 1 : Tail(w)[i] = w[i + 1]
  BY <1>1, <1>4
<1>6. Len(w) - 1 = Len(v)
  BY <1>1, <1>4
<1>7. Len(Tail(w)) = Len(v) /\ \A i \in 1 .. Len(Tail(w)) : Tail(w)[i] = v[i]
  BY <1>3, <1>4, <1>5, <1>6, Zenon
<1>8. Tail(w) = v
  BY <1>5, <1>7, SameSeq, Zenon
<1> QED
  BY <1>1, <1>2, <1>4, <1>8, Zenon DEF NextIs

(* What is left of L in the place i, t: where it starts.                   *)
StartsAt(S, L, i, t, e) ==
  /\ Left(L, i, t, e) \in Seq(S)
  /\ i # 0 /\ t < Len(L[i]) =>
       NextIs(Left(L, i, t, e), L[i][t + 1], Left(L, i, t + 1, e))
  /\ i < Len(L) /\ (i = 0 \/ t = Len(L[i])) =>
       NextIs(Left(L, i, t, e), L[i + 1][1], Left(L, i + 1, 1, e))
  /\ i = Len(L) /\ (i = 0 \/ t = Len(L[i])) => Left(L, i, t, e) = e

(* What is read next, and that all of it is lines.                         *)
LEMMA LeftStarts ==
  ASSUME NEW S, NEW L \in Seq(Seq(S)), NEW e \in Seq(S), NEW i \in 0 .. Len(L),
         NEW t \in Nat, i = 0 => t = 0, i # 0 => t <= Len(L[i]),
         \A k \in 1 .. Len(L) : Len(L[k]) # 0
  PROVE  StartsAt(S, L, i, t, e)
<1>1. \A k \in 1 .. Len(L) : L[k] \in Seq(S) /\ Len(L[k]) \in Nat
  BY SeqIs
<1>2. \A k \in 1 .. Len(L) : \A s \in 1 .. Len(L[k]) : L[k][s] \in S
  BY <1>1, SeqIs, Zenon
<1>3. ASSUME i # 0, t < Len(L[i])
      PROVE  NextIs(Left(L, i, t, e), L[i][t + 1], Left(L, i, t + 1, e))
  <2>1. i \in 1 .. Len(L)
    BY <1>3
  <2>2. Len(L[i]) \in Nat
    BY <1>1, <2>1, Zenon
  <2>3. t + 1 \in Nat /\ t + 1 <= Len(L[i]) /\ t + 1 \in 1 .. Len(L[i])
    BY <1>3, <2>2
  <2>4. Left(L, i, t + 1, e) \in Seq(S)
    BY <1>3, <2>3, LeftIs, Zenon
  <2>5. L[i][t + 1] \in S
    BY <1>2, <2>1, <2>3, Zenon
  <2>6. Before(L[i][t + 1], Left(L, i, t + 1, e), Left(L, i, t, e))
    BY <1>3, LeftIs, Zenon
  <2> QED
    BY <2>4, <2>5, <2>6, NextOf, Zenon
<1>4. ASSUME i < Len(L), i = 0 \/ t = Len(L[i])
      PROVE  NextIs(Left(L, i, t, e), L[i + 1][1], Left(L, i + 1, 1, e))
  <2>1. i + 1 \in 1 .. Len(L) /\ i + 1 \in 0 .. Len(L) /\ i + 1 # 0 /\ 1 \in Nat
    BY <1>4
  <2>2. Len(L[i + 1]) \in Nat /\ Len(L[i + 1]) # 0
    BY <1>1, <2>1, Zenon
  <2>3. 1 <= Len(L[i + 1]) /\ 1 \in 1 .. Len(L[i + 1])
    BY <2>2
  <2>4. Left(L, i + 1, 1, e) \in Seq(S)
    BY <2>1, <2>3, LeftIs, Zenon
  <2>5. L[i + 1][1] \in S
    BY <1>2, <2>1, <2>3, Zenon
  <2>6. Before(L[i + 1][1], Left(L, i + 1, 1, e), Left(L, i, t, e))
    BY <1>4, <2>2, LeftIs, Zenon
  <2> QED
    BY <2>4, <2>5, <2>6, NextOf, Zenon
<1>5. /\ Left(L, i, t, e) \in Seq(S)
      /\ i = Len(L) /\ (i = 0 \/ t = Len(L[i])) => Left(L, i, t, e) = e
  BY LeftIs, Zenon
<1> QED
  BY <1>3, <1>4, <1>5, Zenon DEF StartsAt

LEMMA HeadersTyped ==
  \A k \in Sections : Line("header", k, 0) \in YamlLine
<1>1. \A k \in Sections : k \in Keys
  BY Zenon DEF Keys
<1>2. 0 \in Int
  OBVIOUS
<1> QED
  BY <1>1, <1>2, LineTyped, Zenon

LEMMA ItemLineTyped ==
  ASSUME NEW i \in Nat
  PROVE  Line("item", "id", i) \in YamlLine
<1>1. i \in Int /\ "id" \in Keys
  BY DEF Keys
<1> QED
  BY <1>1, LineTyped, Zenon

(* What is read next of the connections.                                   *)
LEMMA ConnUnreadIs ==
  ASSUME ParserAssumption, NEW d \in Documents, NEW i, NEW t, ConnPlace(d, i, t)
  PROVE  /\ ConnUnread(d, i, t) \in Seq(YamlLine)
         /\ t < ConnSize(d, i) =>
              NextIs(ConnUnread(d, i, t), ConnLine(d, i, t + 1),
                     ConnUnread(d, i, t + 1))
         /\ t = ConnSize(d, i) /\ i < Len(d.rels) =>
              NextIs(ConnUnread(d, i, t), Line("item", "id", i + 1),
                     ConnUnread(d, i + 1, 1))
         /\ t = ConnSize(d, i) /\ i = Len(d.rels) =>
              ConnUnread(d, i, t) = <<>>
<1> DEFINE L == ConnSeqs(d)
           n == Len(d.rels)
<1>1. /\ n \in Nat /\ DOMAIN d.rels = 1 .. n
      /\ i \in 0 .. n /\ t \in 0 .. ConnSize(d, i) /\ (i # 0 => t # 0)
  BY DocumentIs, Zenon DEF ConnPlace
<1>2. \A k \in 1 .. n : /\ ConnLines(d, k) \in Seq(YamlLine)
                        /\ Len(ConnLines(d, k)) = ConnSize(d, k)
                        /\ ConnSize(d, k) \in Nat /\ ConnSize(d, k) >= 1
                        /\ \A s \in 1 .. ConnSize(d, k) :
                             ConnLines(d, k)[s] = ConnLine(d, k, s)
  <2> TAKE k \in 1 .. n
  <2>1. ConnSize(d, k) \in Nat /\ ConnSize(d, k) >= 4 + d.rels[k] /\ d.rels[k] \in Nat
    BY ConnLineIs, DocumentIs, Zenon
  <2>2. ConnSize(d, k) >= 1
    BY <2>1
  <2> QED
    BY <2>1, <2>2, ConnLinesAre, Zenon
<1>3. /\ L \in Seq(Seq(YamlLine)) /\ Len(L) = n
      /\ \A k \in 1 .. n : L[k] = ConnLines(d, k)
  <2>1. L \in [1 .. n -> Seq(YamlLine)] /\ \A k \in 1 .. n : L[k] = ConnLines(d, k)
    BY <1>1, <1>2, Zenon DEF ConnSeqs
  <2> HIDE DEF L
  <2> QED
    BY <1>1, <2>1, IsSeq, Zenon
<1>4. <<>> \in Seq(YamlLine)
  OBVIOUS
<1>5. i # 0 => i \in 1 .. n
  BY <1>1
<1> HIDE DEF L, n
<1>6. /\ t \in Nat /\ (i = 0 => t = 0) /\ (i # 0 => t <= Len(L[i]))
      /\ t < ConnSize(d, i) => i # 0 /\ t < Len(L[i]) /\ t + 1 \in 1 .. ConnSize(d, i)
      /\ t = ConnSize(d, i) => i = 0 \/ t = Len(L[i])
  <2>1. CASE i = 0
    <3>1. ConnSize(d, i) = 0
      BY <2>1 DEF ConnSize
    <3> QED
      BY <1>1, <2>1, <3>1
  <2>2. CASE i # 0
    <3>1. Len(L[i]) = ConnSize(d, i) /\ ConnSize(d, i) \in Nat
      BY <1>2, <1>3, <1>5, <2>2, Zenon
    <3> QED
      BY <1>1, <2>2, <3>1
  <2> QED
    BY <2>1, <2>2
<1>7. i \in 0 .. Len(L) /\ \A k \in 1 .. Len(L) : Len(L[k]) # 0
  <2>1. \A k \in 1 .. n : Len(L[k]) = ConnSize(d, k) /\ ConnSize(d, k) >= 1
    BY <1>2, <1>3, Zenon
  <2>2. \A k \in 1 .. n : ConnSize(d, k) # 0
    BY <1>2
  <2>3. \A k \in 1 .. n : Len(L[k]) # 0
    BY <2>1, <2>2, Zenon
  <2> QED
    BY <1>1, <1>3, <2>3
<1>8. /\ Left(L, i, t, <<>>) \in Seq(YamlLine)
      /\ i # 0 /\ t < Len(L[i]) =>
           NextIs(Left(L, i, t, <<>>), L[i][t + 1], Left(L, i, t + 1, <<>>))
      /\ i < Len(L) /\ (i = 0 \/ t = Len(L[i])) =>
           NextIs(Left(L, i, t, <<>>), L[i + 1][1], Left(L, i + 1, 1, <<>>))
      /\ i = Len(L) /\ (i = 0 \/ t = Len(L[i])) => Left(L, i, t, <<>>) = <<>>
  <2>1. t \in Nat /\ (i = 0 => t = 0) /\ (i # 0 => t <= Len(L[i]))
    BY <1>6, Zenon
  <2>2. StartsAt(YamlLine, L, i, t, <<>>)
    BY <1>3, <1>4, <1>7, <2>1, LeftStarts, Zenon
  <2> QED
    BY <2>2, Zenon DEF StartsAt
<1>9. \A k, s : ConnUnread(d, k, s) = Left(L, k, s, <<>>)
  BY Zenon DEF ConnUnread, L
<1>10. ASSUME t < ConnSize(d, i)
       PROVE  NextIs(ConnUnread(d, i, t), ConnLine(d, i, t + 1),
                     ConnUnread(d, i, t + 1))
  <2>1. i # 0 /\ t < Len(L[i]) /\ t + 1 \in 1 .. ConnSize(d, i)
    BY <1>6, <1>10, Zenon
  <2>2. L[i][t + 1] = ConnLine(d, i, t + 1)
    BY <1>2, <1>3, <1>5, <2>1, Zenon
  <2> QED
    BY <1>8, <1>9, <2>1, <2>2, Zenon
<1>11. ASSUME t = ConnSize(d, i), i < n
       PROVE  NextIs(ConnUnread(d, i, t), Line("item", "id", i + 1),
                     ConnUnread(d, i + 1, 1))
  <2>1. i + 1 \in 1 .. n
    BY <1>1, <1>11
  <2>2. 1 \in 1 .. ConnSize(d, i + 1)
    BY <1>2, <2>1
  <2>3. L[i + 1][1] = Line("item", "id", i + 1)
    <3>1. L[i + 1][1] = ConnLine(d, i + 1, 1)
      BY <1>2, <1>3, <2>1, <2>2, Zenon
    <3> QED
      BY <2>1, <3>1, ConnLineIs, Zenon DEF n
  <2>4. i < Len(L) /\ (i = 0 \/ t = Len(L[i]))
    BY <1>3, <1>6, <1>11, Zenon
  <2> QED
    BY <1>8, <1>9, <2>3, <2>4, Zenon
<1>12. t = ConnSize(d, i) /\ i = n => ConnUnread(d, i, t) = <<>>
  <2>1. t = ConnSize(d, i) /\ i = n => i = Len(L) /\ (i = 0 \/ t = Len(L[i]))
    BY <1>3, <1>6, Zenon
  <2> QED
    BY <1>8, <1>9, <2>1, Zenon
<1> QED
  BY <1>8, <1>9, <1>10, <1>11, <1>12, Zenon DEF n

(* What is read next of the processors.                                    *)
LEMMA ProcUnreadIs ==
  ASSUME ParserAssumption, NEW d \in Documents, NEW i, NEW t, ProcPlace(d, i, t)
  PROVE  /\ ProcUnread(d, i, t) \in Seq(YamlLine)
         /\ t < ProcSize(d, i) =>
              NextIs(ProcUnread(d, i, t), ProcLine(d, i, t + 1),
                     ProcUnread(d, i, t + 1))
         /\ t = ProcSize(d, i) /\ i < Len(d.props) =>
              NextIs(ProcUnread(d, i, t), Line("item", "id", i + 1),
                     ProcUnread(d, i + 1, 1))
         /\ t = ProcSize(d, i) /\ i = Len(d.props) =>
              NextIs(ProcUnread(d, i, t), Line("header", "Connections", 0),
                     ConnUnread(d, 0, 0))
<1> DEFINE L == ProcSeqs(d)
           n == Len(d.props)
           end == <<Line("header", "Connections", 0)>> \o ConnUnread(d, 0, 0)
<1>1. /\ n \in Nat /\ DOMAIN d.props = 1 .. n
      /\ i \in 0 .. n /\ t \in 0 .. ProcSize(d, i) /\ (i # 0 => t # 0)
  BY DocumentIs, Zenon DEF ProcPlace
<1>2. \A k \in 1 .. n : /\ ProcLines(d, k) \in Seq(YamlLine)
                        /\ Len(ProcLines(d, k)) = ProcSize(d, k)
                        /\ ProcSize(d, k) \in Nat /\ ProcSize(d, k) >= 1
                        /\ \A s \in 1 .. ProcSize(d, k) :
                             ProcLines(d, k)[s] = ProcLine(d, k, s)
  <2> TAKE k \in 1 .. n
  <2>1. /\ ProcSize(d, k) \in Nat /\ PropsAt(d, k) \in {3, 4}
        /\ PropsAt(d, k) + d.props[k] <= ProcSize(d, k) /\ d.props[k] \in Nat
    BY ProcLineIs, DocumentIs, Zenon
  <2>2. ProcSize(d, k) >= 1
    BY <2>1
  <2> QED
    BY <2>1, <2>2, ProcLinesAre, Zenon
<1>3. /\ L \in Seq(Seq(YamlLine)) /\ Len(L) = n
      /\ \A k \in 1 .. n : L[k] = ProcLines(d, k)
  <2>1. L \in [1 .. n -> Seq(YamlLine)] /\ \A k \in 1 .. n : L[k] = ProcLines(d, k)
    BY <1>1, <1>2, Zenon DEF ProcSeqs
  <2> HIDE DEF L
  <2> QED
    BY <1>1, <2>1, IsSeq, Zenon
<1>4. /\ end \in Seq(YamlLine)
      /\ NextIs(end, Line("header", "Connections", 0), ConnUnread(d, 0, 0))
  <2>1. ConnPlace(d, 0, 0)
    BY DocumentIs DEF ConnPlace, ConnSize
  <2>2. ConnUnread(d, 0, 0) \in Seq(YamlLine)
    BY <2>1, ConnUnreadIs, Zenon
  <2>3. Line("header", "Connections", 0) \in YamlLine
    BY HeadersTyped, Zenon DEF Sections
  <2>4. <<Line("header", "Connections", 0)>> \in Seq(YamlLine)
    BY <2>3, ShortSeqs, Zenon
  <2>5. Before(Line("header", "Connections", 0), ConnUnread(d, 0, 0), end)
    BY Zenon DEF Before
  <2> HIDE DEF end
  <2> QED
    BY <2>2, <2>3, <2>5, NextOf, Zenon
<1>5. i # 0 => i \in 1 .. n
  BY <1>1
<1> HIDE DEF L, n, end
<1>6. /\ t \in Nat /\ (i = 0 => t = 0) /\ (i # 0 => t <= Len(L[i]))
      /\ t < ProcSize(d, i) => i # 0 /\ t < Len(L[i]) /\ t + 1 \in 1 .. ProcSize(d, i)
      /\ t = ProcSize(d, i) => i = 0 \/ t = Len(L[i])
  <2>1. CASE i = 0
    <3>1. ProcSize(d, i) = 0
      BY <2>1 DEF ProcSize
    <3> QED
      BY <1>1, <2>1, <3>1
  <2>2. CASE i # 0
    <3>1. Len(L[i]) = ProcSize(d, i) /\ ProcSize(d, i) \in Nat
      BY <1>2, <1>3, <1>5, <2>2, Zenon
    <3> QED
      BY <1>1, <2>2, <3>1
  <2> QED
    BY <2>1, <2>2
<1>7. i \in 0 .. Len(L) /\ \A k \in 1 .. Len(L) : Len(L[k]) # 0
  <2>1. \A k \in 1 .. n : Len(L[k]) = ProcSize(d, k) /\ ProcSize(d, k) >= 1
    BY <1>2, <1>3, Zenon
  <2>2. \A k \in 1 .. n : ProcSize(d, k) # 0
    BY <1>2
  <2>3. \A k \in 1 .. n : Len(L[k]) # 0
    BY <2>1, <2>2, Zenon
  <2> QED
    BY <1>1, <1>3, <2>3
<1>8. /\ Left(L, i, t, end) \in Seq(YamlLine)
      /\ i # 0 /\ t < Len(L[i]) =>
           NextIs(Left(L, i, t, end), L[i][t + 1], Left(L, i, t + 1, end))
      /\ i < Len(L) /\ (i = 0 \/ t = Len(L[i])) =>
           NextIs(Left(L, i, t, end), L[i + 1][1], Left(L, i + 1, 1, end))
      /\ i = Len(L) /\ (i = 0 \/ t = Len(L[i])) => Left(L, i, t, end) = end
  <2>1. t \in Nat /\ (i = 0 => t = 0) /\ (i # 0 => t <= Len(L[i]))
    BY <1>6, Zenon
  <2>2. StartsAt(YamlLine, L, i, t, end)
    BY <1>3, <1>4, <1>7, <2>1, LeftStarts, Zenon
  <2> QED
    BY <2>2, Zenon DEF StartsAt
<1>9. \A k, s : ProcUnread(d, k, s) = Left(L, k, s, end)
  BY Zenon DEF ProcUnread, L, end
<1>10. ASSUME t < ProcSize(d, i)
       PROVE  NextIs(ProcUnread(d, i, t), ProcLine(d, i, t + 1),
                     ProcUnread(d, i, t + 1))
  <2>1. i # 0 /\ t < Len(L[i]) /\ t + 1 \in 1 .. ProcSize(d, i)
    BY <1>6, <1>10, Zenon
  <2>2. L[i][t + 1] = ProcLine(d, i, t + 1)
    BY <1>2, <1>3, <1>5, <2>1, Zenon
  <2> QED
    BY <1>8, <1>9, <2>1, <2>2, Zenon
<1>11. ASSUME t = ProcSize(d, i), i < n
       PROVE  NextIs(ProcUnread(d, i, t), Line("item", "id", i + 1),
                     ProcUnread(d, i + 1, 1))
  <2>1. i + 1 \in 1 .. n
    BY <1>1, <1>11
  <2>2. 1 \in 1 .. ProcSize(d, i + 1)
    BY <1>2, <2>1
  <2>3. L[i + 1][1] = Line("item", "id", i + 1)
    <3>1. L[i + 1][1] = ProcLine(d, i + 1, 1)
      BY <1>2, <1>3, <2>1, <2>2, Zenon
    <3> QED
      BY <2>1, <3>1, ProcLineIs, Zenon DEF n
  <2>4. i < Len(L) /\ (i = 0 \/ t = Len(L[i]))
    BY <1>3, <1>6, <1>11, Zenon
  <2> QED
    BY <1>8, <1>9, <2>3, <2>4, Zenon
<1>12. t = ProcSize(d, i) /\ i = n => ProcUnread(d, i, t) = end
  <2>1. t = ProcSize(d, i) /\ i = n => i = Len(L) /\ (i = 0 \/ t = Len(L[i]))
    BY <1>3, <1>6, Zenon
  <2> QED
    BY <1>8, <1>9, <2>1, Zenon
<1> QED
  BY <1>4, <1>8, <1>9, <1>10, <1>11, <1>12, Zenon DEF n

(* Before the first line, all lines are left.                              *)
LEMMA LeftAll ==
  ASSUME NEW S, NEW L \in Seq(Seq(S)), NEW e \in Seq(S)
  PROVE  Left(L, 0, 0, e) = FlattenSeq(L) \o e
<1> DEFINE q == [k \in 1 .. Len(L) - 0 |-> L[k + 0]]
<1>1. q = L
  OBVIOUS
<1>2. Following(L, 0) = FlattenSeq(q)
  BY Zenon DEF Following
<1>3. FlattenSeq(L) \in Seq(S)
  BY FlattenTyped, Zenon
<1>4. PICK x \in Seq(S) : x = FlattenSeq(L) \o e
  <2>1. FlattenSeq(L) \o e \in Seq(S)
    BY <1>3, JoinedSeqs, Zenon
  <2> QED
    BY <2>1, Zenon
<1> HIDE DEF q
<1>5. Left(L, 0, 0, e) = <<>> \o x
  BY <1>1, <1>2, <1>4, Zenon DEF Left
<1>6. <<>> \o x = x
  <2>1. x \in Seq(S)
    BY <1>4, Zenon
  <2> QED
    BY <2>1, ConcatEmpty, SMT
<1> QED
  BY <1>4, <1>5, <1>6, Zenon

LEMMA PairIs ==
  ASSUME NEW S, NEW a \in S, NEW b \in S
  PROVE  <<a, b>> = <<a>> \o <<b>>
<1>0. <<a>> \in Seq(S) /\ <<b>> \in Seq(S) /\ <<a, b>> \in Seq(S)
  OBVIOUS
<1>1. PICK x \in Seq(S) : x = <<a>>
  BY <1>0, Zenon
<1>2. PICK y \in Seq(S) : y = <<b>>
  BY <1>0, Zenon
<1>3. PICK z \in Seq(S) : z = <<a, b>>
  BY <1>0, Zenon
<1>4. Len(x) = 1 /\ x[1] = a /\ Len(y) = 1 /\ y[1] = b
  BY <1>1, <1>2
<1>5. Len(z) = 2 /\ z[1] = a /\ z[2] = b
  BY <1>3
<1>6. x \o y \in Seq(S) /\ Len(x \o y) = 2 /\ (x \o y)[1] = a /\ (x \o y)[2] = b
  <2>1. x \in Seq(S) /\ y \in Seq(S)
    BY <1>1, <1>2, Zenon
  <2>2. /\ x \o y \in Seq(S) /\ Len(x \o y) = Len(x) + Len(y)
        /\ \A i \in 1 .. Len(x) : (x \o y)[i] = x[i]
        /\ \A i \in 1 .. Len(y) : (x \o y)[Len(x) + i] = y[i]
    BY <2>1, SMT
  <2>3. 1 \in 1 .. Len(x) /\ 1 \in 1 .. Len(y) /\ Len(x) + Len(y) = 2 /\ Len(x) + 1 = 2
    BY <1>4
  <2> QED
    BY <1>4, <2>2, <2>3, Zenon
<1>7. z = x \o y
  <2>1. \A i \in 1 .. 2 : z[i] = (x \o y)[i]
    BY <1>5, <1>6
  <2>2. z \in Seq(S)
    BY <1>3, Zenon
  <2> QED
    BY <1>5, <1>6, <2>1, <2>2, SameSeq
<1> QED
  BY <1>1, <1>2, <1>3, <1>7, Zenon

LEMMA FourParts ==
  ASSUME NEW S, NEW a \in S, NEW b \in S, NEW u \in Seq(S), NEW v \in Seq(S),
         NEW w \in Seq(S), NEW r, r = u \o (v \o w),
         NEW q, q = ((<<a, b>> \o u) \o v) \o w
  PROVE  Before(a, <<b>> \o r, q)
<1>1. <<a, b>> = <<a>> \o <<b>> /\ <<a>> \in Seq(S) /\ <<b>> \in Seq(S)
  <2>1. <<a, b>> = <<a>> \o <<b>>
    BY PairIs
  <2>2. <<a>> \in Seq(S) /\ <<b>> \in Seq(S)
    OBVIOUS
  <2> QED
    BY <2>1, <2>2, Zenon
<1>2. PICK x \in Seq(S), y \in Seq(S) : x = <<a>> /\ y = <<b>>
  BY <1>1, Zenon
<1>3. /\ u \o v \in Seq(S) /\ v \o w \in Seq(S) /\ y \o u \in Seq(S)
      /\ (y \o u) \o v \in Seq(S) /\ u \o (v \o w) \in Seq(S)
  BY JoinedSeqs, Zenon
<1>4. /\ Associate(x, y, u) /\ Associate(x, y \o u, v)
      /\ Associate(x, (y \o u) \o v, w)
      /\ Associate(y, u, v) /\ Associate(y, u \o v, w) /\ Associate(u, v, w)
  BY <1>3, TheyAssociate, Zenon
<1>5. /\ (x \o y) \o u = x \o (y \o u)
      /\ (x \o (y \o u)) \o v = x \o ((y \o u) \o v)
      /\ (x \o ((y \o u) \o v)) \o w = x \o (((y \o u) \o v) \o w)
      /\ (y \o u) \o v = y \o (u \o v)
      /\ (y \o (u \o v)) \o w = y \o ((u \o v) \o w)
      /\ (u \o v) \o w = u \o (v \o w)
  BY <1>4, Zenon DEF Associate
<1>6. (((x \o y) \o u) \o v) \o w = x \o (y \o (u \o (v \o w)))
  BY <1>5, Zenon
<1> QED
  BY <1>1, <1>2, <1>6, Zenon DEF Before

(* The document as a whole.                                                *)
LEMMA YamlIs ==
  ASSUME ParserAssumption, NEW d \in Documents
  PROVE  /\ ProcPlace(d, 0, 0) /\ ConnPlace(d, 0, 0)
         /\ Yaml(d) \in Seq(YamlLine)
         /\ NextIs(Yaml(d), Line("header", "other", 0), Tail(Yaml(d)))
         /\ NextIs(Tail(Yaml(d)), Line("header", "Processors", 0),
                   ProcUnread(d, 0, 0))
<1> DEFINE ps == ProcSeqs(d)
           cs == ConnSeqs(d)
           a == Line("header", "other", 0)
           b == Line("header", "Processors", 0)
           c == Line("header", "Connections", 0)
           us == FlattenSeq(ps)
           ws == FlattenSeq(cs)
           rest == ProcUnread(d, 0, 0)
<1>1. ProcPlace(d, 0, 0) /\ ConnPlace(d, 0, 0)
  BY DocumentIs DEF ProcPlace, ConnPlace, ProcSize, ConnSize
<1>2. /\ Len(d.props) \in Nat /\ DOMAIN d.props = 1 .. Len(d.props)
      /\ Len(d.rels) \in Nat /\ DOMAIN d.rels = 1 .. Len(d.rels)
  BY DocumentIs, Zenon
<1>3. ps \in Seq(Seq(YamlLine)) /\ cs \in Seq(Seq(YamlLine))
  <2>1. /\ ps \in [1 .. Len(d.props) -> Seq(YamlLine)]
        /\ cs \in [1 .. Len(d.rels) -> Seq(YamlLine)]
    BY <1>2, ProcLinesAre, ConnLinesAre, Zenon DEF ProcSeqs, ConnSeqs
  <2> HIDE DEF ps, cs
  <2> QED
    BY <1>2, <2>1, IsSeq, Zenon
<1>4. us \in Seq(YamlLine) /\ ws \in Seq(YamlLine)
  BY <1>3, FlattenTyped, Zenon
<1>5. a \in YamlLine /\ b \in YamlLine /\ c \in YamlLine
  BY HeadersTyped, Zenon DEF Sections
<1>6. Yaml(d) = ((<<a, b>> \o us) \o <<c>>) \o ws
  BY Zenon DEF Yaml, ProcSeqs, ConnSeqs
<1>7. rest = Left(ps, 0, 0, <<c>> \o Left(cs, 0, 0, <<>>))
  BY Zenon DEF ProcUnread, ConnUnread
<1> HIDE DEF ps, cs, a, b, c, us, ws, rest
<1>8. <<c>> \in Seq(YamlLine) /\ <<>> \in Seq(YamlLine)
  BY <1>5, ShortSeqs, Zenon
<1>9. Left(cs, 0, 0, <<>>) = ws
  <2>1. Left(cs, 0, 0, <<>>) = ws \o <<>>
    BY <1>3, <1>8, LeftAll DEF ws
  <2>2. ws \o <<>> = ws
    BY <1>4, ConcatEmpty, SMT
  <2> QED
    BY <2>1, <2>2, Zenon
<1>10. <<c>> \o ws \in Seq(YamlLine) /\ us \o (<<c>> \o ws) \in Seq(YamlLine)
  BY <1>4, <1>8, JoinedSeqs, Zenon
<1>11. rest = us \o (<<c>> \o ws)
  <2>1. PICK e \in Seq(YamlLine) : e = <<c>> \o ws
    BY <1>10, Zenon
  <2>2. Left(ps, 0, 0, e) = us \o e
    BY <1>3, <2>1, LeftAll DEF us
  <2> QED
    BY <1>7, <1>9, <2>1, <2>2, Zenon
<1>12. Yaml(d) = <<a>> \o (<<b>> \o rest)
  <2>1. Before(a, <<b>> \o rest, Yaml(d))
    BY <1>4, <1>5, <1>6, <1>8, <1>11, FourParts, Zenon
  <2> QED
    BY <2>1, Zenon DEF Before
<1>13. rest \in Seq(YamlLine)
  BY <1>10, <1>11, Zenon
<1>14. <<b>> \o rest \in Seq(YamlLine) /\ NextIs(<<b>> \o rest, b, rest)
  BY <1>5, <1>13, NextOf, Zenon DEF Before
<1>15. Yaml(d) \in Seq(YamlLine) /\ NextIs(Yaml(d), a, <<b>> \o rest)
  BY <1>5, <1>12, <1>14, NextOf, Zenon DEF Before
<1>16. Tail(Yaml(d)) = <<b>> \o rest
  BY <1>15, Zenon DEF NextIs
<1> QED
  BY <1>1, <1>14, <1>15, <1>16, Zenon DEF a, b, rest

----------------------------------------------------------------------------
(* What the flow says, item by item.                                       *)

Least(m, n) == IF m < n THEN m ELSE n

(* The x-th of those that are kept, and how many of n are.                 *)
Which(m, x)   == IF format = "JSON" /\ m \in 1 .. x THEN x + 1 ELSE x
HowMany(m, n) == IF format = "JSON" /\ m \in 1 .. n THEN n - 1 ELSE n

(* A sequence without its m-th element.                                    *)
LEMMA RemovedIs ==
  ASSUME NEW S, NEW s \in Seq(S), NEW m \in 1 .. Len(s)
  PROVE  /\ RemoveAt(s, m) \in Seq(S) /\ Len(RemoveAt(s, m)) = Len(s) - 1
         /\ \A x \in 1 .. Len(s) - 1 :
              RemoveAt(s, m)[x] = s[IF m <= x THEN x + 1 ELSE x]
<1>1. PICK n \in Nat : n = Len(s)
  OBVIOUS
<1>2. m \in 1 .. n /\ m - 1 \in 0 .. n /\ m + 1 \in 1 .. n + 1 /\ m - 1 \in Nat /\ n - m \in Nat
  BY <1>1
<1> DEFINE a == SubSeq(s, 1, m - 1)
           b == SubSeq(s, m + 1, n)
<1>3. /\ a \in Seq(S) /\ Len(a) = m - 1 /\ \A x \in 1 .. m - 1 : a[x] = s[x]
  <2>1. a \in Seq(S)
    BY <1>1, <1>2
  <2>2. Len(a) = m - 1
    BY <1>1, <1>2
  <2>3. \A x \in 1 .. m - 1 : a[x] = s[x]
    BY <1>1, <1>2
  <2> QED
    BY <2>1, <2>2, <2>3, Zenon
<1>4. /\ b \in Seq(S) /\ Len(b) = n - m /\ \A x \in 1 .. n - m : b[x] = s[m + x]
  <2>1. b \in Seq(S)
    BY <1>1, <1>2
  <2>2. Len(b) = n - m
    BY <1>1, <1>2
  <2>3. \A x \in 1 .. n - m : b[x] = s[m + x]
    BY <1>1, <1>2
  <2> QED
    BY <2>1, <2>2, <2>3, Zenon
<1> HIDE DEF a, b
<1>5. RemoveAt(s, m) = a \o b
  BY <1>1, Zenon DEF RemoveAt, a, b
<1>6. /\ a \o b \in Seq(S) /\ Len(a \o b) = (m - 1) + (n - m)
      /\ \A x \in 1 .. m - 1 : (a \o b)[x] = a[x]
      /\ \A x \in 1 .. n - m : (a \o b)[(m - 1) + x] = b[x]
  <2>1. a \in Seq(S) /\ b \in Seq(S)
    BY <1>3, <1>4, Zenon
  <2>2. /\ a \o b \in Seq(S) /\ Len(a \o b) = Len(a) + Len(b)
        /\ \A x \in 1 .. Len(a) : (a \o b)[x] = a[x]
        /\ \A x \in 1 .. Len(b) : (a \o b)[Len(a) + x] = b[x]
    BY <2>1, SMT
  <2> QED
    BY <1>3, <1>4, <2>2, Zenon
<1>7. (m - 1) + (n - m) = n - 1
  BY <1>1, <1>2
<1>8. ASSUME NEW x \in 1 .. n - 1
      PROVE  (a \o b)[x] = s[IF m <= x THEN x + 1 ELSE x]
  <2>1. CASE m <= x
    <3>1. /\ x - (m - 1) \in 1 .. n - m /\ (m - 1) + (x - (m - 1)) = x
          /\ m + (x - (m - 1)) = x + 1
      BY <1>1, <1>2, <2>1
    <3>2. (a \o b)[(m - 1) + (x - (m - 1))] = s[m + (x - (m - 1))]
      BY <1>4, <1>6, <3>1, Zenon
    <3> QED
      BY <2>1, <3>1, <3>2
  <2>2. CASE ~(m <= x)
    <3>1. x \in 1 .. m - 1
      BY <1>1, <1>2, <2>2
    <3> QED
      BY <1>3, <1>6, <2>2, <3>1
  <2> QED
    BY <2>1, <2>2
<1> QED
  BY <1>1, <1>5, <1>6, <1>7, <1>8, Zenon

(* The first elements of a sequence.                                       *)
LEMMA FirstIs ==
  ASSUME NEW S, NEW s \in Seq(S), NEW n \in Nat
  PROVE  /\ First(n, s) \in Seq(S) /\ Len(First(n, s)) = Least(n, Len(s))
         /\ \A x \in 1 .. Least(n, Len(s)) : First(n, s)[x] = s[x]
<1>1. PICK m \in Nat : m = Least(n, Len(s)) /\ m <= Len(s)
  <2>1. Least(n, Len(s)) \in Nat /\ Least(n, Len(s)) <= Len(s)
    BY DEF Least
  <2> QED
    BY <2>1, Zenon
<1>2. First(n, s) = SubSeq(s, 1, m)
  BY <1>1, Zenon DEF First, Least
<1>3. SubSeq(s, 1, m) \in Seq(S)
  BY <1>1
<1>4. Len(SubSeq(s, 1, m)) = m
  BY <1>1
<1>5. \A x \in 1 .. m : SubSeq(s, 1, m)[x] = s[x]
  BY <1>1
<1> QED
  BY <1>1, <1>2, <1>3, <1>4, <1>5, Zenon

(* What JSON leaves out of a sequence.                                     *)
LEMMA LacksIs ==
  ASSUME NEW S, NEW s \in Seq(S), NEW m \in Nat
  PROVE  /\ JsonLacks(m, s) \in Seq(S)
         /\ Len(JsonLacks(m, s)) = HowMany(m, Len(s))
         /\ \A x \in 1 .. HowMany(m, Len(s)) : JsonLacks(m, s)[x] = s[Which(m, x)]
<1>1. Len(s) \in Nat /\ DOMAIN s = 1 .. Len(s)
  BY SeqIs, Zenon
<1>2. CASE format = "JSON" /\ m \in 1 .. Len(s)
  <2>1. JsonLacks(m, s) = RemoveAt(s, m) /\ HowMany(m, Len(s)) = Len(s) - 1
    BY <1>1, <1>2, Zenon DEF JsonLacks, HowMany
  <2>2. \A x \in 1 .. Len(s) - 1 : Which(m, x) = IF m <= x THEN x + 1 ELSE x
    BY <1>1, <1>2 DEF Which
  <2>3. /\ RemoveAt(s, m) \in Seq(S) /\ Len(RemoveAt(s, m)) = Len(s) - 1
        /\ \A x \in 1 .. Len(s) - 1 :
             RemoveAt(s, m)[x] = s[IF m <= x THEN x + 1 ELSE x]
    BY <1>2, RemovedIs, Zenon
  <2> QED
    BY <2>1, <2>2, <2>3, Zenon
<1>3. CASE ~(format = "JSON" /\ m \in 1 .. Len(s))
  <2>1. JsonLacks(m, s) = s /\ HowMany(m, Len(s)) = Len(s)
    BY <1>1, <1>3, Zenon DEF JsonLacks, HowMany
  <2>2. \A x \in 1 .. Len(s) : Which(m, x) = x
    BY <1>1, <1>3 DEF Which
  <2> QED
    BY <2>1, <2>2, Zenon
<1> QED
  BY <1>2, <1>3, Zenon

(* The numbers of those that are kept.                                     *)
LEMMA NumbersAre ==
  ASSUME NEW m \in Nat, NEW n \in Nat
  PROVE  /\ HowMany(m, n) \in 0 .. n /\ Which(m, n) \in Nat
         /\ format # "JSON" => HowMany(m, n) = n /\ \A x : Which(m, x) = x
         /\ \A x \in 1 .. HowMany(m, n) : Which(m, x) \in 1 .. n
         /\ m = 0 => HowMany(m, n) = n /\ \A x \in Nat : Which(m, x) = x
<1>1. HowMany(m, n) \in 0 .. n /\ Which(m, n) \in Nat
  BY DEF HowMany, Which
<1>2. format # "JSON" => HowMany(m, n) = n /\ \A x : Which(m, x) = x
  BY DEF HowMany, Which
<1>3. \A x \in 1 .. HowMany(m, n) : Which(m, x) \in 1 .. n
  BY DEF HowMany, Which
<1>4. m = 0 => HowMany(m, n) = n /\ \A x \in Nat : Which(m, x) = x
  BY DEF HowMany, Which
<1> QED
  BY <1>1, <1>2, <1>3, <1>4

Listed(s) == s = [x \in 1 .. Len(s) |-> s[x]]

LEMMA SameListed ==
  ASSUME NEW a, NEW b, Listed(a), Listed(b), Len(a) = Len(b),
         \A x \in 1 .. Len(a) : a[x] = b[x]
  PROVE  a = b
<1>1. \A n : n = Len(a) =>
        [x \in 1 .. n |-> a[x]] = [x \in 1 .. n |-> b[x]]
  BY Zenon
<1>2. [x \in 1 .. Len(a) |-> a[x]] = [x \in 1 .. Len(b) |-> b[x]]
  BY <1>1, Zenon
<1> QED
  BY <1>2, Zenon DEF Listed

LEMMA SeqListed ==
  ASSUME NEW S, NEW s \in Seq(S)
  PROVE  Listed(s)
BY DEF Listed

(* What is kept of a sequence of k, item by item.                          *)
KeptOf(s, n, m, k, q) ==
  /\ Listed(s)
  /\ Len(s) = Least(n, HowMany(m, k)) /\ DOMAIN s = 1 .. Len(s)
  /\ \A x \in 1 .. Len(s) : s[x] = q[Which(m, x)] /\ Which(m, x) \in 1 .. k

(* A sequence, without what JSON lacks and up to the limit, by number.     *)
LEMMA WhatIsKept ==
  ASSUME NEW k \in Nat, NEW n \in Nat, NEW m \in Nat, NEW S,
         NEW q \in [1 .. k -> S]
  PROVE  KeptOf(First(n, JsonLacks(m, q)), n, m, k, q)
<1> DEFINE less == JsonLacks(m, q)
           kept == First(n, less)
<1>1. q \in Seq(S) /\ Len(q) = k
  BY IsSeq, Zenon
<1>3. /\ less \in Seq(S) /\ Len(less) = HowMany(m, k)
      /\ \A x \in 1 .. HowMany(m, k) : less[x] = q[Which(m, x)]
  BY <1>1, LacksIs, Zenon
<1> HIDE DEF less
<1>4. /\ kept \in Seq(S) /\ Len(kept) = Least(n, Len(less))
      /\ \A x \in 1 .. Least(n, Len(less)) : kept[x] = less[x]
  BY <1>3, FirstIs, Zenon
<1> HIDE DEF kept
<1>5. Len(kept) = Least(n, HowMany(m, k))
  BY <1>3, <1>4, Zenon
<1>6. HowMany(m, k) \in 0 .. k /\ \A x \in 1 .. HowMany(m, k) : Which(m, x) \in 1 .. k
  BY NumbersAre, Zenon
<1>7. \A x \in 1 .. Len(kept) : x \in 1 .. HowMany(m, k)
  <2>1. \A h \in Nat : \A x \in 1 .. Least(n, h) : x \in 1 .. h
    BY DEF Least
  <2>2. HowMany(m, k) \in Nat
    BY <1>6
  <2> QED
    BY <1>5, <2>1, <2>2, Zenon
<1>8. \A x \in 1 .. Len(kept) : kept[x] = q[Which(m, x)] /\ Which(m, x) \in 1 .. k
  BY <1>3, <1>4, <1>6, <1>7, Zenon
<1>9. DOMAIN kept = 1 .. Len(kept)
  BY <1>4, SeqIs, Zenon
<1>10. KeptOf(kept, n, m, k, q)
  BY <1>4, <1>5, <1>8, <1>9, SeqListed, Zenon DEF KeptOf
<1> QED
  BY <1>10, Zenon DEF kept, less

(* The processors the document says, by number.                            *)
LEMMA SaidNodesAre ==
  ASSUME ParserAssumption, doc \in Documents
  PROVE  /\ Len(SaidNodes) = Least(MaxNodes, HowMany(doc.untyped, Len(doc.props)))
         /\ DOMAIN SaidNodes = 1 .. Len(SaidNodes)
         /\ Listed(SaidNodes)
         /\ \A x \in 1 .. Len(SaidNodes) :
              /\ SaidNodes[x] = SaidNode(Which(doc.untyped, x))
              /\ Which(doc.untyped, x) \in 1 .. Len(doc.props)
<1> DEFINE k == Len(doc.props)
           f == [i \in 1 .. k |-> SaidNode(i)]
<1>1. k \in Nat /\ DOMAIN doc.props = 1 .. k /\ doc.untyped \in Nat /\ MaxNodes \in Nat
  BY DocumentIs, Zenon DEF ParserAssumption
<1>2. SaidNodes = First(MaxNodes, JsonLacks(doc.untyped, f))
  BY <1>1, Zenon DEF SaidNodes
<1>3. /\ f \in [1 .. k -> {f[x] : x \in 1 .. k}]
      /\ \A i \in 1 .. k : f[i] = SaidNode(i)
  BY Zenon
<1> HIDE DEF f, k
<1>4. /\ Len(SaidNodes) = Least(MaxNodes, HowMany(doc.untyped, k))
      /\ DOMAIN SaidNodes = 1 .. Len(SaidNodes)
      /\ Listed(SaidNodes)
      /\ \A x \in 1 .. Len(SaidNodes) : /\ SaidNodes[x] = f[Which(doc.untyped, x)]
                                        /\ Which(doc.untyped, x) \in 1 .. k
  <2>1. KeptOf(First(MaxNodes, JsonLacks(doc.untyped, f)), MaxNodes, doc.untyped, k, f)
    BY <1>1, <1>3, WhatIsKept, Zenon
  <2> QED
    BY <1>2, <2>1, Zenon DEF KeptOf
<1> QED
  BY <1>3, <1>4, Zenon DEF k

(* The connections the document says, by number.                           *)
LEMMA SaidConnsAre ==
  ASSUME ParserAssumption, doc \in Documents
  PROVE  /\ Len(SaidConns) = Least(MaxConns, HowMany(doc.loose, Len(doc.rels)))
         /\ DOMAIN SaidConns = 1 .. Len(SaidConns)
         /\ Listed(SaidConns)
         /\ \A x \in 1 .. Len(SaidConns) :
              /\ SaidConns[x] = SaidConn(Which(doc.loose, x))
              /\ Which(doc.loose, x) \in 1 .. Len(doc.rels)
<1> DEFINE k == Len(doc.rels)
           f == [i \in 1 .. k |-> SaidConn(i)]
<1>1. k \in Nat /\ DOMAIN doc.rels = 1 .. k /\ doc.loose \in Nat /\ MaxConns \in Nat
  BY DocumentIs, Zenon DEF ParserAssumption
<1>2. SaidConns = First(MaxConns, JsonLacks(doc.loose, f))
  BY <1>1, Zenon DEF SaidConns
<1>3. /\ f \in [1 .. k -> {f[x] : x \in 1 .. k}]
      /\ \A i \in 1 .. k : f[i] = SaidConn(i)
  BY Zenon
<1> HIDE DEF f, k
<1>4. /\ Len(SaidConns) = Least(MaxConns, HowMany(doc.loose, k))
      /\ DOMAIN SaidConns = 1 .. Len(SaidConns)
      /\ Listed(SaidConns)
      /\ \A x \in 1 .. Len(SaidConns) : /\ SaidConns[x] = f[Which(doc.loose, x)]
                                        /\ Which(doc.loose, x) \in 1 .. k
  <2>1. KeptOf(First(MaxConns, JsonLacks(doc.loose, f)), MaxConns, doc.loose, k, f)
    BY <1>1, <1>3, WhatIsKept, Zenon
  <2> QED
    BY <1>2, <2>1, Zenon DEF KeptOf
<1> QED
  BY <1>3, <1>4, Zenon DEF k

(* The value of the j-th property that is written.                         *)
PropVal(i, j) == IF doc.cleared /\ j = 1 THEN 0 ELSE i
OneCleared == IF doc.cleared THEN 1 ELSE 0

(* The properties the document says of a processor, by number.             *)
LEMMA SaidPropsAre ==
  ASSUME ParserAssumption, doc \in Documents, NEW i \in 1 .. Len(doc.props)
  PROVE  /\ Len(SaidProps(i)) = Least(MaxProps, HowMany(OneCleared, doc.props[i]))
         /\ DOMAIN SaidProps(i) = 1 .. Len(SaidProps(i))
         /\ Listed(SaidProps(i))
         /\ Len(SaidProps(i)) <= MaxProps
         /\ \A j \in 1 .. Len(SaidProps(i)) :
              SaidProps(i)[j] = <<Which(OneCleared, j),
                                  PropVal(i, Which(OneCleared, j))>>
<1> DEFINE k == doc.props[i]
           f == [j \in 1 .. k |-> <<j, PropVal(i, j)>>]
<1>1. k \in Nat /\ OneCleared \in Nat /\ MaxProps \in Nat
  BY DocumentIs DEF ParserAssumption, OneCleared
<1>2. SaidProps(i) = First(MaxProps, JsonLacks(OneCleared, f))
  BY Zenon DEF SaidProps, OneCleared, PropVal
<1>3. /\ f \in [1 .. k -> {f[x] : x \in 1 .. k}]
      /\ \A j \in 1 .. k : f[j] = <<j, PropVal(i, j)>>
  BY Zenon
<1> HIDE DEF f, k
<1>4. /\ Len(SaidProps(i)) = Least(MaxProps, HowMany(OneCleared, k))
      /\ DOMAIN SaidProps(i) = 1 .. Len(SaidProps(i))
      /\ Listed(SaidProps(i))
      /\ \A x \in 1 .. Len(SaidProps(i)) : /\ SaidProps(i)[x] = f[Which(OneCleared, x)]
                                           /\ Which(OneCleared, x) \in 1 .. k
  <2>1. KeptOf(First(MaxProps, JsonLacks(OneCleared, f)), MaxProps, OneCleared, k, f)
    BY <1>1, <1>3, WhatIsKept, Zenon
  <2> QED
    BY <1>2, <2>1, Zenon DEF KeptOf
<1>5. Least(MaxProps, HowMany(OneCleared, k)) <= MaxProps
  <2>1. HowMany(OneCleared, k) \in Nat
    <3>1. HowMany(OneCleared, k) \in 0 .. k
      BY <1>1, NumbersAre, Zenon
    <3> QED
      BY <3>1
  <2> QED
    BY <1>1, <2>1 DEF Least
<1> QED
  BY <1>3, <1>4, <1>5, Zenon DEF k
=============================================================================
