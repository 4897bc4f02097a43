----------------------- MODULE SessionHistoryProofs -----------------------
(***************************************************************************)
(* Whatever the numbers of sessions, messages and cache entries: InOrder   *)
(* and Isolated are invariants of SessionHistory, and no step breaks       *)
(* ContextKept.                                                            *)
(*                                                                         *)
(* All need the types first, and the types need that a new list exists:    *)
(* the lists in use are counted, one for the context, one for each         *)
(* session, one for each entry of the cache and one for a save under way,  *)
(* and there are more lists than that.                                     *)
(*                                                                         *)
(* For InOrder the inductive invariant says of every list, file, key and   *)
(* transcript that its messages were said, and of every list and history   *)
(* that they are in the order in which they were said, without the command *)
(* that still runs: its message was numbered when it started, and goes to  *)
(* the end.                                                                *)
(*                                                                         *)
(* For Isolated it says of every session that is not damaged that all it   *)
(* has is its own: what it shows, stores, saves and tells the model, and   *)
(* what the cache returns for a key that is its own.  A turn that has      *)
(* begun holds a message that no other session inherits and no key of the  *)
(* cache has, so the list it ends with is a new one, unless the cache      *)
(* takes its messages for others with the same texts: then the session,    *)
(* and whoever keeps that list if a note goes to it, is damaged.           *)
(*                                                                         *)
(* For ContextKept it says further of every such session that prompts go   *)
(* from the file to the stored list, from there, as far as they are shown, *)
(* to a save under way, and from there to the context; that a turn goes on *)
(* with those of the context it began with, and that the cache returns no  *)
(* fewer than it was asked for.  A cut takes the same prompts from the     *)
(* context as from what is shown, because the visible messages of an       *)
(* aligned context are the last ones shown and each is shown once.         *)
(***************************************************************************)
EXTENDS SessionHistory, SequenceTheorems, FiniteSetTheorems, TLAPS

-----------------------------------------------------------------------------
(* Sequences.                                                              *)

\* Induction over the naturals, for a set that holds 0 and is closed under successor.
LEMMA SetInduction ==
  ASSUME NEW S, 0 \in S, \A n \in Nat : n \in S => n + 1 \in S
  PROVE  Nat \subseteq S
  <1> DEFINE Missing == Nat \ S
             T == {1 .. n : n \in Missing}
  <1> SUFFICES ASSUME Missing # {} PROVE FALSE
    OBVIOUS
  <1>1. T \subseteq FiniteSubsetsOf(Nat) /\ T # {}
    <2>1. ASSUME NEW n \in Missing PROVE 1 .. n \in SUBSET Nat /\ IsFiniteSet(1 .. n)
      <3>1. n \in Int /\ 1 \in Int
        OBVIOUS
      <3> QED BY <3>1, FS_Interval
    <2> QED BY <2>1 DEF FiniteSubsetsOf
  <1>2. PICK x \in T : \A y \in T : ~ (<<y, x>> \in StrictSubsetOrdering(Nat))
    BY <1>1, FS_StrictSubsetOrderingWellFounded, WFMin
  <1>3. PICK m \in Missing : x = 1 .. m
    BY <1>2
  <1>4. m - 1 \in Missing
    BY <1>3
  <1>5. 1 .. (m - 1) \in T /\ 1 .. (m - 1) \in SUBSET Nat /\ 1 .. m \in SUBSET Nat
    BY <1>4
  <1>6. 1 .. (m - 1) \subseteq 1 .. m /\ m \in 1 .. m /\ m \notin 1 .. (m - 1)
    BY <1>4
  <1>7. <<1 .. (m - 1), 1 .. m>> \in StrictSubsetOrdering(Nat)
    BY <1>5, <1>6 DEF StrictSubsetOrdering
  <1> QED BY <1>2, <1>3, <1>5, <1>7

\* A set of naturals has a least element.
LEMMA Least ==
  ASSUME NEW T \in SUBSET Nat, T # {}
  PROVE  \E k \in T : \A j \in T : k <= j
  <1> SUFFICES ASSUME \A k \in T : \E j \in T : ~ (k <= j) PROVE FALSE
    OBVIOUS
  <1> DEFINE S == {n \in Nat : \A j \in T : n <= j}
  <1>1. 0 \in S
    OBVIOUS
  <1>2. \A n \in Nat : n \in S => n + 1 \in S
    OBVIOUS
  <1> HIDE DEF S
  <1>3. Nat \subseteq S
    BY <1>1, <1>2, SetInduction
  <1>4. PICK k : k \in T
    OBVIOUS
  <1> QED BY <1>3, <1>4 DEF S

\* g holds the concatenations of the first elements of e, as in FlattenSeq.
IsJoin(g, e, n) == g = [i \in 1 .. n |-> IF i = 1 THEN e[i] ELSE g[i - 1] \o e[i]]

\* The function that FlattenSeq chooses exists, for every length.
LEMMA JoinExists == ASSUME NEW e, NEW n \in Nat PROVE \E g : IsJoin(g, e, n)
  <1> DEFINE S == {m \in Nat : \E g : IsJoin(g, e, m)}
  <1>1. 0 \in S
    <2>1. IsJoin([i \in 1 .. 0 |-> e[i]], e, 0)
      BY DEF IsJoin
    <2> QED BY <2>1
  <1>2. ASSUME NEW m \in Nat, m \in S PROVE m + 1 \in S
    <2>1. PICK g : IsJoin(g, e, m)
      BY <1>2
    <2> DEFINE h == [i \in 1 .. m + 1 |-> IF i = m + 1
                                            THEN IF i = 1 THEN e[i] ELSE g[m] \o e[i]
                                            ELSE g[i]]
    <2>2. ASSUME NEW i \in 1 .. m + 1
          PROVE  h[i] = IF i = 1 THEN e[i] ELSE h[i - 1] \o e[i]
      <3>1. CASE i = m + 1
        <4>1. i # 1 => i - 1 \in 1 .. m + 1 /\ i - 1 # m + 1 /\ i - 1 = m
          BY <3>1
        <4>2. i # 1 => h[i - 1] = g[m]
          BY <4>1
        <4> QED BY <3>1, <4>2
      <3>2. CASE i # m + 1
        <4>1. i \in 1 .. m
          BY <3>2
        <4>2. i # 1 => i - 1 \in 1 .. m + 1 /\ i - 1 # m + 1
          BY <4>1
        <4>3. h[i] = g[i] /\ (i # 1 => h[i - 1] = g[i - 1])
          BY <3>2, <4>2
        <4> QED BY <2>1, <4>1, <4>3 DEF IsJoin
      <3> QED BY <3>1, <3>2
    <2> HIDE DEF h
    <2>3. IsJoin(h, e, m + 1)
      BY <2>2 DEF IsJoin, h
    <2> QED BY <2>3
  <1> HIDE DEF S
  <1>3. n \in S
    BY <1>1, <1>2, SetInduction
  <1> QED BY <1>3 DEF S

\* FlattenSeq returns the last of the partial concatenations.
LEMMA FlattenIsJoin ==
  ASSUME NEW e, Len(e) \in Nat \ {0}
  PROVE  \E g : IsJoin(g, e, Len(e)) /\ FlattenSeq(e) = g[Len(e)]
  <1> DEFINE join == CHOOSE g : IsJoin(g, e, Len(e))
  <1>1. IsJoin(join, e, Len(e))
    BY JoinExists
  <1>2. FlattenSeq(e) = join[Len(e)]
    BY DEF FlattenSeq, IsJoin
  <1> QED BY <1>1, <1>2

\* Flattening lists over a set gives one.
LEMMA FlattenedIn ==
  ASSUME NEW S, NEW e \in Seq(Seq(S))
  PROVE  FlattenSeq(e) \in Seq(S)
  <1> DEFINE f == FlattenSeq(e)
  <1>0. Len(e) \in Nat
    OBVIOUS
  <1>1. CASE Len(e) = 0
    BY <1>1, EmptySeq DEF FlattenSeq
  <1>2. CASE Len(e) # 0
    <2>1. PICK g : IsJoin(g, e, Len(e)) /\ f = g[Len(e)]
      BY <1>0, <1>2, FlattenIsJoin
    <2> DEFINE T == {n \in Nat : 0 < n /\ n <= Len(e) => g[n] \in Seq(S)}
    <2>2. 0 \in T
      OBVIOUS
    <2>3. ASSUME NEW n \in Nat, n \in T PROVE n + 1 \in T
      <3>1. SUFFICES ASSUME n + 1 <= Len(e) PROVE g[n + 1] \in Seq(S)
        OBVIOUS
      <3>2. n + 1 \in 1 .. Len(e) /\ e[n + 1] \in Seq(S)
        BY <1>0, <3>1
      <3>3. g[n + 1] = IF n + 1 = 1 THEN e[n + 1] ELSE g[(n + 1) - 1] \o e[n + 1]
        BY ONLY <2>1, <3>2 DEF IsJoin
      <3>4. n # 0 => g[n] \in Seq(S) /\ n + 1 # 1 /\ (n + 1) - 1 = n
        BY <1>0, <2>3, <3>1
      <3> QED BY <3>2, <3>3, <3>4
    <2> HIDE DEF T
    <2>4. Len(e) \in T
      BY <1>0, <2>2, <2>3, SetInduction
    <2> QED BY <1>0, <1>2, <2>1, <2>4 DEF T
  <1> QED BY <1>1, <1>2

\* The partial concatenations, one element more.
LEMMA JoinNext ==
  ASSUME NEW e, NEW L \in Nat, NEW g, IsJoin(g, e, L), NEW n \in Nat, n + 1 <= L
  PROVE  g[n + 1] = IF n = 0 THEN e[n + 1] ELSE g[n] \o e[n + 1]
  <1>1. n + 1 \in 1 .. L /\ (n + 1) - 1 = n /\ (n = 0 <=> n + 1 = 1)
    OBVIOUS
  <1>2. g[n + 1] = IF n + 1 = 1 THEN e[n + 1] ELSE g[(n + 1) - 1] \o e[n + 1]
    BY ONLY <1>1, IsJoin(g, e, L) DEF IsJoin
  <1> QED BY <1>1, <1>2

\* Partial concatenations of lists that begin alike begin alike.
LEMMA JoinSame ==
  ASSUME NEW e, NEW g, NEW n \in Nat, IsJoin(g, e, n),
         NEW d, NEW f, NEW k \in Nat, IsJoin(f, d, k), n <= k, \A i \in 1 .. n : e[i] = d[i]
  PROVE  \A i \in 1 .. n : g[i] = f[i]
  <1> DEFINE S == {m \in Nat : 0 < m /\ m <= n => g[m] = f[m]}
  <1>1. 0 \in S
    OBVIOUS
  <1>2. ASSUME NEW m \in Nat, m \in S PROVE m + 1 \in S
    <2> SUFFICES ASSUME m + 1 <= n PROVE g[m + 1] = f[m + 1]
      OBVIOUS
    <2>1. g[m + 1] = IF m = 0 THEN e[m + 1] ELSE g[m] \o e[m + 1]
      BY JoinNext
    <2>2. f[m + 1] = IF m = 0 THEN d[m + 1] ELSE f[m] \o d[m + 1]
      <3>1. m + 1 <= k
        OBVIOUS
      <3> QED BY <3>1, JoinNext
    <2>3. e[m + 1] = d[m + 1]
      OBVIOUS
    <2>4. m # 0 => g[m] = f[m]
      BY <1>2
    <2> QED BY <2>1, <2>2, <2>3, <2>4
  <1> HIDE DEF S
  <1>3. Nat \subseteq S
    BY <1>1, <1>2, SetInduction
  <1> QED BY <1>3 DEF S

-----------------------------------------------------------------------------
(* Contents of lists                                                       *)

\* What a list may hold.
Contents == Seq(Message)

\* Appending a message.
LEMMA AppendedIs ==
  ASSUME NEW s \in Contents, NEW m \in Message, NEW t, t = Append(s, m)
  PROVE  /\ t \in Contents /\ Len(s) \in Nat /\ Len(t) = Len(s) + 1
         /\ DOMAIN s = 1 .. Len(s) /\ DOMAIN t = 1 .. (Len(s) + 1)
         /\ \A i \in 1 .. Len(s) : t[i] = s[i]
         /\ t[Len(s) + 1] = m
         /\ \A i \in DOMAIN t : i \in DOMAIN s \/ i = Len(s) + 1
         /\ Range(t) = Range(s) \cup {m}
  <1>1. /\ t \in Contents /\ Len(s) \in Nat /\ Len(t) = Len(s) + 1
        /\ DOMAIN s = 1 .. Len(s) /\ DOMAIN t = 1 .. (Len(s) + 1)
        /\ \A i \in 1 .. Len(s) : t[i] = s[i]
        /\ t[Len(s) + 1] = m
    BY DEF Contents
  <1>2. \A i \in DOMAIN t : i \in DOMAIN s \/ i = Len(s) + 1
    BY <1>1
  <1>3. \A i \in DOMAIN s : i \in DOMAIN t
    BY <1>1
  <1>4. Len(s) + 1 \in DOMAIN t
    BY <1>1
  <1>5. Range(t) = Range(s) \cup {m}
    BY <1>1, <1>2, <1>3, <1>4 DEF Range
  <1> QED BY <1>1, <1>2, <1>5

\* The empty list.
LEMMA EmptyIs == <<>> \in Contents /\ DOMAIN <<>> = {} /\ Range(<<>>) = {} /\ Len(<<>>) = 0
  BY DEF Contents, Range

\* The pieces of a list that its visible messages are flattened from.
Shows(s) == [i \in DOMAIN s |-> IF Visible(s[i]) THEN <<s[i]>> ELSE <<>>]

\* VisibleIn reads a list from its beginning: nothing of nothing, and one message
\* more at a time.
LEMMA ShowsIs ==
  ASSUME NEW s \in Contents
  PROVE  /\ Shows(s) \in Seq(Contents) /\ Len(Shows(s)) = Len(s)
         /\ \A i \in 1 .. Len(s) : Shows(s)[i] = IF Visible(s[i]) THEN <<s[i]>> ELSE <<>>
         /\ VisibleIn(s) = FlattenSeq(Shows(s)) /\ VisibleIn(s) \in Contents
  <1>1. Len(s) \in Nat /\ DOMAIN s = 1 .. Len(s) /\ \A i \in 1 .. Len(s) : s[i] \in Message
    BY DEF Contents
  <1>2. \A i \in 1 .. Len(s) : (IF Visible(s[i]) THEN <<s[i]>> ELSE <<>>) \in Contents
    BY <1>1 DEF Contents
  <1>3. Shows(s) \in Seq(Contents) /\ Len(Shows(s)) = Len(s)
    BY <1>1, <1>2 DEF Shows
  <1>4. VisibleIn(s) = FlattenSeq(Shows(s))
    BY DEF VisibleIn, Shows
  <1>5. VisibleIn(s) \in Contents
    BY <1>3, <1>4, FlattenedIn DEF Contents
  <1> QED BY <1>1, <1>3, <1>4, <1>5 DEF Shows

\* One message more: it is shown if it is visible.
LEMMA VisibleNext ==
  ASSUME NEW s \in Contents, NEW m \in Message
  PROVE  VisibleIn(Append(s, m)) = IF Visible(m) THEN Append(VisibleIn(s), m) ELSE VisibleIn(s)
  <1> DEFINE t == Append(s, m)
             L == Len(s)
             e == Shows(s)
             d == Shows(t)
             p == IF Visible(m) THEN <<m>> ELSE <<>>
  <1>1. /\ t \in Contents /\ L \in Nat /\ Len(t) = L + 1
        /\ (\A i \in 1 .. L : t[i] = s[i]) /\ t[L + 1] = m
    BY AppendedIs
  <1>2. /\ Len(e) = L /\ VisibleIn(s) = FlattenSeq(e) /\ VisibleIn(s) \in Contents
        /\ \A i \in 1 .. L : e[i] = IF Visible(s[i]) THEN <<s[i]>> ELSE <<>>
    BY ShowsIs
  <1> HIDE DEF t
  <1>3. /\ Len(d) = L + 1 /\ VisibleIn(t) = FlattenSeq(d)
        /\ \A i \in 1 .. L + 1 : d[i] = IF Visible(t[i]) THEN <<t[i]>> ELSE <<>>
    BY <1>1, ShowsIs
  <1> HIDE DEF e, d, L
  <1>4. d[L + 1] = p
    <2>1. L + 1 \in 1 .. L + 1
      BY <1>1
    <2> QED BY <1>1, <1>3, <2>1
  <1>5. PICK f : IsJoin(f, d, L + 1) /\ FlattenSeq(d) = f[L + 1]
    <2>1. Len(d) \in Nat \ {0}
      BY <1>1, <1>3
    <2> QED BY <1>3, <2>1, FlattenIsJoin
  <1>6. f[L + 1] = IF L = 0 THEN p ELSE f[L] \o p
    <2>1. L + 1 \in Nat /\ L + 1 <= L + 1
      BY <1>1
    <2> QED BY <1>1, <1>4, <1>5, <2>1, JoinNext
  <1>7. VisibleIn(t) = IF L = 0 THEN p ELSE VisibleIn(s) \o p
    <2>1. CASE L = 0
      BY <1>3, <1>5, <1>6, <2>1
    <2>2. CASE L # 0
      <3>1. PICK g : IsJoin(g, e, L) /\ FlattenSeq(e) = g[L]
        BY <1>1, <1>2, <2>2, FlattenIsJoin
      <3>2. \A i \in 1 .. L : e[i] = d[i]
        <4>1. \A i \in 1 .. L : i \in 1 .. L + 1
          BY <1>1
        <4> QED BY <1>1, <1>2, <1>3, <4>1
      <3>3. \A i \in 1 .. L : g[i] = f[i]
        <4>1. L + 1 \in Nat /\ L <= L + 1
          BY <1>1
        <4> QED BY <1>1, <1>5, <3>1, <3>2, <4>1, JoinSame
      <3>4. g[L] = f[L]
        BY <1>1, <2>2, <3>3
      <3> QED BY <1>2, <1>3, <1>5, <1>6, <2>2, <3>1, <3>4
    <2> QED BY <2>1, <2>2
  <1>8. L = 0 => VisibleIn(s) = <<>>
    <2> SUFFICES ASSUME L = 0 PROVE VisibleIn(s) = <<>>
      OBVIOUS
    <2>1. FlattenSeq(e) = e
      BY <1>2 DEF FlattenSeq
    <2>2. e = <<>>
      <3>1. e \in Seq(Contents) /\ Len(e) = 0
        BY <1>2, ShowsIs DEF e
      <3> QED BY <3>1, EmptySeq
    <2> QED BY <1>2, <2>1, <2>2
  <1>9. VisibleIn(s) \o <<m>> = Append(VisibleIn(s), m)
    BY <1>2, AppendIsConcat DEF Contents
  <1>10. VisibleIn(s) \o <<>> = VisibleIn(s) /\ <<>> \o <<m>> = <<m>>
    BY <1>2, ConcatEmptySeq DEF Contents
  <1>11. Append(<<>>, m) = <<m>>
    OBVIOUS
  <1> QED BY <1>7, <1>8, <1>9, <1>10, <1>11 DEF t

\* A list whose messages are cut one by one.
LEMMA PrefixNext ==
  ASSUME NEW s \in Contents, NEW n \in Nat
  PROVE  /\ SubSeq(s, 1, 0) = <<>> /\ SubSeq(s, 1, Len(s)) = s /\ Len(s) \in Nat
         /\ n <= Len(s) => SubSeq(s, 1, n) \in Contents /\ Len(SubSeq(s, 1, n)) = n
                           /\ \A i \in 1 .. n : SubSeq(s, 1, n)[i] = s[i]
         /\ n + 1 <= Len(s) => s[n + 1] \in Message
                               /\ SubSeq(s, 1, n + 1) = Append(SubSeq(s, 1, n), s[n + 1])
  <1>1. Len(s) \in Nat /\ SubSeq(s, 1, 0) = <<>>
    BY DEF Contents
  <1>2. SubSeq(s, 1, Len(s)) = s
    BY SubSeqFull DEF Contents
  <1>3. ASSUME n <= Len(s)
        PROVE  SubSeq(s, 1, n) \in Contents /\ Len(SubSeq(s, 1, n)) = n /\ \A i \in 1 .. n : SubSeq(s, 1, n)[i] = s[i]
    BY <1>1, <1>3 DEF Contents
  <1>4. ASSUME n + 1 <= Len(s)
        PROVE  s[n + 1] \in Message /\ SubSeq(s, 1, n + 1) = Append(SubSeq(s, 1, n), s[n + 1])
    <2>1. s[n + 1] \in Message
      BY <1>1, <1>4 DEF Contents
    <2> DEFINE a == SubSeq(s, 1, n + 1)
               b == Append(SubSeq(s, 1, n), s[n + 1])
    <2>2. a \in Contents /\ Len(a) = n + 1 /\ \A i \in 1 .. n + 1 : a[i] = s[i]
      BY <1>1, <1>4 DEF Contents
    <2>3. n <= Len(s)
      BY <1>1, <1>4
    <2> DEFINE p == SubSeq(s, 1, n)
               m == s[n + 1]
    <2>6. p \in Contents /\ Len(p) = n /\ (\A i \in 1 .. n : p[i] = s[i]) /\ b = Append(p, m) /\ m \in Message
      BY <1>3, <2>1, <2>3
    <2> HIDE DEF a, b, p, m
    <2>4. b \in Contents /\ Len(b) = n + 1 /\ (\A i \in 1 .. n : b[i] = s[i]) /\ b[n + 1] = m
      <3>0. p \in Contents /\ m \in Message /\ b = Append(p, m)
        BY <2>6
      <3>1. b \in Contents /\ Len(b) = Len(p) + 1
        BY ONLY <3>0, AppendedIs
      <3>2. \A i \in 1 .. Len(p) : b[i] = p[i]
        BY ONLY <3>0, AppendedIs
      <3>3. b[Len(p) + 1] = m
        BY ONLY <3>0, AppendedIs
      <3> QED BY <2>6, <3>1, <3>2, <3>3
    <2>5. \A i \in 1 .. n + 1 : i \in 1 .. n \/ i = n + 1
      OBVIOUS
    <2>7. a = b
      BY <2>2, <2>4, <2>5, SeqEqual DEF Contents, m
    <2> QED BY <2>1, <2>7 DEF a, b
  <1> QED BY <1>1, <1>2, <1>3, <1>4

\* What one message more asks of the order.
LEMMA ChronologicalNext ==
  ASSUME NEW s \in Contents, NEW m \in Message
  PROVE  Chronological(Append(s, m)) <=>
           /\ Chronological(s)
           /\ \A i \in DOMAIN s : s[i] # m /\ (m.kind # "shell" => s[i].at < m.at)
  <1> DEFINE t == Append(s, m)
  <1>1. /\ Len(s) \in Nat /\ DOMAIN s = 1 .. Len(s) /\ DOMAIN t = 1 .. (Len(s) + 1)
        /\ (\A i \in 1 .. Len(s) : t[i] = s[i]) /\ t[Len(s) + 1] = m
        /\ \A i \in DOMAIN t : i \in DOMAIN s \/ i = Len(s) + 1
    BY AppendedIs
  <1> HIDE DEF t
  <1>2. \A i \in 1 .. Len(s) : i \in DOMAIN t /\ i < Len(s) + 1
    BY <1>1
  <1>3. Len(s) + 1 \in DOMAIN t
    BY <1>1
  <1>4. ASSUME Chronological(t)
        PROVE  /\ Chronological(s)
               /\ \A i \in DOMAIN s : s[i] # m /\ (m.kind # "shell" => s[i].at < m.at)
    BY <1>1, <1>2, <1>3, <1>4 DEF Chronological
  <1>5. ASSUME Chronological(s), \A i \in DOMAIN s : s[i] # m /\ (m.kind # "shell" => s[i].at < m.at)
        PROVE  Chronological(t)
    <2> SUFFICES ASSUME NEW i \in DOMAIN t, NEW j \in DOMAIN t, i < j
                 PROVE  t[i] # t[j] /\ (t[j].kind # "shell" => t[i].at < t[j].at)
      BY DEF Chronological
    <2>1. i \in DOMAIN s
      BY <1>1
    <2>2. CASE j \in DOMAIN s
      BY <1>1, <1>5, <2>1, <2>2 DEF Chronological
    <2>3. CASE j = Len(s) + 1
      BY <1>1, <1>5, <2>1, <2>3
    <2> QED BY <1>1, <2>2, <2>3
  <1> QED BY <1>4, <1>5 DEF t

\* The empty list is in order.
LEMMA EmptyChronological == Chronological(<<>>)
  BY EmptyIs DEF Chronological

\* The beginning of a list in order is in order.
LEMMA PrefixChronological ==
  ASSUME NEW s \in Contents, Chronological(s), NEW n \in Int, n <= Len(s)
  PROVE  /\ SubSeq(s, 1, n) \in Contents
         /\ Chronological(SubSeq(s, 1, n))
         /\ Range(SubSeq(s, 1, n)) \subseteq Range(s)
  <1> DEFINE p == SubSeq(s, 1, n)
  <1>0. Len(s) \in Nat /\ DOMAIN s = 1 .. Len(s)
    BY DEF Contents
  <1>1. p \in Contents /\ \A i \in DOMAIN p : i \in DOMAIN s /\ p[i] = s[i]
    <2>1. CASE n <= 0
      <3>1. p = <<>>
        BY <2>1, SubSeqEmpty DEF Contents
      <3> QED BY <3>1, EmptyIs
    <2>2. CASE n > 0
      <3>1. n \in Nat
        BY <2>2
      <3>2. p \in Contents /\ Len(p) = n /\ \A i \in 1 .. n : p[i] = s[i]
        BY <3>1, PrefixNext
      <3>3. DOMAIN p = 1 .. n
        BY <3>2 DEF Contents
      <3> HIDE DEF p
      <3> QED BY <1>0, <3>2, <3>3
    <2> QED BY <2>1, <2>2
  <1> HIDE DEF p
  <1>2. Chronological(p)
    BY <1>0, <1>1 DEF Chronological
  <1>3. Range(p) \subseteq Range(s)
    BY <1>1 DEF Range
  <1> QED BY <1>1, <1>2, <1>3 DEF p

\* The visible messages are those of the list that are visible, in its order.
LEMMA VisibleIs ==
  ASSUME NEW s \in Contents
  PROVE  /\ VisibleIn(s) \in Contents
         /\ Range(VisibleIn(s)) = {m \in Range(s) : Visible(m)}
         /\ Chronological(s) => Chronological(VisibleIn(s))
  <1> DEFINE P(n) == SubSeq(s, 1, n)
             V(n) == VisibleIn(P(n))
             Good(n) == /\ V(n) \in Contents
                        /\ Range(V(n)) = {m \in Range(P(n)) : Visible(m)}
                        /\ Chronological(P(n)) => Chronological(V(n))
             S == {n \in Nat : n <= Len(s) => Good(n)}
  <1>0. Len(s) \in Nat /\ P(0) = <<>> /\ P(Len(s)) = s
    BY PrefixNext
  <1>1. 0 \in S
    <2>1. V(0) = <<>>
      <3>1. Shows(<<>>) = <<>>
        BY EmptyIs DEF Shows
      <3>2. FlattenSeq(<<>>) = <<>>
        BY EmptyIs DEF FlattenSeq
      <3> QED BY <1>0, <3>1, <3>2, EmptyIs, ShowsIs
    <2> QED BY <1>0, <2>1, EmptyIs, EmptyChronological
  <1>2. ASSUME NEW n \in Nat, n \in S PROVE n + 1 \in S
    <2> SUFFICES ASSUME n + 1 <= Len(s) PROVE Good(n + 1)
      OBVIOUS
    <2> DEFINE p == P(n)
               q == P(n + 1)
               m == s[n + 1]
    <2>1. p \in Contents /\ m \in Message /\ q = Append(p, m) /\ n <= Len(s)
      <3>1. n <= Len(s)
        BY <1>0
      <3>2. p \in Contents
        BY <3>1, PrefixNext
      <3>3. m \in Message /\ q = Append(p, m)
        BY PrefixNext
      <3> QED BY <3>1, <3>2, <3>3
    <2>2. Good(n)
      <3> HIDE DEF Good, P, V
      <3> QED BY <1>2, <2>1
    <2>3. VisibleIn(q) = IF Visible(m) THEN Append(VisibleIn(p), m) ELSE VisibleIn(p)
      BY <2>1, VisibleNext
    <2> DEFINE a == VisibleIn(p)
               b == VisibleIn(q)
    <2>4. /\ a \in Contents /\ Range(a) = {x \in Range(p) : Visible(x)}
          /\ Chronological(p) => Chronological(a)
          /\ b = IF Visible(m) THEN Append(a, m) ELSE a
      BY <2>2, <2>3
    <2> HIDE DEF p, q, m, a, b
    <2>5. Range(q) = Range(p) \cup {m}
      BY <2>1, AppendedIs
    <2>6. b \in Contents /\ Range(b) = {x \in Range(q) : Visible(x)}
      <3>1. CASE Visible(m)
        <4>1. b = Append(a, m)
          BY <2>4, <3>1
        <4>2. b \in Contents /\ Range(b) = Range(a) \cup {m}
          BY <2>1, <2>4, <4>1, AppendedIs
        <4> QED BY <2>4, <2>5, <3>1, <4>2
      <3>2. CASE ~ Visible(m)
        BY <2>4, <2>5, <3>2
      <3> QED BY <3>1, <3>2
    <2>7. ASSUME Chronological(q) PROVE Chronological(b)
      <3>1. Chronological(p) /\ \A i \in DOMAIN p : p[i] # m /\ (m.kind # "shell" => p[i].at < m.at)
        BY <2>1, <2>7, ChronologicalNext
      <3>2. \A i \in DOMAIN a : \E j \in DOMAIN p : a[i] = p[j]
        BY <2>4 DEF Range
      <3>3. \A i \in DOMAIN a : a[i] # m /\ (m.kind # "shell" => a[i].at < m.at)
        BY <3>1, <3>2
      <3>4. Chronological(Append(a, m))
        BY <2>1, <2>4, <3>1, <3>3, ChronologicalNext
      <3> QED BY <2>4, <3>1, <3>4
    <2> QED BY <2>6, <2>7 DEF b, q
  <1> HIDE DEF S
  <1>3. Len(s) \in S
    BY <1>0, <1>1, <1>2, SetInduction
  <1>4. Good(Len(s))
    BY <1>0, <1>3 DEF S
  <1> QED BY <1>0, <1>4

-----------------------------------------------------------------------------
(* Types.                                                                  *)

\* What the cache, a file and a save under way range over.
CacheEntry == [key : Contents, list : Lists]
\* A session's file has the messages and the history.
File == [messages : Contents, history : Contents]
\* A save under way has copied the messages but names the list.
SaveData == [id : Sessions, messages : Contents, history : Lists]

\* The types.
ListsTyped ==
    /\ heap \in [Lists -> Contents]
    /\ history \in Lists
    /\ turn \in Contents
    /\ cache \in Seq(CacheEntry)
    /\ Len(cache) <= CacheSize
    /\ stored \in [Sessions -> Lists \cup {None}]
    /\ save \in SaveData \cup {None}

\* The numbers and the values of the sessions, of the turn and of the "!"
\* command.
SessionsTyped ==
    /\ transcript \in [Sessions -> Contents]
    /\ disk \in [Sessions -> File \cup {None}]
    /\ opened \in Sessions
    /\ current \in 1..opened
    /\ shell \in Message \cup {None}
    /\ shell # None => shell.kind = "shell"
    /\ pending \in 0..Everything \cup {None}
    /\ made \in 0..MaxMessages
    /\ inherited \in [Sessions -> SUBSET Message]

\* The current session is in memory, and what is not opened is blank; a fork is
\* chosen when there is room for it.
Blank(s) == stored[s] = None /\ transcript[s] = <<>> /\ disk[s] = None /\ inherited[s] = {}

\* A session that was not opened yet is blank, and a fork to come has room.
OpenedOnly ==
    /\ stored[current] # None
    /\ \A s \in Sessions : s > opened => Blank(s)
    /\ save # None => save.id <= opened
    /\ pending # None => opened < MaxSessions

\* The types, with what the bounds leave room for.
HistoryType == ListsTyped /\ SessionsTyped /\ OpenedOnly

-----------------------------------------------------------------------------
(* New lists.                                                              *)

\* None is no number and no list, and the bounds are what is needed for Fresh.
LEMMA ConstantsAre ==
  /\ IsFiniteSet(Lists) /\ Cardinality(Lists) \in Nat
  /\ Cardinality(Lists) >= MaxSessions + CacheSize + 4
  /\ None \notin Lists /\ None \notin Nat /\ None \notin Sessions
  /\ MaxMessages \in Nat /\ MaxSessions \in Nat /\ MaxSessions # 0 /\ CacheSize \in Nat
  /\ MaxSaves \in Nat /\ MaxCommands \in Nat /\ CacheSize # 0
  /\ Everything = MaxMessages + 1 /\ Sessions = 1 .. MaxSessions
  BY ListsAssumption, BoundsAssumption, FS_CardinalityType DEF Everything, Sessions

\* At most as many lists are stored as sessions are opened.
LEMMA StoredCount ==
  ASSUME HistoryType
  PROVE  /\ IsFiniteSet(Range(stored) \ {None})
         /\ Cardinality(Range(stored) \ {None}) <= opened
         /\ Range(stored) \ {None} \subseteq Lists
  <1> DEFINE S == {s \in Sessions : stored[s] # None}
             T == Range(stored) \ {None}
             f == [s \in S |-> stored[s]]
  <1>1. stored \in [Sessions -> Lists \cup {None}] /\ opened \in Nat /\ \A s \in Sessions : s > opened => stored[s] = None
    BY ConstantsAre DEF HistoryType, ListsTyped, SessionsTyped, OpenedOnly, Blank
  <1>2. S \in SUBSET (1 .. opened)
    BY <1>1, ConstantsAre
  <1>3. IsFiniteSet(1 .. opened) /\ Cardinality(1 .. opened) = opened
    <2>1. opened \in Int /\ 1 \in Int
      BY <1>1
    <2>2. Cardinality(1 .. opened) = IF 1 > opened THEN 0 ELSE opened - 1 + 1
      BY <2>1, FS_Interval
    <2> QED BY <1>1, <2>1, <2>2, FS_Interval
  <1>4. IsFiniteSet(S) /\ Cardinality(S) <= opened
    BY <1>2, <1>3, FS_Subset
  <1>5. f \in Surjection(S, T)
    BY <1>1 DEF Surjection, Range
  <1>6. IsFiniteSet(T) /\ Cardinality(T) <= Cardinality(S)
    BY <1>4, <1>5, FS_Surjection
  <1>7. T \subseteq Lists
    BY <1>1 DEF Range
  <1>8. Cardinality(T) \in Nat /\ Cardinality(S) \in Nat
    BY <1>4, <1>6, FS_CardinalityType
  <1> QED BY <1>1, <1>4, <1>6, <1>7, <1>8

\* The cache names no more lists than it has entries.
LEMMA CachedCount ==
  ASSUME HistoryType
  PROVE  LET T == {cache[i].list : i \in DOMAIN cache}
         IN  IsFiniteSet(T) /\ Cardinality(T) <= CacheSize /\ T \subseteq Lists
  <1> DEFINE T == {cache[i].list : i \in DOMAIN cache}
             n == Len(cache)
             f == [i \in 1 .. n |-> cache[i].list]
  <1>1. n \in Nat /\ n <= CacheSize /\ DOMAIN cache = 1 .. n /\ \A i \in 1 .. n : cache[i].list \in Lists
    <2>1. cache \in Seq(CacheEntry) /\ n <= CacheSize
      BY DEF HistoryType, ListsTyped
    <2>2. \A i \in 1 .. n : cache[i] \in CacheEntry
      BY <2>1
    <2>3. n \in Nat /\ DOMAIN cache = 1 .. n
      BY <2>1
    <2> QED BY <2>1, <2>2, <2>3 DEF CacheEntry
  <1>3. IsFiniteSet(1 .. n) /\ Cardinality(1 .. n) = n
    <2>1. n \in Int /\ 1 \in Int
      BY <1>1
    <2>2. Cardinality(1 .. n) = IF 1 > n THEN 0 ELSE n - 1 + 1
      BY <2>1, FS_Interval
    <2> QED BY <1>1, <2>1, <2>2, FS_Interval
  <1>5. f \in Surjection(1 .. n, T)
    BY <1>1 DEF Surjection
  <1>6. IsFiniteSet(T) /\ Cardinality(T) <= Cardinality(1 .. n)
    BY <1>3, <1>5, FS_Surjection
  <1>7. T \subseteq Lists
    BY <1>1
  <1>8. Cardinality(T) \in Nat
    BY <1>6, FS_CardinalityType
  <1>9. Cardinality(T) <= CacheSize
    BY <1>1, <1>3, <1>6, <1>8, ConstantsAre
  <1> QED BY <1>6, <1>7, <1>9

\* The union of two small sets is small.
LEMMA UnionCount ==
  ASSUME NEW S, IsFiniteSet(S), NEW T, IsFiniteSet(T), NEW m \in Nat, Cardinality(S) <= m, NEW n \in Nat, Cardinality(T) <= n
  PROVE  IsFiniteSet(S \cup T) /\ Cardinality(S \cup T) <= m + n
  <1>1. IsFiniteSet(S \cup T) /\ Cardinality(S \cup T) = Cardinality(S) + Cardinality(T) - Cardinality(S \cap T)
    BY FS_Union
  <1>2. IsFiniteSet(S \cap T)
    <2>1. S \cap T \in SUBSET S
      OBVIOUS
    <2> QED BY <2>1, FS_Subset
  <1>3. Cardinality(S) \in Nat /\ Cardinality(T) \in Nat /\ Cardinality(S \cap T) \in Nat
    BY <1>2, FS_CardinalityType
  <1> QED BY <1>1, <1>3

\* The lists in use: the context's, the sessions', the cache's and the save's.
LEMMA UsedCount ==
  ASSUME HistoryType
  PROVE  IsFiniteSet(Used) /\ Cardinality(Used) <= opened + CacheSize + 2 /\ Used \subseteq Lists
  <1> DEFINE A == {history}
             B == Range(stored) \ {None}
             C == {cache[i].list : i \in DOMAIN cache}
             D == IF save = None THEN {} ELSE {save.history}
  <1>0. opened \in Nat /\ CacheSize \in Nat
    BY ConstantsAre DEF HistoryType, SessionsTyped
  <1>1. IsFiniteSet(A) /\ Cardinality(A) <= 1 /\ A \subseteq Lists
    <2>1. IsFiniteSet({history}) /\ Cardinality({history}) = 1
      BY FS_Singleton
    <2> QED BY <2>1 DEF HistoryType, ListsTyped
  <1>2. IsFiniteSet(B) /\ Cardinality(B) <= opened /\ B \subseteq Lists
    BY StoredCount
  <1>3. IsFiniteSet(C) /\ Cardinality(C) <= CacheSize /\ C \subseteq Lists
    BY CachedCount
  <1>4. IsFiniteSet(D) /\ Cardinality(D) <= 1 /\ D \subseteq Lists
    <2>1. CASE save = None
      BY <2>1, FS_EmptySet
    <2>2. CASE save # None
      <3>1. IsFiniteSet({save.history}) /\ Cardinality({save.history}) = 1
        BY FS_Singleton
      <3>2. save.history \in Lists
        BY <2>2 DEF HistoryType, ListsTyped, SaveData
      <3> QED BY <2>2, <3>1, <3>2
    <2> QED BY <2>1, <2>2
  <1>5. Used = ((A \cup B) \cup C) \cup D
    BY DEF Used
  <1> HIDE DEF A, B, C, D
  <1>6. IsFiniteSet(A \cup B) /\ Cardinality(A \cup B) <= 1 + opened
    BY <1>0, <1>1, <1>2, UnionCount
  <1>7. 1 + opened \in Nat /\ 1 + opened + CacheSize \in Nat
    BY <1>0
  <1>8. IsFiniteSet((A \cup B) \cup C) /\ Cardinality((A \cup B) \cup C) <= 1 + opened + CacheSize
    BY <1>0, <1>3, <1>6, <1>7, UnionCount
  <1>9. IsFiniteSet(Used) /\ Cardinality(Used) <= (1 + opened + CacheSize) + 1
    BY <1>4, <1>5, <1>7, <1>8, UnionCount
  <1>10. Cardinality(Used) \in Nat
    BY <1>9, FS_CardinalityType
  <1>11. Used \subseteq Lists
    BY <1>1, <1>2, <1>3, <1>4, <1>5
  <1> QED BY <1>0, <1>9, <1>10, <1>11

\* There is a list nobody refers to, besides one other, or two when a session more may be opened.
LEMMA FreshIs ==
  ASSUME HistoryType, NEW X, IsFiniteSet(X), NEW n \in Nat, Cardinality(X) <= n, n <= 1 \/ (n = 2 /\ opened < MaxSessions)
  PROVE  Fresh(X) \in Lists /\ Fresh(X) \notin Used /\ Fresh(X) \notin X
  <1>0. opened \in Nat /\ CacheSize \in Nat /\ MaxSessions \in Nat /\ opened <= MaxSessions
    BY ConstantsAre DEF HistoryType, SessionsTyped
  <1>1. IsFiniteSet(Used) /\ Cardinality(Used) <= opened + CacheSize + 2
    BY UsedCount
  <1>2. opened + CacheSize + 2 \in Nat
    BY <1>0
  <1>3. IsFiniteSet(Used \cup X) /\ Cardinality(Used \cup X) <= opened + CacheSize + 2 + n
    BY <1>1, <1>2, UnionCount
  <1>4. Cardinality(Used \cup X) < Cardinality(Lists)
    <2>1. Cardinality(Used \cup X) \in Nat
      BY <1>3, FS_CardinalityType
    <2> QED BY <1>0, <1>3, <2>1, ConstantsAre
  <1>5. \E l \in Lists : l \notin Used \cup X
    <2> SUFFICES ASSUME Lists \subseteq Used \cup X PROVE FALSE
      OBVIOUS
    <2>1. Cardinality(Lists) <= Cardinality(Used \cup X)
      BY <1>3, FS_Subset
    <2>2. Cardinality(Used \cup X) \in Nat
      BY <1>3, FS_CardinalityType
    <2> QED BY <1>4, <2>1, <2>2, ConstantsAre
  <1> QED BY <1>5 DEF Fresh

\* There is a list for a step that needs one, two or three new ones.
LEMMA FreshOne ==
  ASSUME HistoryType
  PROVE  /\ Fresh({}) \in Lists /\ Fresh({}) \notin Used
         /\ \A l : Fresh({l}) \in Lists /\ Fresh({l}) \notin Used /\ Fresh({l}) # l
         /\ opened < MaxSessions => \A k, l : Fresh({k, l}) \in Lists /\ Fresh({k, l}) \notin Used
                                                 /\ Fresh({k, l}) # l /\ Fresh({k, l}) # k
  <1>1. IsFiniteSet({}) /\ Cardinality({}) <= 1
    BY FS_EmptySet
  <1>2. ASSUME NEW l PROVE IsFiniteSet({l}) /\ Cardinality({l}) = 1 /\ Cardinality({l}) <= 1
    <2>1. IsFiniteSet({l}) /\ Cardinality({l}) = 1
      BY FS_Singleton
    <2> QED BY <2>1
  <1>3. ASSUME NEW k, NEW l PROVE IsFiniteSet({k, l}) /\ Cardinality({k, l}) <= 2
    <2>1. {k, l} = {k} \cup {l}
      OBVIOUS
    <2>2. IsFiniteSet({k} \cup {l}) /\ Cardinality({k} \cup {l}) <= 1 + 1
      BY <1>2, UnionCount
    <2> QED BY <2>1, <2>2
  <1>4. Fresh({}) \in Lists /\ Fresh({}) \notin Used
    BY <1>1, FreshIs
  <1>5. ASSUME NEW l PROVE Fresh({l}) \in Lists /\ Fresh({l}) \notin Used /\ Fresh({l}) # l
    <2>1. Fresh({l}) \in Lists /\ Fresh({l}) \notin Used /\ Fresh({l}) \notin {l}
      BY <1>2, FreshIs
    <2> QED BY <2>1
  <1>6. ASSUME opened < MaxSessions, NEW k, NEW l
        PROVE Fresh({k, l}) \in Lists /\ Fresh({k, l}) \notin Used /\ Fresh({k, l}) # l /\ Fresh({k, l}) # k
    <2>1. Fresh({k, l}) \in Lists /\ Fresh({k, l}) \notin Used /\ Fresh({k, l}) \notin {k, l}
      BY <1>3, <1>6, FreshIs
    <2> QED BY <2>1
  <1> QED BY <1>4, <1>5, <1>6

\* Where the cache has contents with these texts.
LEMMA EntryIs ==
  ASSUME HistoryType, NEW contents \in Contents
  PROVE  /\ Entry(contents) \in Nat
         /\ Entry(contents) # 0 => Entry(contents) \in DOMAIN cache /\ Texts(cache[Entry(contents)].key) = Texts(contents)
         /\ Entry(contents) = 0 => \A i \in DOMAIN cache : cache[i].key # contents
  <1> DEFINE I == {i \in 1 .. Len(cache) : Texts(cache[i].key) = Texts(contents)}
  <1>1. cache \in Seq(CacheEntry)
    BY DEF HistoryType, ListsTyped
  <1>2. Len(cache) \in Nat /\ DOMAIN cache = 1 .. Len(cache)
    BY <1>1
  <1>3. Entry(contents) = IF I # {} THEN Min(I) ELSE 0
    BY DEF Entry, SelectInSeq
  <1>4. CASE I = {}
    BY <1>2, <1>3, <1>4
  <1>5. CASE I # {}
    <2>1. I \in SUBSET Nat
      BY <1>2
    <2>2. \E k \in I : \A j \in I : k <= j
      BY <1>5, <2>1, Least
    <2>3. Min(I) \in I
      BY <2>2 DEF Min
    <2> QED BY <1>2, <1>3, <1>5, <2>3
  <1> QED BY <1>4, <1>5

\* What sanitizing returns.
LEMMA CachedIs ==
  ASSUME HistoryType, NEW contents \in Contents
  PROVE  /\ CachedList(contents) \in Lists
         /\ CachedContents(contents) \in Contents
         /\ \/ /\ Entry(contents) = 0
               /\ CachedList(contents) \notin Used
               /\ CachedContents(contents) = contents
               /\ \A i \in DOMAIN cache : cache[i].key # contents
            \/ /\ Entry(contents) # 0
               /\ CachedContents(contents) = heap[CachedList(contents)]
               /\ CachedList(contents) \in Used
               /\ \E i \in DOMAIN cache : /\ cache[i].list = CachedList(contents)
                                          /\ Mistaken(contents) \/ cache[i].key = contents
  <1>1. cache \in Seq(CacheEntry) /\ heap \in [Lists -> Contents]
    BY DEF HistoryType, ListsTyped
  <1>2. \A i \in DOMAIN cache : cache[i] \in CacheEntry
    BY <1>1
  <1>3. CASE Entry(contents) = 0
    BY <1>3, EntryIs, FreshOne DEF CachedList, CachedContents
  <1>4. CASE Entry(contents) # 0
    <2>1. Entry(contents) \in DOMAIN cache /\ (Mistaken(contents) \/ cache[Entry(contents)].key = contents)
      BY <1>4, EntryIs DEF Mistaken
    <2>2. CachedList(contents) = cache[Entry(contents)].list /\ CachedContents(contents) = heap[CachedList(contents)]
      BY <1>4 DEF CachedList, CachedContents
    <2>3. CachedList(contents) \in Lists
      BY <1>2, <2>1, <2>2 DEF CacheEntry
    <2>4. CachedList(contents) \in Used
      BY <2>1, <2>2 DEF Used
    <2> QED BY <1>1, <1>4, <2>1, <2>2, <2>3, <2>4
  <1> QED BY <1>3, <1>4

\* The other entries are entries of the cache; one less when it had the contents.
LEMMA OthersAre ==
  ASSUME HistoryType, NEW contents \in Contents, NEW rest, rest = OtherEntries(contents)
  PROVE  /\ rest \in Seq(CacheEntry) /\ Len(rest) <= CacheSize
         /\ \A i \in DOMAIN rest : \E j \in DOMAIN cache : rest[i] = cache[j]
  <1>1. cache \in Seq(CacheEntry) /\ Len(cache) <= CacheSize /\ Len(cache) \in Nat /\ DOMAIN cache = 1 .. Len(cache)
    BY DEF HistoryType, ListsTyped
  <1>2. CASE Entry(contents) = 0
    BY <1>1, <1>2 DEF OtherEntries
  <1>3. CASE Entry(contents) # 0
    <2> DEFINE n == Len(cache)
               e == Entry(contents)
               a == SubSeq(cache, 1, e - 1)
               b == SubSeq(cache, e + 1, n)
    <2>1. e \in 1 .. n /\ n \in Nat /\ n <= CacheSize
      BY <1>1, <1>3, EntryIs
    <2>2. rest = a \o b
      BY <1>3 DEF OtherEntries, RemoveAt
    <2> HIDE DEF e
    <2>3. a \in Seq(CacheEntry) /\ Len(a) = e - 1 /\ \A i \in 1 .. e - 1 : a[i] = cache[i]
      <3>1. \A i \in 1 .. e - 1 : cache[i] \in CacheEntry
        BY <1>1, <2>1
      <3>2. 1 \in Int /\ e - 1 \in Int
        BY <2>1
      <3>3. /\ SubSeq(cache, 1, e - 1) \in Seq(CacheEntry)
            /\ Len(SubSeq(cache, 1, e - 1)) = IF 1 <= e - 1 THEN e - 1 - 1 + 1 ELSE 0
            /\ \A i \in 1 .. (e - 1) - 1 + 1 : SubSeq(cache, 1, e - 1)[i] = cache[1 + i - 1]
        BY <3>1, <3>2, SubSeqProperties
      <3> QED BY <2>1, <3>3
    <2>4. b \in Seq(CacheEntry) /\ Len(b) = n - e /\ \A i \in 1 .. n - e : b[i] = cache[e + i]
      <3>1. \A i \in e + 1 .. n : cache[i] \in CacheEntry
        BY <1>1, <2>1
      <3>2. n \in Int /\ e + 1 \in Int
        BY <2>1
      <3>3. /\ SubSeq(cache, e + 1, n) \in Seq(CacheEntry)
            /\ Len(SubSeq(cache, e + 1, n)) = IF e + 1 <= n THEN n - (e + 1) + 1 ELSE 0
            /\ \A i \in 1 .. n - (e + 1) + 1 : SubSeq(cache, e + 1, n)[i] = cache[(e + 1) + i - 1]
        BY <3>1, <3>2, SubSeqProperties
      <3> QED BY <2>1, <3>3
    <2> HIDE DEF a, b
    <2>5. /\ rest \in Seq(CacheEntry) /\ Len(rest) = n - 1
          /\ \A i \in 1 .. n - 1 : rest[i] = IF i <= e - 1 THEN a[i] ELSE b[i - (e - 1)]
      <3>1. /\ a \o b \in Seq(CacheEntry)
            /\ Len(a \o b) = Len(a) + Len(b)
            /\ \A i \in 1 .. Len(a) + Len(b) : (a \o b)[i] = IF i <= Len(a) THEN a[i] ELSE b[i - Len(a)]
        BY <2>3, <2>4, ConcatProperties
      <3>2. Len(a) + Len(b) = n - 1
        BY <2>1, <2>3, <2>4
      <3> QED BY <2>2, <2>3, <3>1, <3>2
    <2>6. \A i \in 1 .. n - 1 : \E j \in 1 .. n : rest[i] = cache[j]
      <3> SUFFICES ASSUME NEW i \in 1 .. n - 1 PROVE \E j \in 1 .. n : rest[i] = cache[j]
        OBVIOUS
      <3>1. CASE i <= e - 1
        <4>1. rest[i] = cache[i] /\ i \in 1 .. n
          BY <2>1, <2>3, <2>5, <3>1
        <4> QED BY <4>1
      <3>2. CASE ~ (i <= e - 1)
        <4>1. i - (e - 1) \in 1 .. n - e /\ e + (i - (e - 1)) = i + 1 /\ i + 1 \in 1 .. n
          BY <2>1, <3>2
        <4>2. rest[i] = cache[i + 1]
          BY <2>4, <2>5, <3>2, <4>1
        <4> QED BY <4>1, <4>2
      <3> QED BY <3>1, <3>2
    <2>7. DOMAIN rest = 1 .. n - 1
      BY <2>5
    <2>8. n - 1 <= CacheSize
      BY <2>1, ConstantsAre
    <2> QED BY <1>1, <2>5, <2>6, <2>7, <2>8
  <1> QED BY <1>2, <1>3

\* The cache afterwards.
LEMMA CacheAfterIs ==
  ASSUME HistoryType, NEW contents \in Contents, NEW after, after = CacheAfter(contents)
  PROVE  /\ after \in Seq(CacheEntry) /\ Len(after) <= CacheSize
         /\ \A i \in DOMAIN after : \/ /\ Entry(contents) = 0
                                       /\ after[i] = [key |-> contents, list |-> CachedList(contents)]
                                    \/ \E j \in DOMAIN cache : after[i] = cache[j]
         /\ \E i \in DOMAIN after : after[i].list = CachedList(contents)
  <1> DEFINE rest == OtherEntries(contents)
             kept == IF Len(rest) = CacheSize THEN Tail(rest) ELSE rest
             fresh == [key |-> contents, list |-> CachedList(contents)]
             new == IF Entry(contents) = 0 THEN fresh ELSE cache[Entry(contents)]
  <1>1. /\ rest \in Seq(CacheEntry) /\ Len(rest) <= CacheSize
        /\ \A i \in DOMAIN rest : \E j \in DOMAIN cache : rest[i] = cache[j]
    BY OthersAre
  <1>2. after = Append(kept, new)
    BY DEF CacheAfter
  <1>3. new \in CacheEntry
    <2>1. fresh \in CacheEntry
      BY CachedIs DEF CacheEntry
    <2>2. cache \in Seq(CacheEntry)
      BY DEF HistoryType, ListsTyped
    <2>3. Entry(contents) # 0 => cache[Entry(contents)] \in CacheEntry
      BY <2>2, EntryIs
    <2> QED BY <2>1, <2>3
  <1>a. \/ Entry(contents) = 0 /\ new = [key |-> contents, list |-> CachedList(contents)]
        \/ \E j \in DOMAIN cache : new = cache[j]
    BY EntryIs
  <1>b. new.list = CachedList(contents)
    BY DEF CachedList
  <1> HIDE DEF rest, new
  <1>4. kept \in Seq(CacheEntry) /\ Len(kept) < CacheSize /\ \A i \in DOMAIN kept : \E j \in DOMAIN rest : kept[i] = rest[j]
    <2>1. CASE Len(rest) # CacheSize
      <3>1. Len(rest) \in Nat
        BY <1>1
      <3> QED BY <1>1, <2>1, <3>1, ConstantsAre
    <2>2. CASE Len(rest) = CacheSize
      <3>1. rest # <<>>
        BY <2>2, ConstantsAre
      <3>2. Tail(rest) \in Seq(CacheEntry) /\ Len(Tail(rest)) = Len(rest) - 1 /\ \A i \in 1 .. Len(Tail(rest)) : Tail(rest)[i] = rest[i + 1]
        BY <1>1, <3>1, HeadTailProperties
      <3>3. DOMAIN Tail(rest) = 1 .. Len(rest) - 1 /\ DOMAIN rest = 1 .. Len(rest) /\ Len(rest) \in Nat
        BY <1>1, <3>2
      <3>4. \A i \in 1 .. Len(rest) - 1 : i + 1 \in 1 .. Len(rest)
        BY <3>3
      <3> QED BY <2>2, <3>2, <3>3, <3>4, ConstantsAre
    <2> QED BY <2>1, <2>2
  <1> HIDE DEF kept
  <1>5. /\ after \in Seq(CacheEntry) /\ Len(after) = Len(kept) + 1 /\ Len(kept) \in Nat
        /\ (\A i \in 1 .. Len(kept) : after[i] = kept[i]) /\ after[Len(kept) + 1] = new
    BY <1>2, <1>3, <1>4, AppendProperties
  <1>6. DOMAIN after = 1 .. Len(kept) + 1 /\ DOMAIN kept = 1 .. Len(kept)
    BY <1>4, <1>5
  <1>7. ASSUME NEW i \in DOMAIN after PROVE after[i] = new \/ \E j \in DOMAIN cache : after[i] = cache[j]
    <2>1. CASE i = Len(kept) + 1
      BY <1>5, <2>1
    <2>2. CASE i # Len(kept) + 1
      <3>1. i \in DOMAIN kept /\ after[i] = kept[i]
        BY <1>5, <1>6, <2>2
      <3> QED BY <1>1, <1>4, <3>1
    <2> QED BY <2>1, <2>2
  <1>8. Len(kept) + 1 \in DOMAIN after
    BY <1>5, <1>6
  <1>9. Len(after) <= CacheSize
    BY <1>4, <1>5, ConstantsAre
  <1> QED BY <1>a, <1>b, <1>5, <1>7, <1>8, <1>9

-----------------------------------------------------------------------------
(* The contents after a step.                                              *)

\* Every list holds a member of S.
Heaps(S) == [Lists -> S]

\* A list that is still referred to has the new contents, any other one is empty.
LEMMA BecomeIs ==
  ASSUME NEW S, <<>> \in S, NEW contents \in Heaps(S), Become(contents)
  PROVE  /\ heap' \in Heaps(S)
         /\ \A l \in Lists : l \in Used' => heap'[l] = contents[l]
         /\ \A l \in Lists : heap'[l] = contents[l] \/ heap'[l] = <<>>
  BY DEF Become, Heaps

-----------------------------------------------------------------------------
(* The order of what was said.                                             *)

\* A message that was said, by a session that was opened.
Told(m) == m.by <= opened /\ m.at <= made
\* Lists of messages that were said.
Tellable == {h \in Contents : \A m \in Range(h) : Told(m)}
\* They are in the order in which they were said, and the running command is not
\* yet among them.
Orderly == {h \in Tellable : Chronological(h) /\ (shell # None => shell \notin Range(h))}

\* What is in memory, in the cache, in the files and in a save under way was
\* said, and every context is orderly.
OrderInv ==
    /\ heap \in Heaps(Orderly)
    /\ turn \in Orderly
    /\ \A i \in DOMAIN cache : cache[i].key \in Tellable
    /\ \A s \in Sessions : transcript[s] \in Tellable
    /\ \A s \in Sessions : disk[s] # None => disk[s].messages \in Tellable /\ disk[s].history \in Orderly
    /\ \A s \in Sessions : \A m \in inherited[s] : Told(m)
    /\ save # None => save.messages \in Tellable
    /\ shell # None => Told(shell)

\* The inductive invariant of InOrder.
HistoryInv == HistoryType /\ OrderInv

\* What a step may do to what was told.
Grows ==
    /\ opened' \in Sessions /\ opened <= opened'
    /\ made' \in 0 .. MaxMessages /\ made <= made'
    /\ shell' = shell \/ shell' = None \/ (shell' \in Message /\ shell'.at = made + 1)

\* The empty list is anything, before and after a step.
LEMMA EmptyOrderly == <<>> \in Contents /\ <<>> \in Tellable /\ <<>> \in Orderly /\ <<>> \in Tellable' /\ <<>> \in Orderly'
  BY EmptyIs, EmptyChronological DEF Tellable, Orderly

\* The messages of a list.
LEMMA RangeIs == ASSUME NEW h \in Contents PROVE Range(h) \subseteq Message /\ Range(h) = {h[i] : i \in DOMAIN h}
  <1>1. \A i \in DOMAIN h : h[i] \in Message
    BY DEF Contents
  <1> QED BY <1>1 DEF Range

\* What was said stays said, and what was orderly stays so.
LEMMA GrowIs ==
  ASSUME HistoryType, Grows
  PROVE  Tellable \subseteq Tellable' /\ Orderly \subseteq Orderly' /\ \A m \in Message : Told(m) => Told(m)'
  <1>0. opened \in Nat /\ opened' \in Nat /\ made \in Nat /\ made' \in Nat
    BY ConstantsAre DEF HistoryType, SessionsTyped, Grows
  <1>1. ASSUME NEW m \in Message, Told(m) PROVE Told(m)'
    <2>1. m.by \in Nat /\ m.at \in Nat
      BY ConstantsAre DEF Message
    <2> QED BY <1>0, <1>1, <2>1 DEF Told, Grows
  <1>2. Tellable \subseteq Tellable'
    BY <1>1, RangeIs DEF Tellable
  <1>3. ASSUME NEW h \in Orderly, shell' # None PROVE shell' \notin Range(h)
    <2>1. CASE shell' = shell
      BY <1>3, <2>1 DEF Orderly
    <2>2. CASE shell' # shell
      <3>1. shell'.at = made + 1
        BY <1>3, <2>2 DEF Grows
      <3>2. \A m \in Range(h) : m.at <= made
        BY DEF Orderly, Tellable, Told
      <3> QED BY <1>0, <3>1, <3>2
    <2> QED BY <2>1, <2>2
  <1>4. Orderly \subseteq Orderly'
    BY <1>2, <1>3 DEF Orderly
  <1> QED BY <1>1, <1>2, <1>4

\* A message more.
LEMMA AppendTellable ==
  ASSUME NEW h \in Tellable, NEW m \in Message, Told(m)
  PROVE  Append(h, m) \in Tellable
  <1>0. h \in Contents
    BY DEF Tellable
  <1>1. Append(h, m) \in Contents /\ Range(Append(h, m)) = Range(h) \cup {m}
    BY <1>0, AppendedIs
  <1> QED BY <1>1 DEF Tellable

\* The same of a message that the step says.
LEMMA AppendTellableNext ==
  ASSUME NEW h \in Tellable', NEW m \in Message, Told(m)'
  PROVE  Append(h, m) \in Tellable'
  <1>0. h \in Contents
    BY DEF Tellable
  <1>1. Append(h, m) \in Contents /\ Range(Append(h, m)) = Range(h) \cup {m}
    BY <1>0, AppendedIs
  <1> QED BY <1>1 DEF Tellable

\* A new message at the end.
LEMMA SayOrderly ==
  ASSUME HistoryType, OrderInv, Grows, made' = made + 1, shell' = shell, NEW h \in Orderly,
         NEW s \in 1 .. opened', NEW kind \in {"user", "shell", "note"}, NEW m, m = Says(s, kind)
  PROVE  m \in Message /\ Told(m)' /\ Append(h, m) \in Orderly'
  <1>0. made \in Nat /\ made + 1 <= MaxMessages /\ opened' \in 1 .. MaxSessions /\ MaxMessages \in Nat /\ MaxSessions \in Nat
    BY ConstantsAre DEF HistoryType, SessionsTyped, Grows
  <1>1. m \in Message /\ m.by = s /\ m.at = made + 1
    BY <1>0, ConstantsAre DEF Says, Message
  <1>2. Told(m)'
    BY <1>0, <1>1 DEF Told
  <1>3. h \in Contents /\ h \in Tellable' /\ h \in Orderly' /\ \A x \in Range(h) : x.at <= made /\ x.at \in Nat
    <2>1. h \in Contents /\ \A x \in Range(h) : x.at <= made
      BY DEF Orderly, Tellable, Told
    <2>2. \A x \in Range(h) : x.at \in Nat
      BY <2>1, RangeIs, ConstantsAre DEF Message
    <2>3. h \in Orderly'
      BY GrowIs
    <2> QED BY <2>1, <2>2, <2>3 DEF Orderly
  <1>4. Append(h, m) \in Tellable'
    BY <1>1, <1>2, <1>3, AppendTellableNext
  <1>5. Chronological(Append(h, m))
    <2>1. \A i \in DOMAIN h : h[i] \in Range(h)
      BY DEF Range
    <2>2. \A i \in DOMAIN h : h[i] # m /\ h[i].at < m.at
      BY <1>0, <1>1, <1>3, <2>1
    <2>3. Chronological(h)
      BY DEF Orderly
    <2> QED BY <1>1, <1>3, <2>2, <2>3, ChronologicalNext
  <1>6. shell' # None => shell' \notin Range(Append(h, m))
    <2>1. Range(Append(h, m)) = Range(h) \cup {m}
      BY <1>1, <1>3, AppendedIs
    <2>2. shell # None => shell.at <= made
      BY DEF OrderInv, Told
    <2>3. shell # None => shell # m
      BY <1>0, <1>1, <2>2
    <2> QED BY <2>1, <2>3 DEF Orderly
  <1>7. Append(h, m) \in Orderly'
    BY <1>4, <1>5, <1>6 DEF Orderly
  <1> QED BY <1>1, <1>2, <1>7

\* The beginning of a list.
LEMMA PrefixIs ==
  ASSUME NEW s \in Contents, NEW n \in Int, n <= Len(s)
  PROVE  SubSeq(s, 1, n) \in Contents /\ Range(SubSeq(s, 1, n)) \subseteq Range(s)
  <1> DEFINE p == SubSeq(s, 1, n)
  <1>0. Len(s) \in Nat /\ DOMAIN s = 1 .. Len(s)
    BY DEF Contents
  <1>1. CASE n <= 0
    <2>1. p = <<>>
      BY <1>1, SubSeqEmpty DEF Contents
    <2> QED BY <2>1, EmptyIs
  <1>2. CASE n > 0
    <2>1. n \in Nat
      BY <1>2
    <2>2. p \in Contents /\ Len(p) = n /\ \A i \in 1 .. n : p[i] = s[i]
      BY <2>1, PrefixNext
    <2>3. DOMAIN p = 1 .. n
      BY <2>2 DEF Contents
    <2> HIDE DEF p
    <2>4. \A i \in DOMAIN p : i \in DOMAIN s /\ p[i] = s[i]
      BY <1>0, <2>2, <2>3
    <2>5. Range(p) \subseteq Range(s)
      BY <2>4 DEF Range
    <2> QED BY <2>2, <2>5 DEF p
  <1> QED BY <1>1, <1>2

\* The beginning of what was said was said.
LEMMA PrefixTellable ==
  ASSUME NEW s \in Tellable, NEW n \in Int, n <= Len(s)
  PROVE  SubSeq(s, 1, n) \in Tellable
  BY PrefixIs DEF Tellable

\* The beginning of an orderly list is orderly.
LEMMA PrefixOrderly ==
  ASSUME NEW s \in Orderly, NEW n \in Int, n <= Len(s)
  PROVE  SubSeq(s, 1, n) \in Orderly
  <1>1. s \in Contents /\ s \in Tellable /\ Chronological(s)
    BY DEF Orderly, Tellable
  <1>2. SubSeq(s, 1, n) \in Tellable /\ Chronological(SubSeq(s, 1, n)) /\ Range(SubSeq(s, 1, n)) \subseteq Range(s)
    BY <1>1, PrefixTellable, PrefixChronological
  <1> QED BY <1>2 DEF Orderly

\* The position of a visible message.
LEMMA PositionIn ==
  ASSUME NEW s \in Contents, NEW n
  PROVE  Position(s, n) \in 0 .. Len(s)
  <1> DEFINE found == {i \in DOMAIN s : Visible(s[i]) /\ Len(VisibleIn(SubSeq(s, 1, i))) = n + 1}
  <1>1. DOMAIN s = 1 .. Len(s) /\ Len(s) \in Nat
    BY DEF Contents
  <1>2. Position(s, n) = IF found = {} THEN 0 ELSE CHOOSE i \in found : TRUE
    BY DEF Position
  <1>3. found # {} => (CHOOSE i \in found : TRUE) \in found
    OBVIOUS
  <1> QED BY <1>1, <1>2, <1>3

\* A fork keeps some of the transcript and of the stored context of the current
\* session.
LEMMA KeptIs ==
  ASSUME HistoryInv
  PROVE  /\ KeptTranscript \in Tellable /\ Range(KeptTranscript) \subseteq Range(transcript[current])
         /\ pending = None => KeptTranscript = transcript[current]
         /\ pending # None => KeptHistory \in Orderly /\ Range(KeptHistory) \subseteq Range(heap[stored[current]])
  <1>0. current \in Sessions /\ transcript[current] \in Tellable /\ transcript[current] \in Contents /\ stored[current] \in Lists /\ heap[stored[current]] \in Orderly
    <2>1. current \in Sessions
      BY ConstantsAre DEF HistoryInv, HistoryType, SessionsTyped
    <2> QED BY <2>1 DEF HistoryInv, HistoryType, ListsTyped, OpenedOnly, OrderInv, Tellable, Heaps
  <1>1. /\ KeptTranscript \in Tellable /\ Range(KeptTranscript) \subseteq Range(transcript[current])
        /\ pending = None => KeptTranscript = transcript[current]
    <2>1. CASE pending \notin 0 .. Len(transcript[current])
      BY <1>0, <2>1 DEF KeptTranscript
    <2>2. CASE pending \in 0 .. Len(transcript[current])
      <3>1. Len(transcript[current]) \in Nat
        BY <1>0 DEF Contents
      <3>2. pending # None /\ pending \in Int /\ pending <= Len(transcript[current])
        BY <2>2, <3>1, ConstantsAre
      <3>3. KeptTranscript = SubSeq(transcript[current], 1, pending)
        BY <2>2 DEF KeptTranscript
      <3> QED BY <1>0, <3>2, <3>3, PrefixTellable, PrefixIs
    <2> QED BY <2>1, <2>2
  <1>2. ASSUME pending # None
        PROVE  KeptHistory \in Orderly /\ Range(KeptHistory) \subseteq Range(heap[stored[current]])
    <2> DEFINE whole == heap[stored[current]]
               cut == Position(whole, pending)
    <2>1. whole \in Contents /\ whole \in Orderly
      BY <1>0 DEF Orderly, Tellable
    <2>2. cut \in 0 .. Len(whole) /\ Len(whole) \in Nat
      BY <2>1, PositionIn DEF Contents
    <2>3. KeptHistory = CASE pending = 0 -> <<>> [] pending # 0 /\ cut = 0 -> whole [] OTHER -> SubSeq(whole, 1, cut - 1)
      BY DEF KeptHistory
    <2> HIDE DEF whole, cut
    <2>4. cut - 1 \in Int /\ cut - 1 <= Len(whole)
      BY <2>2
    <2>5. SubSeq(whole, 1, cut - 1) \in Orderly /\ Range(SubSeq(whole, 1, cut - 1)) \subseteq Range(whole)
      BY <2>1, <2>4, PrefixOrderly, PrefixIs
    <2>6. KeptHistory \in {<<>>, whole, SubSeq(whole, 1, cut - 1)}
      BY <2>3
    <2> QED BY <2>1, <2>5, <2>6, EmptyOrderly, EmptyIs DEF whole
  <1> QED BY <1>1, <1>2

-----------------------------------------------------------------------------
(* What a step leaves alone.                                               *)

\* The types of what an action leaves alone.
LEMMA TypedNow ==
  ASSUME HistoryInv
  PROVE  /\ current \in Sessions /\ opened \in Nat /\ current \in Nat /\ made \in Nat /\ current <= opened /\ opened <= MaxSessions
         /\ heap[history] \in Orderly /\ stored[current] \in Lists /\ heap[stored[current]] \in Orderly
         /\ transcript[current] \in Tellable /\ heap \in Heaps(Orderly) /\ heap \in [Lists -> Contents]
         /\ Orderly \subseteq Tellable /\ Tellable \subseteq Contents
  <1>1. current \in Sessions /\ opened \in Nat /\ current \in Nat /\ made \in Nat /\ current <= opened /\ opened <= MaxSessions
    BY ConstantsAre DEF HistoryInv, HistoryType, SessionsTyped
  <1>2. stored[current] \in Lists
    BY <1>1 DEF HistoryInv, HistoryType, ListsTyped, OpenedOnly
  <1>3. Orderly \subseteq Tellable /\ Tellable \subseteq Contents
    BY DEF Orderly, Tellable
  <1>4. heap \in Heaps(Orderly) /\ history \in Lists /\ transcript[current] \in Tellable
    BY <1>1 DEF HistoryInv, HistoryType, ListsTyped, OrderInv
  <1> QED BY <1>1, <1>2, <1>3, <1>4 DEF Heaps

\* What the cache returns is orderly.
LEMMA CachedOrderly ==
  ASSUME HistoryInv, NEW h \in Orderly
  PROVE  CachedContents(h) \in Orderly /\ CachedList(h) \in Lists
  <1>1. h \in Contents
    BY DEF Orderly, Tellable
  <1> QED BY <1>1, CachedIs, TypedNow DEF HistoryInv, Heaps

\* The keys of the cache are lists that were said.
LEMMA CacheTellable ==
  ASSUME HistoryInv, NEW h \in Tellable, NEW after, after = CacheAfter(h)
  PROVE  after \in Seq(CacheEntry) /\ Len(after) <= CacheSize /\ \A i \in DOMAIN after : after[i].key \in Tellable
  <1>1. h \in Contents
    BY DEF Tellable
  <1>2. /\ after \in Seq(CacheEntry) /\ Len(after) <= CacheSize
        /\ \A i \in DOMAIN after : \/ Entry(h) = 0 /\ after[i] = [key |-> h, list |-> CachedList(h)]
                                   \/ \E j \in DOMAIN cache : after[i] = cache[j]
    BY <1>1, CacheAfterIs DEF HistoryInv
  <1>3. \A j \in DOMAIN cache : cache[j].key \in Tellable
    BY DEF HistoryInv, OrderInv
  <1> QED BY <1>2, <1>3

\* The contents a step leaves are in order when the ones it makes are.
LEMMA HeapOrderly ==
  ASSUME NEW S, S = Orderly', NEW contents \in Heaps(S), Become(contents)
  PROVE  heap' \in Heaps(Orderly') /\ heap' \in [Lists -> Contents]
  <1>1. <<>> \in S
    BY EmptyOrderly
  <1>2. heap' \in Heaps(S)
    BY <1>1, BecomeIs
  <1>3. S \subseteq Contents
    BY DEF Orderly, Tellable
  <1> QED BY <1>2, <1>3 DEF Heaps

\* The part of the invariant that concerns what an action says nothing about.
LEMMA SameFiles ==
  ASSUME HistoryInv, Grows, UNCHANGED <<transcript, disk, inherited>>
  PROVE  /\ \A s \in Sessions : transcript'[s] \in Tellable'
         /\ \A s \in Sessions : disk'[s] # None => disk'[s].messages \in Tellable' /\ disk'[s].history \in Orderly'
         /\ \A s \in Sessions : \A m \in inherited'[s] : Told(m)'
         /\ transcript' \in [Sessions -> Contents] /\ disk' \in [Sessions -> File \cup {None}]
         /\ inherited' \in [Sessions -> SUBSET Message]
  <1>1. Tellable \subseteq Tellable' /\ Orderly \subseteq Orderly' /\ \A m \in Message : Told(m) => Told(m)'
    BY GrowIs DEF HistoryInv
  <1>2. \A s \in Sessions : transcript[s] \in Tellable
    BY DEF HistoryInv, OrderInv
  <1>3. \A s \in Sessions : disk[s] # None => disk[s].messages \in Tellable /\ disk[s].history \in Orderly
    BY DEF HistoryInv, OrderInv
  <1>4. \A s \in Sessions : \A m \in inherited[s] : Told(m) /\ m \in Message
    BY DEF HistoryInv, OrderInv, HistoryType, SessionsTyped
  <1>5. transcript' \in [Sessions -> Contents] /\ disk' \in [Sessions -> File \cup {None}] /\ inherited' \in [Sessions -> SUBSET Message]
    BY DEF HistoryInv, HistoryType, SessionsTyped
  <1>6. transcript' = transcript /\ disk' = disk /\ inherited' = inherited
    OBVIOUS
  <1> QED BY <1>1, <1>2, <1>3, <1>4, <1>5, <1>6

\* A save under way that a step leaves alone.
LEMMA SameSave ==
  ASSUME HistoryInv, Grows, save' = save
  PROVE  /\ save' \in SaveData \cup {None}
         /\ save' # None => save'.messages \in Tellable' /\ save'.id <= opened'
  <1>1. Tellable \subseteq Tellable'
    BY GrowIs DEF HistoryInv
  <1>2. opened \in Nat /\ opened' \in Nat /\ opened <= opened'
    BY TypedNow, ConstantsAre DEF Grows
  <1>3. save \in SaveData \cup {None} /\ (save # None => save.messages \in Tellable /\ save.id <= opened)
    BY DEF HistoryInv, HistoryType, ListsTyped, OpenedOnly, OrderInv
  <1>4. save # None => save.id \in Nat
    BY <1>3, ConstantsAre DEF SaveData
  <1> QED BY <1>1, <1>2, <1>3, <1>4

\* A running command that a step leaves alone.
LEMMA SameShell ==
  ASSUME HistoryInv, Grows, shell' = shell
  PROVE  /\ shell' \in Message \cup {None} /\ (shell' # None => shell'.kind = "shell")
         /\ shell' # None => Told(shell)'
  <1>1. \A m \in Message : Told(m) => Told(m)'
    BY GrowIs DEF HistoryInv
  <1>2. shell \in Message \cup {None} /\ (shell # None => shell.kind = "shell" /\ Told(shell))
    BY DEF HistoryInv, HistoryType, SessionsTyped, OrderInv
  <1> PICK m : m = shell
    OBVIOUS
  <1>3. shell # None => Told(m)'
    BY <1>1, <1>2 DEF Told
  <1>4. shell' # None => shell'.by <= opened' /\ shell'.at <= made'
    BY <1>3 DEF Told
  <1> QED BY <1>2, <1>4 DEF Told

\* A cache that a step leaves alone.
LEMMA SameCache ==
  ASSUME HistoryInv, Grows, cache' = cache
  PROVE  cache' \in Seq(CacheEntry) /\ Len(cache') <= CacheSize /\ \A i \in DOMAIN cache' : cache'[i].key \in Tellable'
  <1>1. Tellable \subseteq Tellable'
    BY GrowIs DEF HistoryInv
  <1>2. \A i \in DOMAIN cache : cache[i].key \in Tellable
    BY DEF HistoryInv, OrderInv
  <1> QED BY <1>1, <1>2 DEF HistoryInv, HistoryType, ListsTyped

\* Sessions, opened or not, when no session is made and none is left blank.
LEMMA SameSessions ==
  ASSUME HistoryInv, UNCHANGED <<stored, transcript, disk, current, opened, inherited, pending>>
  PROVE  /\ stored' \in [Sessions -> Lists \cup {None}]
         /\ opened' \in Sessions /\ current' \in 1 .. opened'
         /\ pending' \in 0 .. Everything \cup {None}
         /\ stored'[current'] # None /\ \A s \in Sessions : s > opened' => Blank(s)'
         /\ pending' # None => opened' < MaxSessions
  BY DEF HistoryInv, HistoryType, ListsTyped, SessionsTyped, OpenedOnly, Blank

-----------------------------------------------------------------------------
(* Turns, commands and saves.                                              *)

\* The end of a turn keeps HistoryInv.
LEMMA TurnEndsTyped ==
  ASSUME HistoryInv, TurnEnds
  PROVE  HistoryInv'
  <1>1. Grows /\ UNCHANGED <<transcript, disk, inherited, stored, current, opened, pending, made>> /\ save' = save /\ shell' = shell
    BY ConstantsAre DEF TurnEnds, Grows, HistoryInv, HistoryType, SessionsTyped, forkVars
  <1>2. turn \in Orderly /\ turn \in Tellable
    BY DEF HistoryInv, OrderInv, Orderly
  <1>3. Tellable \subseteq Tellable' /\ Orderly \subseteq Orderly'
    BY <1>1, GrowIs DEF HistoryInv
  <1>4. cache' \in Seq(CacheEntry) /\ Len(cache') <= CacheSize /\ \A i \in DOMAIN cache' : cache'[i].key \in Tellable'
    <2>1. cache' = CacheAfter(turn)
      BY DEF TurnEnds
    <2> PICK after : after = cache'
      OBVIOUS
    <2>2. after \in Seq(CacheEntry) /\ Len(after) <= CacheSize /\ \A i \in DOMAIN after : after[i].key \in Tellable
      BY <1>2, <2>1, CacheTellable
    <2> QED BY <1>3, <2>2
  <1>5. history' \in Lists /\ CachedContents(turn) \in Orderly'
    BY <1>2, <1>3, CachedOrderly DEF TurnEnds
  <1>6. heap' \in Heaps(Orderly') /\ heap' \in [Lists -> Contents]
    <2> PICK S : S = Orderly'
      OBVIOUS
    <2> DEFINE contents == [heap EXCEPT ![history'] = CachedContents(turn)]
    <2>1. heap \in Heaps(S)
      BY <1>3, TypedNow DEF Heaps
    <2>2. contents \in Heaps(S)
      BY <1>5, <2>1 DEF Heaps
    <2>3. Become(contents)
      BY DEF TurnEnds
    <2> HIDE DEF contents
    <2> QED BY <2>2, <2>3, HeapOrderly
  <1>7. turn' \in Contents /\ turn' \in Orderly'
    BY EmptyOrderly DEF TurnEnds
  <1>8. HistoryType'
    <2>1. ListsTyped'
      BY <1>1, <1>4, <1>5, <1>6, <1>7, SameSessions, SameSave DEF ListsTyped
    <2>2. SessionsTyped'
      BY <1>1, SameFiles, SameSessions, SameShell DEF SessionsTyped, HistoryInv, HistoryType
    <2>3. OpenedOnly'
      BY <1>1, SameSessions, SameSave DEF OpenedOnly
    <2> QED BY <2>1, <2>2, <2>3 DEF HistoryType
  <1>9. OrderInv'
    BY <1>1, <1>4, <1>6, <1>7, SameFiles, SameSave, SameShell DEF OrderInv
  <1> QED BY <1>8, <1>9 DEF HistoryInv

\* So does a stopped turn, which adds its note.
LEMMA TurnStopsTyped ==
  ASSUME HistoryInv, TurnStops
  PROVE  HistoryInv'
  <1>1. /\ Grows /\ UNCHANGED <<transcript, disk, inherited, stored, current, opened, pending>>
        /\ save' = save /\ shell' = shell /\ made' = made + 1 /\ made' \in 0 .. MaxMessages
    BY ConstantsAre DEF TurnStops, Grows, HistoryInv, HistoryType, SessionsTyped, forkVars
  <1>2. turn \in Orderly /\ turn \in Tellable
    BY DEF HistoryInv, OrderInv, Orderly
  <1>3. Tellable \subseteq Tellable' /\ Orderly \subseteq Orderly'
    BY <1>1, GrowIs DEF HistoryInv
  <1>4. cache' \in Seq(CacheEntry) /\ Len(cache') <= CacheSize /\ \A i \in DOMAIN cache' : cache'[i].key \in Tellable'
    <2>1. cache' = CacheAfter(turn)
      BY DEF TurnStops
    <2> PICK after : after = cache'
      OBVIOUS
    <2>2. after \in Seq(CacheEntry) /\ Len(after) <= CacheSize /\ \A i \in DOMAIN after : after[i].key \in Tellable
      BY <1>2, <2>1, CacheTellable
    <2> QED BY <1>3, <2>2
  <1> PICK m : m = Says(current, "note")
    OBVIOUS
  <1>5. history' \in Lists /\ Append(CachedContents(turn), m) \in Orderly'
    <2>1. CachedContents(turn) \in Orderly /\ CachedList(turn) \in Lists
      BY <1>2, CachedOrderly
    <2>2. current \in 1 .. opened'
      BY <1>1 DEF HistoryInv, HistoryType, SessionsTyped
    <2>3. Append(CachedContents(turn), m) \in Orderly'
      BY <1>1, <2>1, <2>2, SayOrderly DEF HistoryInv
    <2> QED BY <2>1, <2>3 DEF TurnStops
  <1>6. heap' \in Heaps(Orderly') /\ heap' \in [Lists -> Contents]
    <2> PICK S : S = Orderly'
      OBVIOUS
    <2> DEFINE contents == [heap EXCEPT ![history'] = Append(CachedContents(turn), m)]
    <2>1. heap \in Heaps(S)
      BY <1>3, TypedNow DEF Heaps
    <2>2. contents \in Heaps(S)
      BY <1>5, <2>1 DEF Heaps
    <2>3. Become(contents)
      BY DEF TurnStops
    <2> HIDE DEF contents
    <2> QED BY <2>2, <2>3, HeapOrderly
  <1>7. turn' \in Contents /\ turn' \in Orderly'
    BY EmptyOrderly DEF TurnStops
  <1>8. HistoryType'
    <2>1. ListsTyped'
      BY <1>1, <1>4, <1>5, <1>6, <1>7, SameSessions, SameSave DEF ListsTyped
    <2>2. SessionsTyped'
      BY <1>1, SameFiles, SameSessions, SameShell DEF SessionsTyped
    <2>3. OpenedOnly'
      BY <1>1, SameSessions, SameSave DEF OpenedOnly
    <2> QED BY <2>1, <2>2, <2>3 DEF HistoryType
  <1>9. OrderInv'
    BY <1>1, <1>4, <1>6, <1>7, SameFiles, SameSave, SameShell DEF OrderInv
  <1> QED BY <1>8, <1>9 DEF HistoryInv

\* The turn is left alone.
LEMMA SameTurn ==
  ASSUME HistoryInv, Grows, turn' = turn
  PROVE  turn' \in Contents /\ turn' \in Orderly'
  <1>1. Orderly \subseteq Orderly'
    BY GrowIs DEF HistoryInv
  <1> QED BY <1>1 DEF HistoryInv, OrderInv, HistoryType, ListsTyped

\* The end of a "!" command appends its message to the context's list.
LEMMA ShellEndsTyped ==
  ASSUME HistoryInv, ShellEnds
  PROVE  HistoryInv'
  <1>1. /\ Grows /\ UNCHANGED <<transcript, disk, inherited, stored, current, opened, pending>>
        /\ save' = save /\ shell' = None /\ cache' = cache /\ turn' = turn /\ history' = history /\ made' = made
    BY ConstantsAre DEF ShellEnds, Grows, HistoryInv, HistoryType, SessionsTyped, forkVars
  <1>3. Tellable \subseteq Tellable' /\ Orderly \subseteq Orderly'
    BY <1>1, GrowIs DEF HistoryInv
  <1>4. shell \in Message /\ shell.kind = "shell" /\ shell.by <= opened /\ shell.at <= made
    BY DEF ShellEnds, HistoryInv, HistoryType, SessionsTyped, OrderInv, Told
  <1> DEFINE h == heap[history]
             m == shell
  <1>5. Append(h, m) \in Orderly'
    <2>1. h \in Orderly /\ h \in Tellable /\ h \in Contents
      BY TypedNow
    <2>2. shell \notin Range(h) /\ Chronological(h)
      BY <2>1 DEF Orderly, ShellEnds
    <2>3. Append(h, m) \in Tellable
      BY <1>4, <2>1, AppendTellable DEF Told
    <2>4. Chronological(Append(h, m))
      <3>1. \A i \in DOMAIN h : h[i] # m
        BY <2>2 DEF Range
      <3> QED BY <1>4, <2>1, <2>2, <3>1, ChronologicalNext
    <2> QED BY <1>1, <1>3, <2>3, <2>4 DEF Orderly
  <1>6. heap' \in Heaps(Orderly') /\ heap' \in [Lists -> Contents]
    <2> PICK S : S = Orderly'
      OBVIOUS
    <2> DEFINE contents == [heap EXCEPT ![history] = Append(@, shell)]
    <2>1. heap \in Heaps(S)
      BY <1>3, TypedNow DEF Heaps
    <2>2. contents \in Heaps(S)
      BY <1>5, <2>1 DEF Heaps
    <2>3. Become(contents)
      BY DEF ShellEnds
    <2> HIDE DEF contents
    <2> QED BY <2>2, <2>3, HeapOrderly
  <1>8. HistoryType'
    <2>1. ListsTyped'
      <3>1. history' \in Lists
        BY <1>1 DEF HistoryInv, HistoryType, ListsTyped
      <3> QED BY <1>1, <1>6, <3>1, SameTurn, SameCache, SameSessions, SameSave DEF ListsTyped
    <2>2. SessionsTyped'
      BY <1>1, SameFiles, SameSessions DEF SessionsTyped, Grows
    <2>3. OpenedOnly'
      BY <1>1, SameSessions, SameSave DEF OpenedOnly
    <2> QED BY <2>1, <2>2, <2>3 DEF HistoryType
  <1>9. OrderInv'
    BY <1>1, <1>6, SameTurn, SameCache, SameFiles, SameSave DEF OrderInv
  <1> QED BY <1>8, <1>9 DEF HistoryInv

\* The heap is left alone.
LEMMA SameHeap ==
  ASSUME HistoryInv, Grows, Become(heap) \/ heap' = heap
  PROVE  heap' \in Heaps(Orderly') /\ heap' \in [Lists -> Contents]
  <1>3. Orderly \subseteq Orderly'
    BY GrowIs DEF HistoryInv
  <1> PICK S : S = Orderly'
    OBVIOUS
  <1>1. heap \in Heaps(S) /\ heap \in [Lists -> Contents]
    BY <1>3, TypedNow DEF Heaps
  <1> QED BY <1>1, HeapOrderly

\* The first part of a save copies what was said.
LEMMA SaveCollectsTyped ==
  ASSUME HistoryInv, SaveCollects
  PROVE  HistoryInv'
  <1>1. /\ Grows /\ UNCHANGED <<transcript, disk, inherited, stored, current, opened, pending>>
        /\ shell' = shell /\ cache' = cache /\ turn' = turn /\ history' = history /\ made' = made /\ heap' = heap
    BY ConstantsAre DEF SaveCollects, Grows, HistoryInv, HistoryType, SessionsTyped, forkVars
  <1>3. Tellable \subseteq Tellable'
    BY <1>1, GrowIs DEF HistoryInv
  <1>4. history' \in Lists
    BY <1>1 DEF HistoryInv, HistoryType, ListsTyped
  <1>5. save' \in SaveData /\ save'.messages \in Tellable' /\ save'.id <= opened'
    <2>1. save' = [id |-> current, messages |-> transcript[current], history |-> history]
      BY DEF SaveCollects
    <2>2. current \in Sessions /\ transcript[current] \in Tellable /\ transcript[current] \in Contents /\ history \in Lists /\ current <= opened
      BY TypedNow DEF HistoryInv, HistoryType, ListsTyped
    <2> QED BY <1>1, <1>3, <2>1, <2>2 DEF SaveData
  <1>8. HistoryType'
    <2>1. ListsTyped'
      BY <1>1, <1>4, <1>5, SameHeap, SameTurn, SameCache, SameSessions DEF ListsTyped
    <2>2. SessionsTyped'
      BY <1>1, SameFiles, SameSessions, SameShell DEF SessionsTyped, Grows
    <2>3. OpenedOnly'
      BY <1>1, <1>5, SameSessions DEF OpenedOnly
    <2> QED BY <2>1, <2>2, <2>3 DEF HistoryType
  <1>9. OrderInv'
    BY <1>1, <1>5, SameHeap, SameTurn, SameCache, SameFiles, SameShell DEF OrderInv
  <1> QED BY <1>8, <1>9 DEF HistoryInv

\* The list a session has in the store after a save: the one it had, or the one saved.
LEMMA ReplacingIs ==
  ASSUME HistoryInv, NEW list \in Lists
  PROVE  Replacing(list) \in Lists /\ Replacing(list) \in {list, stored[current]}
  BY TypedNow DEF Replacing

\* What is written is told, and in order.
LEMMA WritesTyped ==
  ASSUME HistoryInv, Grows, NEW messages \in Tellable, NEW list \in Lists, Writes(messages, list)
  PROVE  /\ disk' \in [Sessions -> File \cup {None}]
         /\ \A s \in Sessions : disk'[s] # None => disk'[s].messages \in Tellable' /\ disk'[s].history \in Orderly'
         /\ \A s \in Sessions : s # current => disk'[s] = disk[s]
  <1>1. Tellable \subseteq Tellable' /\ Orderly \subseteq Orderly'
    BY GrowIs DEF HistoryInv
  <1>2. disk \in [Sessions -> File \cup {None}]
    BY DEF HistoryInv, HistoryType, SessionsTyped
  <1>3. \A s \in Sessions : disk[s] # None => disk[s].messages \in Tellable /\ disk[s].history \in Orderly
    BY DEF HistoryInv, OrderInv
  <1> DEFINE file == [messages |-> messages, history |-> heap[Replacing(list)]]
  <1>4. heap[Replacing(list)] \in Orderly /\ heap[Replacing(list)] \in Contents /\ messages \in Contents
    BY TypedNow, ReplacingIs DEF Heaps
  <1>5. file \in File /\ file.messages = messages /\ file.history = heap[Replacing(list)]
    BY <1>4 DEF File
  <1>6. disk' = [disk EXCEPT ![current] = file] \/ disk' = disk
    BY DEF Writes
  <1> HIDE DEF file
  <1>7. CASE disk' = disk
    BY <1>1, <1>2, <1>3, <1>7
  <1>8. CASE disk' = [disk EXCEPT ![current] = file]
    BY <1>1, <1>2, <1>3, <1>4, <1>5, <1>8
  <1> QED BY <1>6, <1>7, <1>8

\* Its last part writes it, to the session that is current by then.
LEMMA SaveWritesTyped ==
  ASSUME HistoryInv, SaveWrites
  PROVE  HistoryInv'
  <1>1. /\ Grows /\ UNCHANGED <<inherited, current, opened, pending>>
        /\ shell' = shell /\ cache' = cache /\ turn' = turn /\ history' = history /\ made' = made /\ save' = None
    BY ConstantsAre DEF SaveWrites, Grows, HistoryInv, HistoryType, SessionsTyped, forkVars
  <1>2. save.messages \in Tellable /\ save.history \in Lists
    BY DEF SaveWrites, HistoryInv, HistoryType, ListsTyped, OrderInv, SaveData
  <1>3. Tellable \subseteq Tellable' /\ \A m \in Message : Told(m) => Told(m)'
    BY <1>1, GrowIs DEF HistoryInv
  <1>4. /\ disk' \in [Sessions -> File \cup {None}]
        /\ \A s \in Sessions : disk'[s] # None => disk'[s].messages \in Tellable' /\ disk'[s].history \in Orderly'
        /\ \A s \in Sessions : s # current => disk'[s] = disk[s]
    BY <1>1, <1>2, WritesTyped DEF SaveWrites
  <1>5. /\ transcript' \in [Sessions -> Contents] /\ \A s \in Sessions : transcript'[s] \in Tellable'
        /\ \A s \in Sessions : s # current => transcript'[s] = transcript[s]
    <2>1. transcript' = [transcript EXCEPT ![current] = save.messages]
      BY DEF SaveWrites
    <2>2. transcript \in [Sessions -> Contents] /\ \A s \in Sessions : transcript[s] \in Tellable
      BY DEF HistoryInv, HistoryType, SessionsTyped, OrderInv
    <2> QED BY <1>2, <1>3, <2>1, <2>2 DEF Tellable
  <1>6. /\ stored' \in [Sessions -> Lists \cup {None}] /\ stored'[current] # None
        /\ \A s \in Sessions : s # current => stored'[s] = stored[s]
    <2>1. stored' = [stored EXCEPT ![current] = Replacing(save.history)] /\ Replacing(save.history) \in Lists
      BY <1>2, ReplacingIs DEF SaveWrites
    <2>2. stored \in [Sessions -> Lists \cup {None}] /\ stored[current] # None /\ current \in Sessions
      BY TypedNow DEF HistoryInv, HistoryType, ListsTyped, OpenedOnly
    <2> QED BY <1>2, <2>1, <2>2, ConstantsAre
  <1>7. heap' \in Heaps(Orderly') /\ heap' \in [Lists -> Contents]
    BY <1>1, SameHeap DEF SaveWrites
  <1>8. HistoryType'
    <2>1. ListsTyped'
      <3>1. history' \in Lists
        BY <1>1 DEF HistoryInv, HistoryType, ListsTyped
      <3> QED BY <1>1, <1>6, <1>7, <3>1, SameTurn, SameCache DEF ListsTyped
    <2>2. SessionsTyped'
      <3>1. opened' \in Sessions /\ current' \in 1 .. opened' /\ pending' \in 0 .. Everything \cup {None} /\ inherited' \in [Sessions -> SUBSET Message]
        BY <1>1 DEF HistoryInv, HistoryType, SessionsTyped
      <3> QED BY <1>1, <1>4, <1>5, <3>1, SameShell DEF SessionsTyped, Grows
    <2>3. OpenedOnly'
      <3>1. \A s \in Sessions : s > opened => s # current
        BY TypedNow, ConstantsAre
      <3>2. \A s \in Sessions : s > opened' => Blank(s)'
        BY <1>1, <1>4, <1>5, <1>6, <3>1 DEF HistoryInv, HistoryType, OpenedOnly, Blank
      <3>3. pending' # None => opened' < MaxSessions
        BY <1>1 DEF HistoryInv, HistoryType, OpenedOnly
      <3> QED BY <1>1, <1>6, <3>2, <3>3 DEF OpenedOnly
    <2> QED BY <2>1, <2>2, <2>3 DEF HistoryType
  <1>9. OrderInv'
    <2>1. \A s \in Sessions : \A m \in inherited'[s] : Told(m)'
      <3>1. \A s \in Sessions : \A m \in inherited[s] : Told(m) /\ m \in Message
        BY DEF HistoryInv, OrderInv, HistoryType, SessionsTyped
      <3> QED BY <1>1, <1>3, <3>1
    <2> QED BY <1>1, <1>4, <1>5, <1>7, <2>1, SameTurn, SameCache, SameShell DEF OrderInv
  <1> QED BY <1>8, <1>9 DEF HistoryInv

-----------------------------------------------------------------------------
(* Sessions.                                                               *)

\* A new session has two new lists.
LEMMA NewSessionTyped ==
  ASSUME HistoryInv, NewSession
  PROVE  HistoryInv'
  <1> DEFINE n == opened + 1
  <1>0. n \in Sessions /\ n \in Nat /\ opened < n /\ opened \in Nat /\ current <= opened
    BY TypedNow, ConstantsAre DEF NewSession
  <1>1. /\ Grows /\ UNCHANGED <<transcript, disk, inherited>> /\ opened' = n /\ current' = n /\ pending' = None
        /\ shell' = shell /\ cache' = cache /\ turn' = turn /\ history' = history /\ made' = made /\ save' = save
    BY <1>0, ConstantsAre DEF NewSession, Command, Grows, HistoryInv, HistoryType, SessionsTyped
  <1>2. Fresh({}) \in Lists /\ stored' = [stored EXCEPT ![n] = Fresh({})]
    BY FreshOne DEF NewSession, HistoryInv
  <1> HIDE DEF n
  <1>3. stored' \in [Sessions -> Lists \cup {None}] /\ stored'[n] = Fresh({}) /\ \A s \in Sessions : s # n => stored'[s] = stored[s]
    BY <1>0, <1>2 DEF HistoryInv, HistoryType, ListsTyped
  <1>4. heap' \in Heaps(Orderly') /\ heap' \in [Lists -> Contents]
    <2> PICK S : S = Orderly'
      OBVIOUS
    <2> DEFINE contents == [heap EXCEPT ![history] = <<>>, ![stored'[n]] = <<>>]
    <2>0. Orderly \subseteq S
      BY <1>1, GrowIs DEF HistoryInv
    <2>1. heap \in Heaps(S) /\ <<>> \in S
      BY <2>0, TypedNow, EmptyOrderly DEF Heaps
    <2>2. contents \in Heaps(S)
      BY <2>1 DEF Heaps
    <2>3. Become(contents)
      BY DEF NewSession, n
    <2> HIDE DEF contents
    <2> QED BY <2>2, <2>3, HeapOrderly
  <1>8. HistoryType'
    <2>1. ListsTyped'
      <3>1. history' \in Lists
        BY <1>1 DEF HistoryInv, HistoryType, ListsTyped
      <3> QED BY <1>1, <1>3, <1>4, <3>1, SameTurn, SameCache, SameSave DEF ListsTyped
    <2>2. SessionsTyped'
      <3>1. opened' \in Sessions /\ current' \in 1 .. opened' /\ pending' \in 0 .. Everything \cup {None}
        BY <1>0, <1>1, ConstantsAre
      <3> QED BY <1>1, <3>1, SameFiles, SameShell DEF SessionsTyped, Grows
    <2>3. OpenedOnly'
      <3>1. \A s \in Sessions : s > n => s > opened /\ s # n
        BY <1>0, ConstantsAre
      <3>2. \A s \in Sessions : s > opened' => Blank(s)'
        BY <1>1, <1>3, <3>1 DEF HistoryInv, HistoryType, OpenedOnly, Blank
      <3>3. stored'[current'] # None
        BY <1>1, <1>2, <1>3, ConstantsAre
      <3> QED BY <1>1, <3>2, <3>3, SameSave DEF OpenedOnly
    <2> QED BY <2>1, <2>2, <2>3 DEF HistoryType
  <1>9. OrderInv'
    BY <1>1, <1>4, SameTurn, SameCache, SameSave, SameFiles, SameShell DEF OrderInv
  <1> QED BY <1>8, <1>9 DEF HistoryInv

\* A session opened again has the list in memory or a new one with what its file
\* says.
LEMMA ResumeTyped ==
  ASSUME HistoryInv, NEW s \in Sessions, Resume(s)
  PROVE  HistoryInv'
  <1>1. /\ Grows /\ UNCHANGED <<disk, inherited, opened>> /\ current' = s /\ pending' = None
        /\ shell' = shell /\ cache' = cache /\ turn' = turn /\ made' = made /\ save' = save
    BY ConstantsAre DEF Resume, Command, Grows, HistoryInv, HistoryType, SessionsTyped
  <1>2. s \in 1 .. opened
    <2>1. ~ Blank(s)
      BY DEF Resume, Blank
    <2>2. ~ (s > opened)
      BY <2>1 DEF HistoryInv, HistoryType, OpenedOnly
    <2> QED BY <2>2, TypedNow, ConstantsAre
  <1>3. Tellable \subseteq Tellable' /\ Orderly \subseteq Orderly' /\ \A m \in Message : Told(m) => Told(m)'
    BY <1>1, GrowIs DEF HistoryInv
  <1>4. stored \in [Sessions -> Lists \cup {None}] /\ transcript \in [Sessions -> Contents] /\ \A x \in Sessions : transcript[x] \in Tellable
    BY DEF HistoryInv, HistoryType, ListsTyped, SessionsTyped, OrderInv
  <1>5. /\ history' \in Lists /\ stored' \in [Sessions -> Lists \cup {None}] /\ stored'[s] # None
        /\ \A x \in Sessions : x # s => stored'[x] = stored[x]
        /\ transcript' \in [Sessions -> Contents] /\ \A x \in Sessions : transcript'[x] \in Tellable'
        /\ \A x \in Sessions : x # s => transcript'[x] = transcript[x]
        /\ heap' \in Heaps(Orderly') /\ heap' \in [Lists -> Contents]
    <2>1. CASE stored[s] # None
      <3>1. history' = stored[s] /\ UNCHANGED <<stored, transcript>> /\ Become(heap)
        BY <2>1 DEF Resume
      <3> QED BY <1>1, <1>3, <1>4, <2>1, <3>1, SameHeap
    <2>2. CASE stored[s] = None
      <3>1. /\ disk[s] # None /\ history' = Fresh({}) /\ stored' = [stored EXCEPT ![s] = history']
            /\ transcript' = [transcript EXCEPT ![s] = disk[s].messages]
            /\ Become([heap EXCEPT ![history'] = disk[s].history])
        BY <2>2 DEF Resume
      <3>2. history' \in Lists
        BY <3>1, FreshOne DEF HistoryInv
      <3>3. disk[s].messages \in Tellable /\ disk[s].history \in Orderly
        BY <3>1 DEF HistoryInv, OrderInv
      <3>4. heap' \in Heaps(Orderly') /\ heap' \in [Lists -> Contents]
        <4> PICK S : S = Orderly'
          OBVIOUS
        <4> DEFINE contents == [heap EXCEPT ![history'] = disk[s].history]
        <4>1. heap \in Heaps(S) /\ disk[s].history \in S
          BY <1>3, <3>3, TypedNow DEF Heaps
        <4>2. contents \in Heaps(S)
          BY <4>1 DEF Heaps
        <4>3. Become(contents)
          BY <3>1
        <4> HIDE DEF contents
        <4> QED BY <4>2, <4>3, HeapOrderly
      <3>5. stored' \in [Sessions -> Lists \cup {None}] /\ stored'[s] # None /\ \A x \in Sessions : x # s => stored'[x] = stored[x]
        BY <1>4, <3>1, <3>2, ConstantsAre
      <3>6. /\ transcript' \in [Sessions -> Contents] /\ \A x \in Sessions : transcript'[x] \in Tellable'
            /\ \A x \in Sessions : x # s => transcript'[x] = transcript[x]
        BY <1>3, <1>4, <3>1, <3>3 DEF Tellable
      <3> QED BY <3>2, <3>4, <3>5, <3>6
    <2> QED BY <2>1, <2>2
  <1>8. HistoryType'
    <2>1. ListsTyped'
      BY <1>1, <1>5, SameTurn, SameCache, SameSave DEF ListsTyped
    <2>2. SessionsTyped'
      <3>1. /\ opened' \in Sessions /\ current' \in 1 .. opened' /\ pending' \in 0 .. Everything \cup {None}
            /\ disk' \in [Sessions -> File \cup {None}] /\ inherited' \in [Sessions -> SUBSET Message]
        BY <1>1, <1>2 DEF HistoryInv, HistoryType, SessionsTyped
      <3> QED BY <1>1, <1>5, <3>1, SameShell DEF SessionsTyped, Grows
    <2>3. OpenedOnly'
      <3>1. \A x \in Sessions : x > opened => x # s
        BY <1>2, TypedNow, ConstantsAre
      <3>2. \A x \in Sessions : x > opened' => Blank(x)'
        BY <1>1, <1>5, <3>1 DEF HistoryInv, HistoryType, OpenedOnly, Blank
      <3> QED BY <1>1, <1>5, <3>2, SameSave DEF OpenedOnly
    <2> QED BY <2>1, <2>2, <2>3 DEF HistoryType
  <1>9. OrderInv'
    <2>1. \A x \in Sessions : \A m \in inherited'[x] : Told(m)'
      <3>1. \A x \in Sessions : \A m \in inherited[x] : Told(m) /\ m \in Message
        BY DEF HistoryInv, OrderInv, HistoryType, SessionsTyped
      <3> QED BY <1>1, <1>3, <3>1
    <2>2. \A x \in Sessions : disk'[x] # None => disk'[x].messages \in Tellable' /\ disk'[x].history \in Orderly'
      BY <1>1, <1>3 DEF HistoryInv, OrderInv
    <2> QED BY <1>1, <1>5, <2>1, <2>2, SameTurn, SameCache, SameSave, SameShell DEF OrderInv
  <1> QED BY <1>8, <1>9 DEF HistoryInv

\* What is left of a history that is cut.
LEMMA VisibleOrderly ==
  ASSUME NEW h \in Orderly, NEW n
  PROVE  /\ VisibleIn(SubSeq(h, 1, Position(h, n) - 1)) \in Orderly
         /\ Range(VisibleIn(SubSeq(h, 1, Position(h, n) - 1))) \subseteq Range(h)
  <1> DEFINE c == Position(h, n) - 1
             p == SubSeq(h, 1, c)
  <1>1. h \in Contents
    BY DEF Orderly, Tellable
  <1>2. c \in Int /\ c <= Len(h)
    <2>1. Position(h, n) \in 0 .. Len(h) /\ Len(h) \in Nat
      BY <1>1, PositionIn DEF Contents
    <2> QED BY <2>1
  <1> HIDE DEF c
  <1>3. p \in Orderly /\ Range(p) \subseteq Range(h)
    BY <1>1, <1>2, PrefixOrderly, PrefixIs
  <1> HIDE DEF p
  <1>4. p \in Contents
    BY <1>3 DEF Orderly, Tellable
  <1>5. /\ VisibleIn(p) \in Contents /\ Range(VisibleIn(p)) \subseteq Range(p)
        /\ Chronological(p) => Chronological(VisibleIn(p))
    BY <1>4, VisibleIs
  <1>6. VisibleIn(p) \in Orderly
    BY <1>3, <1>5 DEF Orderly, Tellable
  <1> QED BY <1>3, <1>5, <1>6 DEF p, c

\* What truncating does to the lists.
LEMMA TruncatesDoes ==
  ASSUME HistoryInv, NEW k, Truncates(k)
  PROVE  \/ history' = history /\ Become([heap EXCEPT ![history] = <<>>])
         \/ /\ history' = Fresh({}) /\ history' \in Lists /\ history' \notin Used
            /\ \E kept \in Orderly : /\ Become([heap EXCEPT ![history'] = kept])
                                     /\ Range(kept) \subseteq Range(heap[history])
  <1>1. heap[history] \in Orderly
    BY TypedNow
  <1>2. \A n : /\ VisibleIn(SubSeq(heap[history], 1, Position(heap[history], n) - 1)) \in Orderly
               /\ Range(VisibleIn(SubSeq(heap[history], 1, Position(heap[history], n) - 1))) \subseteq Range(heap[history])
    BY <1>1, VisibleOrderly
  <1>3. Fresh({}) \in Lists /\ Fresh({}) \notin Used
    BY FreshOne DEF HistoryInv
  <1> QED BY <1>2, <1>3 DEF Truncates

\* So does the context that a rewind leaves.
LEMMA TruncatesTyped ==
  ASSUME HistoryInv, Grows, NEW k, Truncates(k)
  PROVE  history' \in Lists /\ heap' \in Heaps(Orderly') /\ heap' \in [Lists -> Contents]
  <1>1. Orderly \subseteq Orderly'
    BY GrowIs DEF HistoryInv
  <1> PICK S : S = Orderly'
    OBVIOUS
  <1>2. heap \in Heaps(S) /\ <<>> \in S
    BY <1>1, TypedNow, EmptyOrderly DEF Heaps
  <1>3. CASE history' = history /\ Become([heap EXCEPT ![history] = <<>>])
    <2>1. [heap EXCEPT ![history] = <<>>] \in Heaps(S)
      BY <1>2 DEF Heaps
    <2>2. history \in Lists
      BY DEF HistoryInv, HistoryType, ListsTyped
    <2> QED BY <1>3, <2>1, <2>2, HeapOrderly
  <1>4. ASSUME history' \in Lists, NEW kept \in Orderly, Become([heap EXCEPT ![history'] = kept])
        PROVE  heap' \in Heaps(Orderly') /\ heap' \in [Lists -> Contents]
    <2> DEFINE contents == [heap EXCEPT ![history'] = kept]
    <2>1. contents \in Heaps(S)
      BY <1>1, <1>2 DEF Heaps
    <2>2. Become(contents)
      BY <1>4
    <2> HIDE DEF contents
    <2> QED BY <2>1, <2>2, HeapOrderly
  <1> QED BY <1>3, <1>4, TruncatesDoes

\* A rewind keeps HistoryInv.
LEMMA RewindTyped ==
  ASSUME HistoryInv, NEW k \in 0 .. Everything, Rewind(k)
  PROVE  HistoryInv'
  <1>1. /\ Grows /\ UNCHANGED <<disk, inherited, opened, current, stored>> /\ pending' = None
        /\ shell' = shell /\ cache' = cache /\ turn' = turn /\ made' = made /\ save' = save
    BY ConstantsAre DEF Rewind, Command, Grows, HistoryInv, HistoryType, SessionsTyped
  <1>2. history' \in Lists /\ heap' \in Heaps(Orderly') /\ heap' \in [Lists -> Contents]
    BY <1>1, TruncatesTyped DEF Rewind
  <1>3. Tellable \subseteq Tellable' /\ Orderly \subseteq Orderly' /\ \A m \in Message : Told(m) => Told(m)'
    BY <1>1, GrowIs DEF HistoryInv
  <1>5. /\ transcript' \in [Sessions -> Contents] /\ \A x \in Sessions : transcript'[x] \in Tellable'
        /\ \A x \in Sessions : x # current => transcript'[x] = transcript[x]
    <2>1. transcript' = [transcript EXCEPT ![current] = SubSeq(transcript[current], 1, k)]
      BY DEF Rewind
    <2>2. transcript \in [Sessions -> Contents] /\ \A s \in Sessions : transcript[s] \in Tellable
      BY DEF HistoryInv, HistoryType, SessionsTyped, OrderInv
    <2>3. transcript[current] \in Tellable /\ transcript[current] \in Contents /\ k \in Int /\ k <= Len(transcript[current])
      <3>1. transcript[current] \in Tellable /\ transcript[current] \in Contents
        BY TypedNow
      <3>2. k \in Int /\ k < Len(transcript[current])
        BY ConstantsAre DEF Rewind
      <3>3. Len(transcript[current]) \in Nat
        BY <3>1 DEF Contents
      <3> QED BY <3>1, <3>2, <3>3
    <2>4. SubSeq(transcript[current], 1, k) \in Tellable /\ SubSeq(transcript[current], 1, k) \in Contents
      BY <2>3, PrefixTellable, PrefixIs
    <2> QED BY <1>3, <2>1, <2>2, <2>4
  <1>8. HistoryType'
    <2>1. ListsTyped'
      <3>1. stored' \in [Sessions -> Lists \cup {None}]
        BY <1>1 DEF HistoryInv, HistoryType, ListsTyped
      <3> QED BY <1>1, <1>2, <3>1, SameTurn, SameCache, SameSave DEF ListsTyped
    <2>2. SessionsTyped'
      <3>1. /\ opened' \in Sessions /\ current' \in 1 .. opened' /\ pending' \in 0 .. Everything \cup {None}
            /\ disk' \in [Sessions -> File \cup {None}] /\ inherited' \in [Sessions -> SUBSET Message]
        BY <1>1 DEF HistoryInv, HistoryType, SessionsTyped
      <3> QED BY <1>1, <1>5, <3>1, SameShell DEF SessionsTyped, Grows
    <2>3. OpenedOnly'
      <3>1. \A x \in Sessions : x > opened => x # current
        BY TypedNow, ConstantsAre
      <3>2. \A x \in Sessions : x > opened' => Blank(x)'
        BY <1>1, <1>5, <3>1 DEF HistoryInv, HistoryType, OpenedOnly, Blank
      <3>3. stored'[current'] # None
        BY <1>1 DEF HistoryInv, HistoryType, OpenedOnly
      <3> QED BY <1>1, <1>5, <3>2, <3>3, SameSave DEF OpenedOnly
    <2> QED BY <2>1, <2>2, <2>3 DEF HistoryType
  <1>9. OrderInv'
    <2>1. \A x \in Sessions : \A m \in inherited'[x] : Told(m)'
      <3>1. \A x \in Sessions : \A m \in inherited[x] : Told(m) /\ m \in Message
        BY DEF HistoryInv, OrderInv, HistoryType, SessionsTyped
      <3> QED BY <1>1, <1>3, <3>1
    <2>2. \A x \in Sessions : disk'[x] # None => disk'[x].messages \in Tellable' /\ disk'[x].history \in Orderly'
      BY <1>1, <1>3 DEF HistoryInv, OrderInv
    <2> QED BY <1>1, <1>2, <1>5, <2>1, <2>2, SameTurn, SameCache, SameSave, SameShell DEF OrderInv
  <1> QED BY <1>8, <1>9 DEF HistoryInv

\* The choice of a fork point keeps HistoryInv.
LEMMA ChooseForkTyped ==
  ASSUME HistoryInv, NEW k \in 0 .. Everything, ChooseFork(k)
  PROVE  HistoryInv'
  <1>1. /\ Grows /\ UNCHANGED <<transcript, disk, inherited, opened, current, stored>> /\ pending' = k /\ opened < MaxSessions
        /\ shell' = shell /\ cache' = cache /\ turn' = turn /\ made' = made /\ save' = save
    BY ConstantsAre DEF ChooseFork, Grows, HistoryInv, HistoryType, SessionsTyped
  <1>2. history' \in Lists /\ heap' \in Heaps(Orderly') /\ heap' \in [Lists -> Contents]
    <2>1. CASE k = Everything
      BY <1>1, <2>1, SameHeap DEF ChooseFork, HistoryInv, HistoryType, ListsTyped
    <2>2. CASE k # Everything
      BY <1>1, <2>2, TruncatesTyped DEF ChooseFork
    <2> QED BY <2>1, <2>2
  <1>8. HistoryType'
    <2>1. ListsTyped'
      <3>1. stored' \in [Sessions -> Lists \cup {None}]
        BY <1>1 DEF HistoryInv, HistoryType, ListsTyped
      <3> QED BY <1>1, <1>2, <3>1, SameTurn, SameCache, SameSave DEF ListsTyped
    <2>2. SessionsTyped'
      <3>1. opened' \in Sessions /\ current' \in 1 .. opened' /\ pending' \in 0 .. Everything \cup {None}
        BY <1>1 DEF HistoryInv, HistoryType, SessionsTyped
      <3> QED BY <1>1, <3>1, SameFiles, SameShell DEF SessionsTyped, Grows
    <2>3. OpenedOnly'
      <3>2. \A x \in Sessions : x > opened' => Blank(x)'
        BY <1>1 DEF HistoryInv, HistoryType, OpenedOnly, Blank
      <3>3. stored'[current'] # None
        BY <1>1 DEF HistoryInv, HistoryType, OpenedOnly
      <3> QED BY <1>1, <3>2, <3>3, SameSave DEF OpenedOnly
    <2> QED BY <2>1, <2>2, <2>3 DEF HistoryType
  <1>9. OrderInv'
    BY <1>1, <1>2, SameTurn, SameCache, SameSave, SameFiles, SameShell DEF OrderInv
  <1> QED BY <1>8, <1>9 DEF HistoryInv

\* A restart has two lists.
LEMMA FirstLists == FirstList \in Lists /\ SecondList \in Lists /\ FirstList # SecondList
  <1>1. Cardinality(Lists) >= 2
    BY ConstantsAre
  <1>2. \E l \in Lists : TRUE
    <2> SUFFICES ASSUME Lists = {} PROVE FALSE
      OBVIOUS
    <2> QED BY <1>1, FS_EmptySet
  <1>3. FirstList \in Lists
    BY <1>2 DEF FirstList
  <1>4. \E l \in Lists : l # FirstList
    <2> SUFFICES ASSUME \A l \in Lists : l = FirstList PROVE FALSE
      OBVIOUS
    <2>1. Lists = {FirstList}
      BY <1>3
    <2>2. Cardinality(Lists) = 1
      BY <2>1, FS_Singleton
    <2> QED BY <1>1, <2>2
  <1> QED BY <1>3, <1>4 DEF SecondList

\* A restart has nothing but the files.
LEMMA RestartsTyped ==
  ASSUME HistoryInv, Restarts, disk' \in [Sessions -> File \cup {None}], \A s \in Sessions : s # current => disk'[s] = disk[s],
         \A s \in Sessions : disk'[s] # None => disk'[s].messages \in Tellable' /\ disk'[s].history \in Orderly'
  PROVE  HistoryInv'
  <1> DEFINE n == opened + 1
  <1>0. n \in Sessions /\ n \in Nat /\ opened < n /\ opened \in Nat /\ current <= opened /\ current \in Sessions
    BY TypedNow, ConstantsAre DEF Restarts
  <1>1. /\ Grows /\ inherited' = inherited /\ opened' = n /\ current' = n /\ pending' = None
        /\ shell' = None /\ cache' = <<>> /\ turn' = <<>> /\ history' = FirstList /\ made' = made /\ save' = None
    BY <1>0, ConstantsAre DEF Restarts, Grows, HistoryInv, HistoryType, SessionsTyped
  <1>2. stored' = [s \in Sessions |-> IF s = n THEN SecondList ELSE None] /\ transcript' = [s \in Sessions |-> <<>>]
    BY DEF Restarts
  <1>3. Tellable \subseteq Tellable' /\ Orderly \subseteq Orderly' /\ \A m \in Message : Told(m) => Told(m)'
    BY <1>1, GrowIs DEF HistoryInv
  <1> HIDE DEF n
  <1>4. stored' \in [Sessions -> Lists \cup {None}] /\ stored'[n] # None /\ \A s \in Sessions : s # n => stored'[s] = None
    BY <1>0, <1>2, FirstLists, ConstantsAre
  <1>5. heap' \in Heaps(Orderly') /\ heap' \in [Lists -> Contents] /\ turn' \in Contents /\ turn' \in Orderly'
    <2>1. heap' = [l \in Lists |-> <<>>]
      BY DEF Restarts
    <2> QED BY <1>1, <2>1, EmptyOrderly DEF Heaps
  <1>6. transcript' \in [Sessions -> Contents] /\ \A s \in Sessions : transcript'[s] \in Tellable' /\ transcript'[s] = <<>>
    BY <1>2, EmptyOrderly
  <1>7. cache' \in Seq(CacheEntry) /\ Len(cache') <= CacheSize /\ DOMAIN cache' = {}
    <2>1. cache' = <<>>
      BY <1>1
    <2>2. Len(<<>>) = 0 /\ <<>> \in Seq(CacheEntry) /\ DOMAIN <<>> = {}
      OBVIOUS
    <2> QED BY <2>1, <2>2, ConstantsAre
  <1>8. HistoryType'
    <2>1. ListsTyped'
      BY <1>1, <1>4, <1>5, <1>7, FirstLists DEF ListsTyped
    <2>2. SessionsTyped'
      <3>1. opened' \in Sessions /\ current' \in 1 .. opened' /\ pending' \in 0 .. Everything \cup {None} /\ inherited' \in [Sessions -> SUBSET Message]
        BY <1>0, <1>1, ConstantsAre DEF HistoryInv, HistoryType, SessionsTyped
      <3> QED BY <1>1, <1>6, <3>1 DEF SessionsTyped, Grows
    <2>3. OpenedOnly'
      <3>1. \A s \in Sessions : s > n => s > opened /\ s # n /\ s # current
        BY <1>0, ConstantsAre
      <3>2. \A s \in Sessions : s > opened' => Blank(s)'
        BY <1>1, <1>4, <1>6, <3>1 DEF HistoryInv, HistoryType, OpenedOnly, Blank
      <3> QED BY <1>1, <1>4, <3>2 DEF OpenedOnly
    <2> QED BY <2>1, <2>2, <2>3 DEF HistoryType
  <1>9. OrderInv'
    <2>1. \A x \in Sessions : \A m \in inherited'[x] : Told(m)'
      <3>1. \A x \in Sessions : \A m \in inherited[x] : Told(m) /\ m \in Message
        BY DEF HistoryInv, OrderInv, HistoryType, SessionsTyped
      <3> QED BY <1>1, <1>3, <3>1
    <2> QED BY <1>1, <1>5, <1>6, <1>7, <2>1 DEF OrderInv
  <1> QED BY <1>8, <1>9 DEF HistoryInv

\* The end of the process, with or without the exit's save.
LEMMA EndsTyped ==
  ASSUME HistoryInv, Crash \/ Quit
  PROVE  HistoryInv'
  <1>1. Restarts /\ Grows
    <2>1. Restarts
      BY DEF Crash, Quit
    <2>2. opened + 1 \in Sessions /\ opened \in Nat /\ opened <= opened + 1
      BY <2>1, TypedNow, ConstantsAre DEF Restarts
    <2> QED BY <2>1, <2>2 DEF Restarts, Grows, HistoryInv, HistoryType, SessionsTyped
  <1>2. Tellable \subseteq Tellable' /\ Orderly \subseteq Orderly'
    BY <1>1, GrowIs DEF HistoryInv
  <1>3. CASE disk' = disk
    BY <1>1, <1>2, <1>3, RestartsTyped DEF HistoryInv, OrderInv, HistoryType, SessionsTyped
  <1>4. CASE disk' # disk
    <2>1. Writes(transcript[current], history)
      BY <1>4 DEF Crash, Quit
    <2>2. transcript[current] \in Tellable /\ history \in Lists
      BY TypedNow DEF HistoryInv, HistoryType, ListsTyped
    <2> QED BY <1>1, <2>1, <2>2, WritesTyped, RestartsTyped
  <1> QED BY <1>3, <1>4

-----------------------------------------------------------------------------
(* Forks, and InOrder.                                                     *)

\* Which session is current after the first message of a fork.
LEMMA ForksOpens ==
  ASSUME HistoryInv, NEW list, Forks(list)
  PROVE  /\ opened' \in Sessions /\ opened <= opened' /\ current' \in 1 .. opened' /\ current' \in Sessions /\ pending' = None
         /\ pending = None => opened' = opened /\ current' = current
         /\ pending # None => opened' = opened + 1 /\ current' = opened + 1
  <1>1. CASE pending = None
    BY <1>1, TypedNow DEF Forks, HistoryInv, HistoryType, SessionsTyped
  <1>2. CASE pending # None
    <2>1. opened < MaxSessions /\ opened' = opened + 1 /\ current' = opened + 1
      BY <1>2 DEF Forks, HistoryInv, HistoryType, OpenedOnly
    <2> QED BY <1>2, <2>1, TypedNow, ConstantsAre DEF Forks
  <1> QED BY <1>1, <1>2

\* A fork writes the file of the session it leaves and opens one with what it
\* keeps.
LEMMA ForksTyped ==
  ASSUME HistoryInv, Grows, NEW list, pending # None => list \in Lists, Forks(list)
  PROVE  /\ stored' \in [Sessions -> Lists \cup {None}] /\ stored'[current'] # None
         /\ disk' \in [Sessions -> File \cup {None}]
         /\ \A s \in Sessions : disk'[s] # None => disk'[s].messages \in Tellable' /\ disk'[s].history \in Orderly'
         /\ inherited' \in [Sessions -> SUBSET Message]
         /\ \A s \in Sessions : \A m \in inherited'[s] : Told(m)'
         /\ \A s \in Sessions : s > opened' => /\ s # current' /\ stored'[s] = None /\ disk'[s] = None
                                               /\ inherited'[s] = {} /\ transcript[s] = <<>>
  <1>0. /\ opened' \in Sessions /\ opened <= opened' /\ current' \in 1 .. opened' /\ current' \in Sessions
        /\ pending = None => opened' = opened /\ current' = current
        /\ pending # None => opened' = opened + 1 /\ current' = opened + 1
    BY ForksOpens
  <1>1. Tellable \subseteq Tellable' /\ Orderly \subseteq Orderly' /\ \A m \in Message : Told(m) => Told(m)'
    BY GrowIs DEF HistoryInv
  <1>2. /\ stored \in [Sessions -> Lists \cup {None}] /\ stored[current] # None
        /\ disk \in [Sessions -> File \cup {None}] /\ inherited \in [Sessions -> SUBSET Message]
        /\ \A s \in Sessions : disk[s] # None => disk[s].messages \in Tellable /\ disk[s].history \in Orderly
        /\ \A s \in Sessions : \A m \in inherited[s] : Told(m) /\ m \in Message
        /\ \A s \in Sessions : s > opened => Blank(s)
    BY DEF HistoryInv, HistoryType, ListsTyped, SessionsTyped, OpenedOnly, OrderInv
  <1>3. \A s \in Sessions : s > opened' => s > opened /\ s # current'
    BY <1>0, TypedNow, ConstantsAre
  <1>4. CASE pending = None
    <2>1. UNCHANGED <<stored, disk, current, opened, inherited>>
      BY <1>4 DEF Forks
    <2> QED BY <1>0, <1>1, <1>2, <1>3, <2>1 DEF Blank
  <1>5. CASE pending # None
    <2> DEFINE file == [messages |-> KeptTranscript, history |-> KeptHistory]
               told == inherited[current] \cup {m \in Message : m.by = current /\ m.at <= made}
    <2> PICK n : n = current'
      OBVIOUS
    <2>1. /\ stored' = [stored EXCEPT ![n] = list] /\ disk' = [disk EXCEPT ![n] = file]
          /\ inherited' = [inherited EXCEPT ![n] = told] /\ n \in Sessions
      BY <1>0, <1>5 DEF Forks
    <2>2. file \in File /\ file.messages \in Tellable /\ file.history \in Orderly
      BY <1>5, KeptIs DEF File, Tellable, Orderly
    <2>3. told \in SUBSET Message /\ \A m \in told : Told(m)
      BY <1>2, TypedNow DEF Told
    <2> HIDE DEF file, told
    <2>4. list \in Lists /\ list # None
      BY <1>5, ConstantsAre
    <2>5. stored' \in [Sessions -> Lists \cup {None}] /\ stored'[n] = list
      BY <1>2, <2>1, <2>4
    <2>6. /\ disk' \in [Sessions -> File \cup {None}]
          /\ \A s \in Sessions : disk'[s] # None => disk'[s].messages \in Tellable' /\ disk'[s].history \in Orderly'
      BY <1>1, <1>2, <2>1, <2>2
    <2>7. inherited' \in [Sessions -> SUBSET Message] /\ \A s \in Sessions : \A m \in inherited'[s] : Told(m)'
      BY <1>1, <1>2, <2>1, <2>3
    <2>8. \A s \in Sessions : s # n => stored'[s] = stored[s] /\ disk'[s] = disk[s] /\ inherited'[s] = inherited[s]
      BY <1>2, <2>1
    <2> QED BY <1>2, <1>3, <2>4, <2>5, <2>6, <2>7, <2>8 DEF Blank
  <1> QED BY <1>4, <1>5

\* The transcript with what was said.
LEMMA SaidTyped ==
  ASSUME HistoryInv, Grows, current' \in Sessions, NEW m \in Message, Told(m)',
         transcript' = [transcript EXCEPT ![current'] = Append(KeptTranscript, m)]
  PROVE  /\ transcript' \in [Sessions -> Contents]
         /\ \A s \in Sessions : transcript'[s] \in Tellable'
         /\ \A s \in Sessions : s # current' => transcript'[s] = transcript[s]
  <1>1. Tellable \subseteq Tellable'
    BY GrowIs DEF HistoryInv
  <1> PICK t : t = Append(KeptTranscript, m)
    OBVIOUS
  <1>2. t \in Tellable' /\ t \in Contents
    <2>1. KeptTranscript \in Tellable'
      BY <1>1, KeptIs
    <2> QED BY <2>1, AppendTellableNext DEF Tellable
  <1>3. transcript \in [Sessions -> Contents] /\ \A s \in Sessions : transcript[s] \in Tellable
    BY DEF HistoryInv, HistoryType, SessionsTyped, OrderInv
  <1> PICK n : n = current'
    OBVIOUS
  <1>4. transcript' = [transcript EXCEPT ![n] = t] /\ n \in Sessions
    OBVIOUS
  <1> QED BY <1>1, <1>2, <1>3, <1>4

\* The list a fork begins with.
LEMMA ForkedIn ==
  ASSUME HistoryInv, Grows, NEW S, S = Orderly', NEW contents \in Heaps(S), NEW list
  PROVE  Forked(contents, list) \in Heaps(S)
  <1>1. Orderly \subseteq S
    BY GrowIs DEF HistoryInv
  <1> QED BY <1>1, KeptIs DEF Forked, Heaps

\* The start of a turn keeps HistoryInv, with or without a fork and a full cache.
LEMMA TurnStartsTyped ==
  ASSUME HistoryInv, TurnStarts
  PROVE  HistoryInv'
  <1> DEFINE before == heap[history]
             list == CachedList(before)
             new == Fresh({list})
             fork == Fresh({list, new})
  <1>1. /\ Forks(fork) /\ cache' = CacheAfter(before) /\ turn' = Append(CachedContents(before), Says(current', "user"))
        /\ history' = new /\ save' = save /\ shell' = shell /\ made' = made + 1 /\ made < MaxMessages
        /\ Become(Forked([heap EXCEPT ![list] = CachedContents(before), ![new] = turn'], fork))
        /\ transcript' = [transcript EXCEPT ![current'] = Append(KeptTranscript, Says(current', "user"))]
    BY DEF TurnStarts
  <1>2. before \in Orderly /\ before \in Tellable /\ CachedContents(before) \in Orderly /\ list \in Lists
    BY TypedNow, CachedOrderly
  <1>3. new \in Lists /\ (pending # None => fork \in Lists)
    <2>1. pending # None => opened < MaxSessions
      BY DEF HistoryInv, HistoryType, OpenedOnly
    <2> QED BY <2>1, FreshOne DEF HistoryInv
  <1> HIDE DEF before, list, new, fork
  <1>4. opened' \in Sessions /\ opened <= opened' /\ current' \in 1 .. opened' /\ current' \in Sessions /\ pending' = None
    BY <1>1, ForksOpens
  <1>5. Grows
    BY <1>1, <1>4, TypedNow, ConstantsAre DEF Grows
  <1>6. Tellable \subseteq Tellable' /\ Orderly \subseteq Orderly'
    BY <1>5, GrowIs DEF HistoryInv
  <1> PICK m : m = Says(current', "user")
    OBVIOUS
  <1>7. m \in Message /\ Told(m)' /\ turn' \in Orderly' /\ turn' \in Contents
    <2> PICK t : t = Append(CachedContents(before), m)
      OBVIOUS
    <2>1. m \in Message /\ Told(m)' /\ t \in Orderly'
      BY <1>1, <1>2, <1>4, <1>5, SayOrderly DEF HistoryInv
    <2>2. turn' = t
      BY <1>1
    <2> QED BY <2>1, <2>2 DEF Orderly, Tellable
  <1>8. heap' \in Heaps(Orderly') /\ heap' \in [Lists -> Contents]
    <2> PICK S : S = Orderly'
      OBVIOUS
    <2> PICK t : t = turn'
      OBVIOUS
    <2> DEFINE contents == [heap EXCEPT ![list] = CachedContents(before), ![new] = t]
    <2>1. heap \in Heaps(S) /\ CachedContents(before) \in S /\ t \in S
      BY <1>2, <1>6, <1>7, TypedNow DEF Heaps
    <2>2. contents \in Heaps(S)
      BY <2>1 DEF Heaps
    <2>3. Become(Forked(contents, fork))
      BY <1>1
    <2> HIDE DEF contents
    <2>4. Forked(contents, fork) \in Heaps(S)
      BY <1>5, <2>2, ForkedIn
    <2> QED BY <2>3, <2>4, HeapOrderly
  <1>9. cache' \in Seq(CacheEntry) /\ Len(cache') <= CacheSize /\ \A i \in DOMAIN cache' : cache'[i].key \in Tellable'
    <2> PICK after : after = cache'
      OBVIOUS
    <2>2. after \in Seq(CacheEntry) /\ Len(after) <= CacheSize /\ \A i \in DOMAIN after : after[i].key \in Tellable
      BY <1>1, <1>2, CacheTellable
    <2> QED BY <1>6, <2>2
  <1>10. /\ transcript' \in [Sessions -> Contents] /\ \A s \in Sessions : transcript'[s] \in Tellable'
         /\ \A s \in Sessions : s # current' => transcript'[s] = transcript[s]
    BY <1>1, <1>4, <1>5, <1>7, SaidTyped
  <1>11. /\ stored' \in [Sessions -> Lists \cup {None}] /\ stored'[current'] # None
         /\ disk' \in [Sessions -> File \cup {None}]
         /\ \A s \in Sessions : disk'[s] # None => disk'[s].messages \in Tellable' /\ disk'[s].history \in Orderly'
         /\ inherited' \in [Sessions -> SUBSET Message]
         /\ \A s \in Sessions : \A x \in inherited'[s] : Told(x)'
         /\ \A s \in Sessions : s > opened' => /\ s # current' /\ stored'[s] = None /\ disk'[s] = None
                                               /\ inherited'[s] = {} /\ transcript[s] = <<>>
    BY <1>1, <1>3, <1>5, ForksTyped
  <1>12. HistoryType'
    <2>1. ListsTyped'
      BY <1>1, <1>3, <1>5, <1>7, <1>8, <1>9, <1>11, SameSave DEF ListsTyped
    <2>2. SessionsTyped'
      <3>1. made' \in 0 .. MaxMessages
        BY <1>5 DEF Grows
      <3> QED BY <1>1, <1>4, <1>5, <1>10, <1>11, <3>1, SameShell DEF SessionsTyped
    <2>3. OpenedOnly'
      <3>1. \A s \in Sessions : s > opened' => Blank(s)'
        BY <1>10, <1>11 DEF Blank
      <3> QED BY <1>1, <1>4, <1>5, <1>11, <3>1, SameSave DEF OpenedOnly
    <2> QED BY <2>1, <2>2, <2>3 DEF HistoryType
  <1>13. OrderInv'
    BY <1>1, <1>5, <1>7, <1>8, <1>9, <1>10, <1>11, SameSave, SameShell DEF OrderInv
  <1> QED BY <1>12, <1>13 DEF HistoryInv

\* So does the start of a "!" command.
LEMMA ShellStartsTyped ==
  ASSUME HistoryInv, ShellStarts
  PROVE  HistoryInv'
  <1> DEFINE fork == Fresh({})
  <1>1. /\ Forks(fork) /\ cache' = cache /\ turn' = turn /\ history' = history
        /\ save' = save /\ shell' = Says(current', "shell") /\ made' = made + 1 /\ made < MaxMessages
        /\ Become(Forked(heap, fork))
        /\ transcript' = [transcript EXCEPT ![current'] = Append(KeptTranscript, shell')]
    BY DEF ShellStarts
  <1>3. fork \in Lists
    BY FreshOne DEF HistoryInv
  <1> HIDE DEF fork
  <1>4. opened' \in Sessions /\ opened <= opened' /\ current' \in 1 .. opened' /\ current' \in Sessions /\ pending' = None
    BY <1>1, ForksOpens
  <1> PICK m : m = Says(current', "shell")
    OBVIOUS
  <1>5. Grows /\ m \in Message /\ m.kind = "shell" /\ Told(m)' /\ made' \in 0 .. MaxMessages
    <2>1. made \in Nat /\ made + 1 \in 1 .. MaxMessages /\ made' = made + 1
      BY <1>1, TypedNow, ConstantsAre
    <2>2. m \in Message /\ m.kind = "shell" /\ m.at = made + 1 /\ m.by = current'
      BY <1>4, <2>1 DEF Says, Message
    <2>3. shell' = m
      BY <1>1
    <2>4. Grows
      BY <1>4, <2>1, <2>2, <2>3, ConstantsAre DEF Grows
    <2>5. Told(m)'
      BY <1>4, <2>1, <2>2, ConstantsAre DEF Told
    <2> QED BY <2>1, <2>2, <2>4, <2>5
  <1>6. Tellable \subseteq Tellable' /\ Orderly \subseteq Orderly'
    BY <1>5, GrowIs DEF HistoryInv
  <1>8. heap' \in Heaps(Orderly') /\ heap' \in [Lists -> Contents]
    <2> PICK S : S = Orderly'
      OBVIOUS
    <2>1. heap \in Heaps(S)
      BY <1>6, TypedNow DEF Heaps
    <2>4. Forked(heap, fork) \in Heaps(S)
      BY <1>5, <2>1, ForkedIn
    <2> QED BY <1>1, <2>4, HeapOrderly
  <1>10. /\ transcript' \in [Sessions -> Contents] /\ \A s \in Sessions : transcript'[s] \in Tellable'
         /\ \A s \in Sessions : s # current' => transcript'[s] = transcript[s]
    BY <1>1, <1>4, <1>5, SaidTyped
  <1>11. /\ stored' \in [Sessions -> Lists \cup {None}] /\ stored'[current'] # None
         /\ disk' \in [Sessions -> File \cup {None}]
         /\ \A s \in Sessions : disk'[s] # None => disk'[s].messages \in Tellable' /\ disk'[s].history \in Orderly'
         /\ inherited' \in [Sessions -> SUBSET Message]
         /\ \A s \in Sessions : \A x \in inherited'[s] : Told(x)'
         /\ \A s \in Sessions : s > opened' => /\ s # current' /\ stored'[s] = None /\ disk'[s] = None
                                               /\ inherited'[s] = {} /\ transcript[s] = <<>>
    BY <1>1, <1>3, <1>5, ForksTyped
  <1>14. shell' \in Message /\ shell'.kind = "shell" /\ Told(shell)'
    BY <1>1, <1>5 DEF Told
  <1>12. HistoryType'
    <2>1. ListsTyped'
      <3>1. history' \in Lists
        BY <1>1 DEF HistoryInv, HistoryType, ListsTyped
      <3> QED BY <1>1, <1>5, <1>8, <1>11, <3>1, SameCache, SameTurn, SameSave DEF ListsTyped
    <2>2. SessionsTyped'
      BY <1>4, <1>5, <1>10, <1>11, <1>14 DEF SessionsTyped
    <2>3. OpenedOnly'
      <3>1. \A s \in Sessions : s > opened' => Blank(s)'
        BY <1>10, <1>11 DEF Blank
      <3> QED BY <1>1, <1>4, <1>5, <1>11, <3>1, SameSave DEF OpenedOnly
    <2> QED BY <2>1, <2>2, <2>3 DEF HistoryType
  <1>13. OrderInv'
    BY <1>1, <1>5, <1>8, <1>10, <1>11, <1>14, SameCache, SameTurn, SameSave DEF OrderInv
  <1> QED BY <1>12, <1>13 DEF HistoryInv

\* A program that starts has said nothing.
LEMMA HistoryInit == ASSUME Init PROVE HistoryInv
  <1>1. heap = [l \in Lists |-> <<>>] /\ history = FirstList /\ turn = <<>> /\ cache = <<>> /\ save = None
    BY DEF Init
  <1>2. 1 \in Sessions /\ 0 \in 0 .. MaxMessages
    BY ConstantsAre
  <1>3. stored = [s \in Sessions |-> IF s = 1 THEN SecondList ELSE None]
    BY DEF Init
  <1>4. stored \in [Sessions -> Lists \cup {None}] /\ stored[1] # None /\ \A s \in Sessions : s # 1 => stored[s] = None
    BY <1>2, <1>3, FirstLists, ConstantsAre
  <1>5. /\ transcript = [s \in Sessions |-> <<>>] /\ disk = [s \in Sessions |-> None] /\ current = 1 /\ opened = 1
        /\ shell = None /\ made = 0 /\ pending = None /\ inherited = [s \in Sessions |-> {}]
    BY DEF Init
  <1>6. cache \in Seq(CacheEntry) /\ Len(cache) <= CacheSize /\ DOMAIN cache = {}
    <2>1. Len(<<>>) = 0 /\ <<>> \in Seq(CacheEntry) /\ DOMAIN <<>> = {}
      OBVIOUS
    <2> QED BY <1>1, <2>1, ConstantsAre
  <1>7. ListsTyped
    BY <1>1, <1>4, <1>6, FirstLists, EmptyOrderly DEF ListsTyped
  <1>8. SessionsTyped
    BY <1>2, <1>5, EmptyOrderly DEF SessionsTyped
  <1>9. OpenedOnly
    <2>1. \A s \in Sessions : s > 1 => s # 1
      BY ConstantsAre
    <2> QED BY <1>1, <1>4, <1>5, <2>1 DEF OpenedOnly, Blank
  <1>10. OrderInv
    BY <1>1, <1>5, <1>6, EmptyOrderly DEF OrderInv, Heaps
  <1> QED BY <1>7, <1>8, <1>9, <1>10 DEF HistoryInv, HistoryType

\* Every step keeps HistoryInv.
LEMMA HistoryStep == ASSUME HistoryInv, [Next]_vars PROVE HistoryInv'
  <1>1. CASE UNCHANGED vars
    <2>1. /\ UNCHANGED <<heap, history, turn, cache, stored, save>>
          /\ UNCHANGED <<transcript, disk, opened, current, shell, pending, made, inherited>>
      BY <1>1 DEF vars, forkVars
    <2>2. ListsTyped' /\ SessionsTyped' /\ OpenedOnly'
      BY <2>1 DEF HistoryInv, HistoryType, ListsTyped, SessionsTyped, OpenedOnly, Blank
    <2>3. Tellable' = Tellable /\ Orderly' = Orderly
      BY <2>1 DEF Tellable, Orderly, Told
    <2>4. OrderInv'
      BY <2>1, <2>3 DEF HistoryInv, OrderInv, Told
    <2> QED BY <2>2, <2>4 DEF HistoryInv, HistoryType
  <1>2. CASE Next
    <2>1. CASE TurnStarts
      BY <2>1, TurnStartsTyped
    <2>2. CASE TurnEnds
      BY <2>2, TurnEndsTyped
    <2>3. CASE TurnStops
      BY <2>3, TurnStopsTyped
    <2>4. CASE ShellStarts
      BY <2>4, ShellStartsTyped
    <2>5. CASE ShellEnds
      BY <2>5, ShellEndsTyped
    <2>6. CASE SaveCollects
      BY <2>6, SaveCollectsTyped
    <2>7. CASE SaveWrites
      BY <2>7, SaveWritesTyped
    <2>8. CASE NewSession
      BY <2>8, NewSessionTyped
    <2>9. ASSUME NEW s \in Sessions, Resume(s) PROVE HistoryInv'
      BY <2>9, ResumeTyped
    <2>10. ASSUME NEW k \in 0 .. Everything, Rewind(k) PROVE HistoryInv'
      BY <2>10, RewindTyped
    <2>11. ASSUME NEW k \in 0 .. Everything, ChooseFork(k) PROVE HistoryInv'
      BY <2>11, ChooseForkTyped
    <2>12. CASE Crash \/ Quit
      BY <2>12, EndsTyped
    <2> QED BY <1>2, <2>1, <2>2, <2>3, <2>4, <2>5, <2>6, <2>7, <2>8, <2>9, <2>10, <2>11, <2>12 DEF Next
  <1> QED BY <1>1, <1>2

\* HistoryInv holds in every reachable state.
LEMMA HistoryInvariant == Spec => []HistoryInv
  <1>1. Init => HistoryInv
    BY HistoryInit
  <1>2. HistoryInv /\ [Next]_vars => HistoryInv'
    BY HistoryStep
  <1> QED BY <1>1, <1>2, PTL DEF Spec

\* The running turn and every list in use tell each message once and in the order
\* in which they took place, whatever is forked, rewound, cached and saved late.
THEOREM InOrderHolds == Spec => []InOrder
  <1>1. HistoryInv => InOrder
    <2> SUFFICES ASSUME HistoryInv PROVE InOrder
      OBVIOUS
    <2>1. Chronological(turn)
      BY DEF HistoryInv, OrderInv, Orderly
    <2>2. Used \subseteq Lists
      BY UsedCount DEF HistoryInv
    <2>3. \A l \in Lists : Chronological(heap[l])
      BY TypedNow DEF Heaps, Orderly
    <2> QED BY <2>1, <2>2, <2>3 DEF InOrder
  <1> QED BY <1>1, HistoryInvariant, PTL

-----------------------------------------------------------------------------
(* What is a session's own.                                                *)

\* What may be said in a session: by it, or by its ancestors.
Own == [s \in Sessions |-> {h \in Contents : \A m \in Range(h) : m.by = s \/ m \in inherited[s]}]

\* What a session shows is its own.
TranscriptApart(s) == transcript[s] \in Own[s]
\* So is what it tells the model, if it is the current one.
ContextApart(s) == s = current => heap[history] \in Own[s] /\ turn \in Own[s]
\* So is the context that is stored with it.
StoreApart(s) == stored[s] # None => heap[stored[s]] \in Own[s]
\* So is what its file holds.
FileApart(s) == disk[s] # None => disk[s].history \in Own[s] /\ disk[s].messages \in Own[s]
\* So is what a save under way will write to it.
SaveApart(s) == save # None /\ save.id = s => save.messages \in Own[s] /\ heap[save.history] \in Own[s]
\* What the cache returns for what is its own is its own.
CacheApart(s) == \A i \in DOMAIN cache : cache[i].key \in Own[s] => heap[cache[i].list] \in Own[s]

\* All that a session has is its own.
Apart(s) ==
    /\ TranscriptApart(s)
    /\ ContextApart(s)
    /\ StoreApart(s)
    /\ FileApart(s)
    /\ SaveApart(s)
    /\ CacheApart(s)

\* A running turn has its prompt, which nobody else has and the cache does not know.
TurnNew ==
    turn # <<>> => \E m \in Range(turn) : /\ m.by = current
                                          /\ \A s \in Sessions : m \notin inherited[s]
                                          /\ \A i \in DOMAIN cache : m \notin Range(cache[i].key)

\* The inductive invariant of Isolated: damaged sessions are those that one of
\* the known races has touched.
ApartInv == HistoryInv /\ TurnNew /\ \A s \in Sessions \ damaged : Apart(s)

\* The empty list belongs to every session.
LEMMA OwnEmpty == \A s \in Sessions : <<>> \in Own[s] /\ <<>> \in Own'[s]
  BY EmptyIs DEF Own

\* Some of a session's own messages are its own.
LEMMA OwnSub ==
  ASSUME NEW s \in Sessions, NEW h \in Own[s], NEW g \in Contents, Range(g) \subseteq Range(h)
  PROVE  g \in Own[s]
  BY DEF Own

\* A message more that is its own.
LEMMA OwnAppend ==
  ASSUME NEW s \in Sessions, NEW h \in Own[s], NEW m \in Message, m.by = s \/ m \in inherited[s]
  PROVE  Append(h, m) \in Own[s]
  <1>1. h \in Contents /\ \A x \in Range(h) : x.by = s \/ x \in inherited[s]
    BY DEF Own
  <1>2. Append(h, m) \in Contents /\ Range(Append(h, m)) = Range(h) \cup {m}
    BY <1>1, AppendedIs
  <1> QED BY <1>1, <1>2 DEF Own

\* The same after a step, of a message it says itself.
LEMMA OwnAppendNext ==
  ASSUME NEW s \in Sessions, NEW h \in Own'[s], NEW m \in Message, m.by = s
  PROVE  Append(h, m) \in Own'[s]
  <1>1. h \in Contents /\ \A x \in Range(h) : x.by = s \/ x \in inherited'[s]
    BY DEF Own
  <1>2. Append(h, m) \in Contents /\ Range(Append(h, m)) = Range(h) \cup {m}
    BY <1>1, AppendedIs
  <1> QED BY <1>1, <1>2 DEF Own

\* What is a session's own changes only with what it inherits.
LEMMA OwnSame == ASSUME inherited' = inherited PROVE Own' = Own
  BY DEF Own

\* The operator of the module says the same.
LEMMA OwnBy == \A s \in Sessions : \A h \in Contents : By(s, h) <=> h \in Own[s]
  <1> SUFFICES ASSUME NEW s \in Sessions, NEW h \in Contents PROVE By(s, h) <=> h \in Own[s]
    OBVIOUS
  <1>1. Range(h) = {h[i] : i \in DOMAIN h}
    BY RangeIs
  <1> QED BY <1>1 DEF By, Own

\* Every list that is named is in use, so no new one is it.
LEMMA UsedNow ==
  ASSUME HistoryInv
  PROVE  /\ history \in Used /\ history \in Lists
         /\ \A s \in Sessions : stored[s] # None => stored[s] \in Used /\ stored[s] \in Lists
         /\ \A i \in DOMAIN cache : cache[i].list \in Used /\ cache[i].list \in Lists
         /\ save # None => save.history \in Used /\ save.history \in Lists
  <1>1. Used \subseteq Lists
    BY UsedCount DEF HistoryInv
  <1>2. history \in Used
    BY DEF Used
  <1>3. \A s \in Sessions : stored[s] # None => stored[s] \in Used
    BY DEF Used, HistoryInv, HistoryType, ListsTyped, Range
  <1>4. \A i \in DOMAIN cache : cache[i].list \in Used
    BY DEF Used
  <1>5. save # None => save.history \in Used
    BY DEF Used
  <1> QED BY <1>1, <1>2, <1>3, <1>4, <1>5

\* The contents of the lists used afterwards.
LEMMA HeapNext ==
  ASSUME HistoryInv', NEW contents, Become(contents)
  PROVE  /\ heap'[history'] = contents[history'] /\ history' \in Lists
         /\ \A s \in Sessions : stored'[s] # None => heap'[stored'[s]] = contents[stored'[s]] /\ stored'[s] \in Lists
         /\ \A i \in DOMAIN cache' : heap'[cache'[i].list] = contents[cache'[i].list] /\ cache'[i].list \in Lists
         /\ save' # None => heap'[save'.history] = contents[save'.history] /\ save'.history \in Lists
  <1>0. \A l \in Lists : l \in Used' => heap'[l] = contents[l]
    BY DEF Become
  <1>2. history' \in Used' /\ history' \in Lists
    BY DEF Used, HistoryInv, HistoryType, ListsTyped
  <1>3. \A s \in Sessions : stored'[s] # None => stored'[s] \in Used' /\ stored'[s] \in Lists
    BY DEF Used, HistoryInv, HistoryType, ListsTyped, Range
  <1>4. \A i \in DOMAIN cache' : cache'[i].list \in Used' /\ cache'[i].list \in Lists
    <2>1. cache' \in Seq(CacheEntry)
      BY DEF HistoryInv, HistoryType, ListsTyped
    <2>2. \A i \in DOMAIN cache' : cache'[i] \in CacheEntry
      BY <2>1
    <2> QED BY <2>2 DEF Used, CacheEntry
  <1>5. save' # None => save'.history \in Used' /\ save'.history \in Lists
    BY DEF Used, HistoryInv, HistoryType, ListsTyped, SaveData
  <1> QED BY <1>0, <1>2, <1>3, <1>4, <1>5

\* Who does not keep a list refers to it nowhere.
LEMMA KeptNowhere ==
  ASSUME ApartInv, NEW s \in Sessions, NEW list
  PROVE  s \notin Keepers(list) <=>
            /\ stored[s] # list
            /\ save # None /\ save.id = s => save.history # list
            /\ \A i \in DOMAIN cache : cache[i].key \in Own[s] => cache[i].list # list
  <1>1. cache \in Seq(CacheEntry)
    BY DEF ApartInv, HistoryInv, HistoryType, ListsTyped
  <1>2. \A i \in DOMAIN cache : cache[i].key \in Contents
    <2>1. \A i \in DOMAIN cache : cache[i] \in CacheEntry
      BY <1>1
    <2> QED BY <2>1 DEF CacheEntry
  <1>3. \A i \in DOMAIN cache : By(s, cache[i].key) <=> cache[i].key \in Own[s]
    BY <1>2, OwnBy
  <1> QED BY <1>3 DEF Keepers

\* Nobody keeps a list that is not in use.
LEMMA KeptUsed ==
  ASSUME ApartInv, NEW list, list \in Lists, list \notin Used
  PROVE  Keepers(list) = {}
  <1> SUFFICES ASSUME NEW s \in Sessions PROVE s \notin Keepers(list)
    BY DEF Keepers
  <1>1. stored[s] # list
    BY UsedNow, ConstantsAre DEF ApartInv
  <1> QED BY <1>1, UsedNow, KeptNowhere DEF ApartInv

\* Sanitizing shows a session nothing that is not its own, unless it takes its
\* context for another one.
LEMMA CachedOwn ==
  ASSUME ApartInv, NEW s \in Sessions \ damaged, NEW h \in Orderly, h \in Own[s], ~ Mistaken(h)
  PROVE  CachedContents(h) \in Own[s]
  <1>1. h \in Contents /\ HistoryType
    BY DEF Orderly, Tellable, ApartInv, HistoryInv
  <1>2. CachedContents(h) = h \/ \E i \in DOMAIN cache : cache[i].key = h /\ CachedContents(h) = heap[cache[i].list]
    BY <1>1, CachedIs
  <1>3. CacheApart(s)
    BY DEF ApartInv, Apart
  <1> QED BY <1>2, <1>3 DEF CacheApart

-----------------------------------------------------------------------------
(* Turns, commands and saves, again.                                       *)

\* The list a turn's messages are kept in is new, and so is its entry, unless they
\* are taken for other messages.
LEMMA TurnListNew ==
  ASSUME ApartInv, turn # <<>>
  PROVE  /\ turn \in Orderly /\ turn \in Contents
         /\ CachedList(turn) \in Lists /\ CachedContents(turn) \in Contents
         /\ Mistaken(turn) <=> Entry(turn) # 0
         /\ Mistaken(turn) => CachedContents(turn) = heap[CachedList(turn)]
         /\ ~ Mistaken(turn) => CachedList(turn) \notin Used /\ CachedContents(turn) = turn
  <1>1. turn \in Orderly /\ turn \in Contents /\ HistoryType
    BY DEF ApartInv, HistoryInv, OrderInv, HistoryType, ListsTyped
  <1>2. \A i \in DOMAIN cache : cache[i].key # turn
    BY DEF ApartInv, TurnNew
  <1>3. Mistaken(turn) <=> Entry(turn) # 0
    BY <1>1, <1>2, EntryIs DEF Mistaken
  <1> QED BY <1>1, <1>2, <1>3, CachedIs

\* The entries after a turn: those before, and the one of its messages.
LEMMA TurnEntries ==
  ASSUME ApartInv, turn # <<>>, cache' = CacheAfter(turn)
  PROVE  \A i \in DOMAIN cache' : \/ Entry(turn) = 0 /\ cache'[i].key = turn /\ cache'[i].list = CachedList(turn)
                                  \/ \E j \in DOMAIN cache : cache'[i] = cache[j]
  <1>1. turn \in Contents /\ HistoryType
    BY DEF ApartInv, HistoryInv, HistoryType, ListsTyped
  <1> PICK after : after = cache'
    OBVIOUS
  <1>2. \A i \in DOMAIN after : \/ Entry(turn) = 0 /\ after[i] = [key |-> turn, list |-> CachedList(turn)]
                                \/ \E j \in DOMAIN cache : after[i] = cache[j]
    BY <1>1, CacheAfterIs
  <1> QED BY <1>2

\* Both ways a turn can end: its messages, or what is appended to them, are the
\* context.  When they are taken for other messages, the current session is damaged,
\* and so is everyone that keeps a list that changes.
LEMMA TurnOverApart ==
  ASSUME ApartInv, HistoryInv', turn # <<>>, NEW left \in Contents,
         damaged \cup Taken(turn, current) \subseteq damaged',
         ~ Mistaken(turn) => \A s \in Sessions \ damaged : turn \in Own[s] => left \in Own[s],
         \A s \in Sessions \ damaged' : left = heap[history'] \/ s \notin Keepers(history'),
         cache' = CacheAfter(turn), history' = CachedList(turn), turn' = <<>>, Become([heap EXCEPT ![history'] = left]),
         UNCHANGED <<stored, transcript, disk, current, save, inherited>>
  PROVE  ApartInv'
  <1>0. TurnNew'
    BY DEF TurnNew
  <1> DEFINE contents == [heap EXCEPT ![history'] = left]
  <1>1. Own' = Own
    BY OwnSame
  <1>2. /\ turn \in Orderly /\ turn \in Contents
        /\ history' \in Lists /\ (Mistaken(turn) <=> Entry(turn) # 0)
    BY TurnListNew
  <1>3. contents[history'] = left /\ \A l \in Used : contents[l] = heap[l] \/ (l = history' /\ left # heap[l])
    BY <1>2, TypedNow, UsedCount DEF ApartInv, HistoryInv, HistoryType, ListsTyped
  <1>4. Become(contents)
    OBVIOUS
  <1> HIDE DEF contents
  <1>5. /\ heap'[history'] = left
        /\ \A s \in Sessions : stored'[s] # None => heap'[stored'[s]] = contents[stored[s]]
        /\ save' # None => heap'[save'.history] = contents[save.history]
        /\ \A i \in DOMAIN cache' : heap'[cache'[i].list] = contents[cache'[i].list]
    BY <1>3, <1>4, HeapNext, UsedNow DEF ApartInv
  <1>6. ASSUME NEW s \in Sessions \ damaged' PROVE Apart(s)'
    <2>0. s \in Sessions \ damaged /\ Apart(s)
      BY DEF ApartInv
    <2>a. /\ stored[s] # None => contents[stored[s]] = heap[stored[s]]
          /\ save # None /\ save.id = s => contents[save.history] = heap[save.history]
          /\ \A i \in DOMAIN cache : cache[i].key \in Own[s] => contents[cache[i].list] = heap[cache[i].list]
      <3>1. CASE left = heap[history']
        BY <1>3, <3>1, UsedNow DEF ApartInv
      <3>2. CASE s \notin Keepers(history')
        BY <1>3, <3>2, UsedNow, KeptNowhere DEF ApartInv
      <3> QED BY <3>1, <3>2
    <2>b. s = current => ~ Mistaken(turn)
      BY DEF Taken
    <2>1. TranscriptApart(s)'
      BY <1>1, <2>0 DEF Apart, TranscriptApart
    <2>2. ContextApart(s)'
      <3>1. s = current => turn \in Own[s]
        BY <2>0 DEF Apart, ContextApart
      <3> QED BY <1>1, <1>5, <2>0, <2>b, <3>1, OwnEmpty DEF ContextApart
    <2>3. StoreApart(s)'
      BY <1>1, <1>5, <2>0, <2>a DEF Apart, StoreApart
    <2>4. FileApart(s)'
      BY <1>1, <2>0 DEF Apart, FileApart
    <2>5. SaveApart(s)'
      BY <1>1, <1>5, <2>0, <2>a DEF Apart, SaveApart
    <2>6. CacheApart(s)'
      <3> SUFFICES ASSUME NEW i \in DOMAIN cache', cache'[i].key \in Own'[s] PROVE heap'[cache'[i].list] \in Own'[s]
        BY DEF CacheApart
      <3>1. CASE Entry(turn) = 0 /\ cache'[i].key = turn /\ cache'[i].list = CachedList(turn)
        BY <1>1, <1>2, <1>3, <1>5, <2>0, <3>1
      <3>2. CASE \E j \in DOMAIN cache : cache'[i] = cache[j]
        <4>1. PICK j \in DOMAIN cache : cache'[i] = cache[j]
          BY <3>2
        <4>2. cache[j].list \in Used
          BY UsedNow DEF ApartInv
        <4>3. heap'[cache'[i].list] = heap[cache[j].list]
          BY <1>1, <1>5, <2>a, <4>1, <4>2
        <4> QED BY <1>1, <2>0, <4>1, <4>3 DEF Apart, CacheApart
      <3> QED BY <3>1, <3>2, TurnEntries
    <2> QED BY <2>1, <2>2, <2>3, <2>4, <2>5, <2>6 DEF Apart
  <1> QED BY <1>0, <1>6 DEF ApartInv

\* The end of a turn keeps ApartInv.
LEMMA TurnEndsApart ==
  ASSUME ApartInv, HistoryInv', TurnEnds
  PROVE  ApartInv'
  <1> PICK left : left = CachedContents(turn)
    OBVIOUS
  <1>1. turn # <<>> /\ turn \in Contents /\ left \in Contents /\ (~ Mistaken(turn) => left = turn)
    BY TurnListNew DEF TurnEnds
  <1>2. /\ cache' = CacheAfter(turn) /\ history' = CachedList(turn) /\ turn' = <<>> /\ Become([heap EXCEPT ![history'] = left])
        /\ UNCHANGED <<stored, transcript, disk, current, save, inherited>> /\ damaged' = damaged \cup Taken(turn, current)
    BY <1>1 DEF TurnEnds, forkVars
  <1>3. left = heap[history'] \/ Keepers(history') = {}
    BY <1>1, <1>2, TurnListNew, KeptUsed
  <1> QED BY <1>1, <1>2, <1>3, TurnOverApart

\* So does a stopped turn.
LEMMA TurnStopsApart ==
  ASSUME ApartInv, HistoryInv', TurnStops
  PROVE  ApartInv'
  <1>1. /\ turn # <<>> /\ turn \in Contents /\ CachedContents(turn) \in Contents
        /\ ~ Mistaken(turn) => CachedContents(turn) = turn
    BY TurnListNew DEF TurnStops
  <1> PICK m : m = Says(current, "note")
    OBVIOUS
  <1>2. m \in Message /\ m.by = current
    <2>1. current \in Sessions /\ made + 1 \in 1 .. MaxMessages
      BY TypedNow, ConstantsAre DEF TurnStops, ApartInv
    <2> QED BY <2>1 DEF Says, Message
  <1> PICK left : left = Append(CachedContents(turn), m)
    OBVIOUS
  <1>3. left \in Contents
    BY <1>1, <1>2, AppendedIs
  <1>4. ASSUME ~ Mistaken(turn), NEW s \in Sessions \ damaged, turn \in Own[s] PROVE left \in Own[s]
    <2>1. s = current
      <3>1. PICK x \in Range(turn) : x.by = current /\ \A y \in Sessions : x \notin inherited[y]
        BY <1>1 DEF ApartInv, TurnNew
      <3>2. x.by = s \/ x \in inherited[s]
        BY <1>4 DEF Own
      <3> QED BY <3>1, <3>2
    <2> QED BY <1>1, <1>2, <1>4, <2>1, OwnAppend
  <1>5. /\ cache' = CacheAfter(turn) /\ history' = CachedList(turn) /\ turn' = <<>> /\ Become([heap EXCEPT ![history'] = left])
        /\ UNCHANGED <<stored, transcript, disk, current, save, inherited>>
        /\ damaged' = damaged \cup Taken(turn, current) \cup Keepers(history')
    BY <1>1 DEF TurnStops, forkVars
  <1> QED BY <1>1, <1>3, <1>4, <1>5, TurnOverApart

\* The command's message goes to the context's list: every session that keeps
\* that list and is not the command's is damaged.
LEMMA ShellEndsApart ==
  ASSUME ApartInv, HistoryInv', ShellEnds
  PROVE  ApartInv'
  <1>1. /\ UNCHANGED <<history, turn, cache, stored, transcript, disk, current, save, inherited>>
        /\ damaged' = damaged \cup (Keepers(history) \ {current}) \cup (IF shell \in Range(transcript[current]) THEN {} ELSE {current})
        /\ Become([heap EXCEPT ![history] = Append(heap[history], shell)])
    BY DEF ShellEnds, forkVars
  <1>2. TurnNew'
    BY <1>1 DEF ApartInv, TurnNew
  <1>3. Own' = Own
    BY <1>1, OwnSame
  <1> DEFINE h == heap[history]
             g == Append(h, shell)
             contents == [heap EXCEPT ![history] = g]
  <1>4. contents[history] = g /\ \A l \in Lists : l # history => contents[l] = heap[l]
    BY TypedNow, UsedNow DEF ApartInv, HistoryInv, HistoryType, ListsTyped
  <1>5. Become(contents)
    BY <1>1
  <1>6. shell \in Message /\ h \in Contents
    BY TypedNow DEF ShellEnds, ApartInv, HistoryInv, HistoryType, SessionsTyped
  <1> HIDE DEF contents, g, h
  <1>7. /\ heap'[history] = g
        /\ \A s \in Sessions : stored'[s] # None => heap'[stored'[s]] = contents[stored[s]] /\ stored[s] \in Lists
        /\ save' # None => heap'[save'.history] = contents[save.history] /\ save.history \in Lists
        /\ \A i \in DOMAIN cache' : heap'[cache'[i].list] = contents[cache[i].list] /\ cache[i].list \in Lists
    BY <1>1, <1>4, <1>5, HeapNext, UsedNow DEF ApartInv
  <1>8. ASSUME NEW s \in Sessions \ damaged' PROVE Apart(s)'
    <2>0. s \in Sessions \ damaged /\ Apart(s)
      BY <1>1 DEF ApartInv
    <2>1. s = current => g \in Own[s]
      <3> SUFFICES ASSUME s = current PROVE g \in Own[s]
        OBVIOUS
      <3>1. shell \in Range(transcript[s])
        BY <1>1
      <3>2. shell.by = s \/ shell \in inherited[s]
        BY <2>0, <3>1 DEF Apart, TranscriptApart, Own
      <3>3. h \in Own[s]
        BY <2>0 DEF Apart, ContextApart, h
      <3> QED BY <1>6, <3>2, <3>3, OwnAppend DEF g
    <2>2. s # current => s \notin Keepers(history)
      BY <1>1
    <2>3. TranscriptApart(s)'
      BY <1>1, <1>3, <2>0 DEF Apart, TranscriptApart
    <2>4. ContextApart(s)'
      BY <1>1, <1>3, <1>7, <2>0, <2>1 DEF Apart, ContextApart
    <2>5. StoreApart(s)'
      <3>1. s # current => stored[s] # history
        BY <2>2, KeptNowhere
      <3> QED BY <1>1, <1>3, <1>4, <1>7, <2>0, <2>1, <3>1 DEF Apart, StoreApart
    <2>6. FileApart(s)'
      BY <1>1, <1>3, <2>0 DEF Apart, FileApart
    <2>7. SaveApart(s)'
      <3>1. s # current /\ save # None /\ save.id = s => save.history # history
        BY <2>2, KeptNowhere
      <3> QED BY <1>1, <1>3, <1>4, <1>7, <2>0, <2>1, <3>1 DEF Apart, SaveApart
    <2>8. CacheApart(s)'
      <3> SUFFICES ASSUME NEW i \in DOMAIN cache, cache[i].key \in Own[s] PROVE heap'[cache'[i].list] \in Own[s]
        BY <1>1, <1>3 DEF CacheApart
      <3>1. CASE cache[i].list # history
        BY <1>1, <1>4, <1>7, <2>0, <3>1 DEF Apart, CacheApart
      <3>2. CASE cache[i].list = history
        <4>1. s = current
          BY <2>2, <3>2, KeptNowhere
        <4> QED BY <1>1, <1>4, <1>7, <2>1, <3>2, <4>1
      <3> QED BY <3>1, <3>2
    <2> QED BY <2>3, <2>4, <2>5, <2>6, <2>7, <2>8 DEF Apart
  <1> QED BY <1>2, <1>8 DEF ApartInv

\* A save copies what is the current session's own.
LEMMA SaveCollectsApart ==
  ASSUME ApartInv, HistoryInv', SaveCollects
  PROVE  ApartInv'
  <1>1. /\ UNCHANGED <<heap, history, turn, cache, stored, transcript, disk, current, inherited>>
        /\ save' = [id |-> current, messages |-> transcript[current], history |-> history] /\ damaged \subseteq damaged'
    BY DEF SaveCollects, forkVars
  <1>2. TurnNew'
    BY <1>1 DEF ApartInv, TurnNew
  <1>3. Own' = Own
    BY <1>1, OwnSame
  <1>4. ASSUME NEW s \in Sessions \ damaged' PROVE Apart(s)'
    <2>0. s \in Sessions \ damaged /\ Apart(s)
      BY <1>1 DEF ApartInv
    <2>1. SaveApart(s)'
      BY <1>1, <1>3, <2>0 DEF Apart, SaveApart, TranscriptApart, ContextApart
    <2> QED BY <1>1, <1>3, <2>0, <2>1 DEF Apart, TranscriptApart, ContextApart, StoreApart, FileApart, CacheApart
  <1> QED BY <1>2, <1>4 DEF ApartInv

\* A save that ends in another session, or with an old transcript, damages both.
LEMMA SaveWritesApart ==
  ASSUME ApartInv, HistoryInv', SaveWrites
  PROVE  ApartInv'
  <1>1. /\ UNCHANGED <<history, turn, cache, current, inherited>> /\ Writes(save.messages, save.history) /\ save # None /\ save' = None
        /\ transcript' = [transcript EXCEPT ![current] = save.messages]
        /\ stored' = [stored EXCEPT ![current] = Replacing(save.history)]
        /\ damaged' = IF save.id = current /\ save.messages = transcript[current] THEN damaged ELSE damaged \cup {save.id, current}
        /\ Become(heap)
    BY DEF SaveWrites, forkVars
  <1>2. TurnNew'
    BY <1>1 DEF ApartInv, TurnNew
  <1>3. Own' = Own
    BY <1>1, OwnSame
  <1>4. /\ heap'[history] = heap[history]
        /\ \A s \in Sessions : stored'[s] # None => heap'[stored'[s]] = heap[stored'[s]]
        /\ \A i \in DOMAIN cache : heap'[cache[i].list] = heap[cache[i].list]
    BY <1>1, HeapNext DEF ApartInv
  <1>5. transcript \in [Sessions -> Contents] /\ stored \in [Sessions -> Lists \cup {None}] /\ disk \in [Sessions -> File \cup {None}] /\ current \in Sessions
    BY TypedNow DEF ApartInv, HistoryInv, HistoryType, ListsTyped, SessionsTyped
  <1> PICK list : list = Replacing(save.history)
    OBVIOUS
  <1>7. list = save.history \/ list = stored[current]
    BY DEF Replacing
  <1>6. ASSUME NEW s \in Sessions \ damaged' PROVE Apart(s)'
    <2>0. s \in Sessions \ damaged /\ Apart(s)
      BY <1>1 DEF ApartInv
    <2>1. s = current => save.id = s /\ save.messages \in Own[s] /\ heap[list] \in Own[s]
      BY <1>1, <1>7, <2>0, TypedNow, ConstantsAre DEF ApartInv, Apart, SaveApart, StoreApart
    <2>2. TranscriptApart(s)'
      BY <1>1, <1>3, <1>5, <2>0, <2>1 DEF Apart, TranscriptApart
    <2>3. ContextApart(s)'
      BY <1>1, <1>3, <1>4, <2>0 DEF Apart, ContextApart
    <2>4. StoreApart(s)'
      <3>1. stored'[s] = stored[s] \/ (s = current /\ stored'[s] = list)
        BY <1>1, <1>5
      <3> QED BY <1>3, <1>4, <2>0, <2>1, <3>1 DEF Apart, StoreApart
    <2>5. FileApart(s)'
      <3> DEFINE file == [messages |-> save.messages, history |-> heap[list]]
      <3>1. disk' = disk \/ disk' = [disk EXCEPT ![current] = file]
        BY <1>1 DEF Writes
      <3>2. file.messages = save.messages /\ file.history = heap[list]
        OBVIOUS
      <3> HIDE DEF file
      <3>3. disk'[s] = disk[s] \/ (s = current /\ disk'[s] = file)
        BY <1>5, <3>1
      <3> QED BY <1>3, <2>0, <2>1, <3>2, <3>3 DEF Apart, FileApart
    <2>6. SaveApart(s)'
      BY <1>1 DEF SaveApart
    <2>7. CacheApart(s)'
      BY <1>1, <1>3, <1>4, <2>0 DEF Apart, CacheApart
    <2> QED BY <2>2, <2>3, <2>4, <2>5, <2>6, <2>7 DEF Apart
  <1> QED BY <1>2, <1>6 DEF ApartInv

-----------------------------------------------------------------------------
(* Sessions, again.                                                        *)

\* A new session's list is a new one, and the emptied list has nothing of another
\* session.
LEMMA NewSessionApart ==
  ASSUME ApartInv, HistoryInv', NewSession
  PROVE  ApartInv'
  <1> DEFINE n == opened + 1
  <1>1. /\ UNCHANGED <<history, turn, cache, transcript, disk, save, inherited>> /\ turn = <<>>
        /\ current' = n /\ stored' = [stored EXCEPT ![n] = Fresh({})] /\ damaged \subseteq damaged'
        /\ Become([heap EXCEPT ![history] = <<>>, ![stored'[n]] = <<>>])
    BY DEF NewSession, Command
  <1>2. TurnNew'
    BY <1>1 DEF TurnNew
  <1>3. Own' = Own
    BY <1>1, OwnSame
  <1> DEFINE contents == [heap EXCEPT ![history] = <<>>, ![stored'[n]] = <<>>]
  <1>4. contents[history] = <<>> /\ \A l \in Lists : (contents[l] = heap[l] \/ contents[l] = <<>>) /\ (l = stored'[n] => contents[l] = <<>>)
    BY TypedNow, UsedNow DEF ApartInv, HistoryInv, HistoryType, ListsTyped
  <1>5. Become(contents)
    BY <1>1
  <1> HIDE DEF contents
  <1>6. stored \in [Sessions -> Lists \cup {None}]
    BY DEF ApartInv, HistoryInv, HistoryType, ListsTyped
  <1> HIDE DEF n
  <1>7. /\ heap'[history] = <<>>
        /\ \A s \in Sessions : stored'[s] # None => heap'[stored'[s]] = contents[stored'[s]] /\ stored'[s] \in Lists
        /\ save' # None => heap'[save'.history] = contents[save.history] /\ save.history \in Lists
        /\ \A i \in DOMAIN cache' : heap'[cache'[i].list] = contents[cache[i].list] /\ cache[i].list \in Lists
    BY <1>1, <1>4, <1>5, HeapNext, UsedNow DEF ApartInv
  <1>8. ASSUME NEW s \in Sessions \ damaged' PROVE Apart(s)'
    <2>0. s \in Sessions \ damaged /\ Apart(s) /\ <<>> \in Own[s]
      BY <1>1, OwnEmpty DEF ApartInv
    <2>2. TranscriptApart(s)'
      BY <1>1, <1>3, <2>0 DEF Apart, TranscriptApart
    <2>3. ContextApart(s)'
      BY <1>1, <1>3, <1>7, <2>0 DEF Apart, ContextApart
    <2>4. StoreApart(s)'
      <3>1. CASE s = n
        BY <1>3, <1>4, <1>7, <2>0, <3>1 DEF StoreApart
      <3>2. CASE s # n
        <4>1. stored'[s] = stored[s]
          BY <1>1, <1>6, <3>2
        <4> QED BY <1>3, <1>4, <1>7, <2>0, <4>1 DEF Apart, StoreApart
      <3> QED BY <3>1, <3>2
    <2>5. FileApart(s)'
      BY <1>1, <1>3, <2>0 DEF Apart, FileApart
    <2>6. SaveApart(s)'
      BY <1>1, <1>3, <1>4, <1>7, <2>0 DEF Apart, SaveApart
    <2>7. CacheApart(s)'
      BY <1>1, <1>3, <1>4, <1>7, <2>0 DEF Apart, CacheApart
    <2> QED BY <2>2, <2>3, <2>4, <2>5, <2>6, <2>7 DEF Apart
  <1> QED BY <1>2, <1>8 DEF ApartInv

\* A session opened again has its own list, or its file's contents in a new one.
LEMMA ResumeApart ==
  ASSUME ApartInv, HistoryInv', NEW r \in Sessions, Resume(r)
  PROVE  ApartInv'
  <1>1. /\ UNCHANGED <<turn, cache, disk, save, inherited>> /\ turn = <<>>
        /\ current' = r /\ damaged \subseteq damaged'
    BY DEF Resume, Command
  <1>2. TurnNew'
    BY <1>1 DEF TurnNew
  <1>3. Own' = Own
    BY <1>1, OwnSame
  <1>4. /\ stored \in [Sessions -> Lists \cup {None}] /\ transcript \in [Sessions -> Contents]
        /\ heap \in [Lists -> Contents]
    BY DEF ApartInv, HistoryInv, HistoryType, ListsTyped, SessionsTyped
  <1>5. CASE stored[r] # None
    <2>1. history' = stored[r] /\ UNCHANGED <<stored, transcript>> /\ Become(heap)
      BY <1>5 DEF Resume
    <2>2. /\ heap'[history'] = heap[stored[r]]
          /\ \A s \in Sessions : stored'[s] # None => heap'[stored'[s]] = heap[stored[s]]
          /\ save' # None => heap'[save'.history] = heap[save.history]
          /\ \A i \in DOMAIN cache' : heap'[cache'[i].list] = heap[cache[i].list]
      BY <1>1, <2>1, HeapNext DEF ApartInv
    <2>3. ASSUME NEW s \in Sessions \ damaged' PROVE Apart(s)'
      <3>0. s \in Sessions \ damaged /\ Apart(s) /\ <<>> \in Own[s]
        BY <1>1, OwnEmpty DEF ApartInv
      <3>1. ContextApart(s)'
        BY <1>1, <1>3, <1>5, <2>2, <3>0 DEF Apart, ContextApart, StoreApart
      <3>2. TranscriptApart(s)' /\ StoreApart(s)' /\ FileApart(s)'
        BY <1>1, <1>3, <2>1, <2>2, <3>0 DEF Apart, TranscriptApart, StoreApart, FileApart
      <3>3. SaveApart(s)' /\ CacheApart(s)'
        BY <1>1, <1>3, <2>2, <3>0 DEF Apart, SaveApart, CacheApart
      <3> QED BY <3>1, <3>2, <3>3 DEF Apart
    <2> QED BY <1>2, <2>3 DEF ApartInv
  <1>6. CASE stored[r] = None
    <2>1. /\ disk[r] # None /\ history' = Fresh({}) /\ stored' = [stored EXCEPT ![r] = history']
          /\ transcript' = [transcript EXCEPT ![r] = disk[r].messages]
          /\ Become([heap EXCEPT ![history'] = disk[r].history])
      BY <1>6 DEF Resume
    <2>2. history' \in Lists /\ history' \notin Used
      BY <2>1, FreshOne DEF ApartInv, HistoryInv
    <2> DEFINE contents == [heap EXCEPT ![history'] = disk[r].history]
    <2>3. contents[history'] = disk[r].history /\ \A l \in Used : contents[l] = heap[l]
      BY <1>4, <2>2, UsedCount DEF ApartInv, HistoryInv
    <2>4. Become(contents)
      BY <2>1
    <2> HIDE DEF contents
    <2>5. \A s \in Sessions : stored'[s] = IF s = r THEN history' ELSE stored[s]
      BY <1>4, <2>1
    <2>6. /\ heap'[history'] = disk[r].history
          /\ \A s \in Sessions : stored'[s] # None => heap'[stored'[s]] = IF s = r THEN disk[r].history ELSE heap[stored[s]]
          /\ save' # None => heap'[save'.history] = heap[save.history]
          /\ \A i \in DOMAIN cache' : heap'[cache'[i].list] = heap[cache[i].list]
      <3>1. HistoryInv /\ HistoryInv'
        BY DEF ApartInv
      <3>2. heap'[history'] = disk[r].history
        BY <2>3, <2>4, <3>1, HeapNext
      <3>3. \A s \in Sessions : stored'[s] # None => heap'[stored'[s]] = contents[stored'[s]]
        BY <2>4, <3>1, HeapNext
      <3>4. save # None => heap'[save.history] = contents[save.history]
        BY <1>1, <2>4, <3>1, HeapNext
      <3>5. \A i \in DOMAIN cache : heap'[cache[i].list] = contents[cache[i].list]
        BY <1>1, <2>4, <3>1, HeapNext
      <3> QED BY <1>1, <2>3, <2>5, <3>1, <3>2, <3>3, <3>4, <3>5, UsedNow
    <2>7. ASSUME NEW s \in Sessions \ damaged' PROVE Apart(s)'
      <3>0. s \in Sessions \ damaged /\ Apart(s) /\ <<>> \in Own[s]
        BY <1>1, OwnEmpty DEF ApartInv
      <3>1. s = r => disk[r].history \in Own[s] /\ disk[r].messages \in Own[s]
        BY <2>1, <3>0 DEF Apart, FileApart
      <3>2. ContextApart(s)'
        BY <1>1, <1>3, <2>6, <3>0, <3>1 DEF ContextApart
      <3>3. TranscriptApart(s)'
        BY <1>3, <1>4, <2>1, <3>0, <3>1 DEF Apart, TranscriptApart
      <3>4. StoreApart(s)'
        BY <1>3, <2>5, <2>6, <3>0, <3>1 DEF Apart, StoreApart
      <3>5. FileApart(s)'
        BY <1>1, <1>3, <3>0 DEF Apart, FileApart
      <3>6. SaveApart(s)' /\ CacheApart(s)'
        BY <1>1, <1>3, <2>6, <3>0 DEF Apart, SaveApart, CacheApart
      <3> QED BY <3>2, <3>3, <3>4, <3>5, <3>6 DEF Apart
    <2> QED BY <1>2, <2>7 DEF ApartInv
  <1> QED BY <1>5, <1>6

\* Cutting the context leaves sessions apart.
LEMMA TruncatesApart ==
  ASSUME ApartInv, HistoryInv', NEW k, Truncates(k), turn = <<>>, damaged \subseteq damaged',
         UNCHANGED <<turn, cache, stored, disk, current, save, inherited>>,
         \A s \in Sessions : transcript'[s] \in Contents /\ Range(transcript'[s]) \subseteq Range(transcript[s])
  PROVE  ApartInv'
  <1>2. TurnNew'
    BY DEF TurnNew
  <1>3. Own' = Own
    BY OwnSame
  <1>4. heap \in [Lists -> Contents] /\ HistoryInv /\ HistoryInv'
    BY DEF ApartInv, HistoryInv, HistoryType, ListsTyped
  <1>5. \E g \in Contents :
           /\ Range(g) \subseteq Range(heap[history]) /\ heap'[history'] = g
           /\ \A s \in Sessions : stored'[s] # None => heap'[stored'[s]] \in {heap[stored[s]], <<>>}
           /\ save' # None => heap'[save'.history] \in {heap[save.history], <<>>}
           /\ \A i \in DOMAIN cache' : heap'[cache'[i].list] \in {heap[cache[i].list], <<>>}
    <2>1. CASE history' = history /\ Become([heap EXCEPT ![history] = <<>>])
      <3> DEFINE contents == [heap EXCEPT ![history] = <<>>]
      <3>1. contents[history] = <<>> /\ \A l \in Lists : contents[l] \in {heap[l], <<>>}
        BY <1>4, UsedNow
      <3>2. Become(contents)
        BY <2>1
      <3> HIDE DEF contents
      <3>3. heap'[history'] = <<>>
        BY <1>4, <2>1, <3>1, <3>2, HeapNext
      <3>4. \A s \in Sessions : stored'[s] # None => heap'[stored'[s]] \in {heap[stored[s]], <<>>}
        BY <1>4, <3>1, <3>2, HeapNext
      <3>5. save' # None => heap'[save'.history] \in {heap[save.history], <<>>}
        BY <1>4, <3>1, <3>2, HeapNext
      <3>6. \A i \in DOMAIN cache' : heap'[cache'[i].list] \in {heap[cache[i].list], <<>>}
        BY <1>4, <3>1, <3>2, HeapNext
      <3> QED BY <3>3, <3>4, <3>5, <3>6, EmptyIs
    <2>2. ASSUME history' \in Lists, history' \notin Used, NEW kept \in Orderly, Range(kept) \subseteq Range(heap[history]),
                 Become([heap EXCEPT ![history'] = kept])
          PROVE  /\ kept \in Contents /\ heap'[history'] = kept
                 /\ \A s \in Sessions : stored'[s] # None => heap'[stored'[s]] = heap[stored[s]]
                 /\ save' # None => heap'[save'.history] = heap[save.history]
                 /\ \A i \in DOMAIN cache' : heap'[cache'[i].list] = heap[cache[i].list]
      <3> DEFINE contents == [heap EXCEPT ![history'] = kept]
      <3>1. contents[history'] = kept /\ \A l \in Used : contents[l] = heap[l]
        BY <1>4, <2>2, UsedCount DEF HistoryInv
      <3>2. Become(contents)
        BY <2>2
      <3> HIDE DEF contents
      <3>3. heap'[history'] = kept
        BY <1>4, <3>1, <3>2, HeapNext
      <3>4. \A s \in Sessions : stored'[s] # None => heap'[stored'[s]] = heap[stored[s]]
        BY <1>4, <3>1, <3>2, HeapNext, UsedNow
      <3>5. save' # None => heap'[save'.history] = heap[save.history]
        BY <1>4, <3>1, <3>2, HeapNext, UsedNow
      <3>6. \A i \in DOMAIN cache' : heap'[cache'[i].list] = heap[cache[i].list]
        BY <1>4, <3>1, <3>2, HeapNext, UsedNow
      <3> QED BY <3>3, <3>4, <3>5, <3>6 DEF Orderly, Tellable
    <2>3. \/ history' = history /\ Become([heap EXCEPT ![history] = <<>>])
          \/ /\ history' \in Lists /\ history' \notin Used
             /\ \E kept \in Orderly : /\ Become([heap EXCEPT ![history'] = kept])
                                      /\ Range(kept) \subseteq Range(heap[history])
      BY <1>4, TruncatesDoes
    <2>4. CASE /\ history' \in Lists /\ history' \notin Used
               /\ \E kept \in Orderly : /\ Become([heap EXCEPT ![history'] = kept])
                                        /\ Range(kept) \subseteq Range(heap[history])
      <3> PICK kept \in Orderly : /\ Become([heap EXCEPT ![history'] = kept])
                                  /\ Range(kept) \subseteq Range(heap[history])
        BY <2>4
      <3>1. /\ kept \in Contents /\ heap'[history'] = kept
            /\ \A s \in Sessions : stored'[s] # None => heap'[stored'[s]] = heap[stored[s]]
            /\ save' # None => heap'[save'.history] = heap[save.history]
            /\ \A i \in DOMAIN cache' : heap'[cache'[i].list] = heap[cache[i].list]
        BY <2>2, <2>4
      <3> QED BY <3>1
    <2> QED BY <2>1, <2>3, <2>4
  <1> PICK g \in Contents :
           /\ Range(g) \subseteq Range(heap[history]) /\ heap'[history'] = g
           /\ \A s \in Sessions : stored'[s] # None => heap'[stored'[s]] \in {heap[stored[s]], <<>>}
           /\ save' # None => heap'[save'.history] \in {heap[save.history], <<>>}
           /\ \A i \in DOMAIN cache' : heap'[cache'[i].list] \in {heap[cache[i].list], <<>>}
    BY <1>5
  <1>6. ASSUME NEW s \in Sessions \ damaged' PROVE Apart(s)'
    <2>0. s \in Sessions \ damaged /\ Apart(s) /\ <<>> \in Own[s]
      BY OwnEmpty DEF ApartInv
    <2>1. TranscriptApart(s)'
      BY <1>3, <2>0, OwnSub DEF Apart, TranscriptApart
    <2>2. ContextApart(s)'
      <3>1. s = current => g \in Own[s]
        BY <2>0, OwnSub DEF Apart, ContextApart
      <3> QED BY <1>3, <2>0, <3>1 DEF ContextApart
    <2>3. StoreApart(s)'
      BY <1>3, <2>0 DEF Apart, StoreApart
    <2>4. FileApart(s)'
      BY <1>3, <2>0 DEF Apart, FileApart
    <2>5. SaveApart(s)'
      BY <1>3, <2>0 DEF Apart, SaveApart
    <2>6. CacheApart(s)'
      BY <1>3, <2>0 DEF Apart, CacheApart
    <2> QED BY <2>1, <2>2, <2>3, <2>4, <2>5, <2>6 DEF Apart
  <1> QED BY <1>2, <1>6 DEF ApartInv

\* A rewind keeps ApartInv.
LEMMA RewindApart ==
  ASSUME ApartInv, HistoryInv', NEW k \in 0 .. Everything, Rewind(k)
  PROVE  ApartInv'
  <1>1. /\ UNCHANGED <<turn, cache, stored, disk, current, save, inherited>> /\ turn = <<>> /\ Truncates(k)
        /\ transcript' = [transcript EXCEPT ![current] = SubSeq(transcript[current], 1, k)] /\ k < Len(transcript[current])
    BY DEF Rewind, Command
  <1>2. damaged \subseteq damaged'
    BY <1>1 DEF Truncates
  <1>3. transcript \in [Sessions -> Contents] /\ current \in Sessions
    BY TypedNow DEF ApartInv, HistoryInv, HistoryType, SessionsTyped
  <1>4. SubSeq(transcript[current], 1, k) \in Contents /\ Range(SubSeq(transcript[current], 1, k)) \subseteq Range(transcript[current])
    <2>1. transcript[current] \in Contents /\ k \in Int /\ Len(transcript[current]) \in Nat
      BY <1>3, ConstantsAre DEF Contents
    <2>2. k <= Len(transcript[current])
      BY <1>1, <2>1
    <2> QED BY <2>1, <2>2, PrefixIs
  <1>5. \A s \in Sessions : transcript'[s] \in Contents /\ Range(transcript'[s]) \subseteq Range(transcript[s])
    BY <1>1, <1>3, <1>4
  <1> QED BY <1>1, <1>2, <1>5, TruncatesApart

\* The choice of a fork point changes no message.
LEMMA ChooseForkApart ==
  ASSUME ApartInv, HistoryInv', NEW k \in 0 .. Everything, ChooseFork(k)
  PROVE  ApartInv'
  <1>1. UNCHANGED <<turn, cache, stored, disk, current, save, inherited, transcript>> /\ turn = <<>>
    BY DEF ChooseFork
  <1>2. \A s \in Sessions : transcript'[s] \in Contents /\ Range(transcript'[s]) \subseteq Range(transcript[s])
    BY <1>1 DEF ApartInv, HistoryInv, HistoryType, SessionsTyped
  <1>3. CASE k # Everything
    <2>1. Truncates(k) /\ damaged \subseteq damaged'
      BY <1>3 DEF ChooseFork, Truncates
    <2> QED BY <1>1, <1>2, <2>1, TruncatesApart
  <1>4. CASE k = Everything
    <2>1. UNCHANGED <<heap, history>> /\ damaged \subseteq damaged'
      BY <1>4 DEF ChooseFork
    <2>2. Own' = Own /\ TurnNew'
      BY <1>1, OwnSame DEF TurnNew
    <2>3. ASSUME NEW s \in Sessions \ damaged' PROVE Apart(s)'
      <3>1. Apart(s)
        BY <2>1 DEF ApartInv
      <3> QED BY <1>1, <2>1, <2>2, <3>1 DEF Apart, TranscriptApart, ContextApart, StoreApart, FileApart, SaveApart, CacheApart
    <2> QED BY <2>2, <2>3 DEF ApartInv
  <1> QED BY <1>3, <1>4

\* The end of the process: what the exit writes is the current session's own.
LEMMA EndsApart ==
  ASSUME ApartInv, HistoryInv', Crash \/ Quit
  PROVE  ApartInv'
  <1> DEFINE n == opened + 1
             file == [messages |-> transcript[current], history |-> heap[Replacing(history)]]
  <1>1. /\ current' = n /\ heap' = [l \in Lists |-> <<>>] /\ history' = FirstList /\ turn' = <<>> /\ cache' = <<>> /\ save' = None
        /\ stored' = [s \in Sessions |-> IF s = n THEN SecondList ELSE None] /\ transcript' = [s \in Sessions |-> <<>>]
        /\ inherited' = inherited /\ damaged \subseteq damaged'
        /\ disk' = disk \/ disk' = [disk EXCEPT ![current] = file]
    BY DEF Crash, Quit, Restarts, Writes
  <1>2. TurnNew'
    BY <1>1 DEF TurnNew
  <1>3. Own' = Own
    BY <1>1, OwnSame
  <1>4. disk \in [Sessions -> File \cup {None}] /\ current \in Sessions
    BY TypedNow DEF ApartInv, HistoryInv, HistoryType, SessionsTyped
  <1>5. file.messages = transcript[current] /\ file.history = heap[Replacing(history)]
    OBVIOUS
  <1> HIDE DEF n, file
  <1>6. ASSUME NEW s \in Sessions \ damaged' PROVE Apart(s)'
    <2>0. s \in Sessions \ damaged /\ Apart(s) /\ <<>> \in Own[s]
      BY <1>1, OwnEmpty DEF ApartInv
    <2>1. TranscriptApart(s)'
      BY <1>1, <1>3, <2>0 DEF TranscriptApart
    <2>2. ContextApart(s)'
      BY <1>1, <1>3, <2>0, FirstLists DEF ContextApart
    <2>3. StoreApart(s)'
      BY <1>1, <1>3, <2>0, FirstLists DEF StoreApart
    <2>4. FileApart(s)'
      <3>1. disk'[s] = disk[s] \/ (s = current /\ disk'[s] = file)
        BY <1>1, <1>4
      <3>2. s = current => transcript[current] \in Own[s] /\ heap[Replacing(history)] \in Own[s]
        BY <2>0, TypedNow, ConstantsAre DEF ApartInv, Apart, TranscriptApart, ContextApart, StoreApart, Replacing
      <3> QED BY <1>3, <1>5, <2>0, <3>1, <3>2 DEF Apart, FileApart
    <2>5. SaveApart(s)'
      BY <1>1 DEF SaveApart
    <2>6. CacheApart(s)'
      <3>1. DOMAIN cache' = {}
        BY <1>1, EmptyIs
      <3> QED BY <3>1 DEF CacheApart
    <2> QED BY <2>1, <2>2, <2>3, <2>4, <2>5, <2>6 DEF Apart
  <1> QED BY <1>2, <1>6 DEF ApartInv

-----------------------------------------------------------------------------
(* Forks, and Isolated.                                                    *)

\* Who a session is once a fork may have been made: the fork has what its parent had.
LEMMA ForksOwn ==
  ASSUME ApartInv, NEW list, Forks(list), Damaged \subseteq damaged'
  PROVE  /\ damaged \subseteq damaged'
         /\ current' \in Sessions
         /\ current' \notin damaged' => current \notin damaged
         /\ \A s \in Sessions : s # current' => Own'[s] = Own[s]
         /\ \A h \in Tellable : h \in Own'[current'] <=> h \in Own[current]
         /\ pending # None => current' > opened
         /\ \A s \in Sessions : \A m \in inherited'[s] : m.at <= made
  <1>1. current \in Sessions /\ opened \in Nat /\ current' \in Sessions /\ pending # None => current' = opened + 1
    BY TypedNow, ForksOpens DEF ApartInv
  <1>2. \A s \in Sessions : \A m \in inherited[s] : m.at <= made
    BY DEF ApartInv, HistoryInv, OrderInv, Told
  <1>3. CASE pending = None
    <2>1. UNCHANGED <<current, inherited>> /\ damaged \subseteq damaged'
      BY <1>3 DEF Forks, Damaged
    <2>2. Own' = Own
      BY <2>1, OwnSame
    <2> QED BY <1>2, <1>3, <2>1, <2>2, TypedNow DEF ApartInv
  <1>4. CASE pending # None
    <2> DEFINE told == inherited[current] \cup {m \in Message : m.by = current /\ m.at <= made}
    <2> PICK n : n = current'
      OBVIOUS
    <2>0. opened \in Nat /\ n = opened + 1 /\ n \in Sessions /\ n > opened /\ current \in Sessions
      BY <1>4, TypedNow, ForksOpens DEF ApartInv
    <2>1. /\ damaged \subseteq damaged' /\ (current \in damaged => n \in damaged')
          /\ inherited' = [inherited EXCEPT ![n] = told]
      BY <1>4, <2>0 DEF Forks, Damaged
    <2>2. inherited \in [Sessions -> SUBSET Message]
      BY DEF ApartInv, HistoryInv, HistoryType, SessionsTyped
    <2>3. inherited'[n] = told /\ \A s \in Sessions : s # n => inherited'[s] = inherited[s]
      BY <2>0, <2>1, <2>2
    <2>4. \A s \in Sessions : s # n => Own'[s] = Own[s]
      BY <2>3 DEF Own
    <2>5. ASSUME NEW h \in Tellable PROVE h \in Own'[n] <=> h \in Own[current]
      <3>1. h \in Contents /\ \A m \in Range(h) : m \in Message /\ m.by <= opened /\ m.at <= made
        BY RangeIs DEF Tellable, Told
      <3>2. \A m \in Range(h) : m.by # n
        BY <2>0, <3>1
      <3>3. \A m \in Range(h) : m \in told <=> (m.by = current \/ m \in inherited[current])
        BY <3>1
      <3>4. h \in Own'[n] <=> \A m \in Range(h) : m.by = n \/ m \in inherited'[n]
        BY <2>0, <3>1 DEF Own
      <3>5. h \in Own[current] <=> \A m \in Range(h) : m.by = current \/ m \in inherited[current]
        BY <2>0, <3>1 DEF Own
      <3> HIDE DEF told
      <3> QED BY <2>3, <3>2, <3>3, <3>4, <3>5
    <2>6. \A s \in Sessions : \A m \in inherited'[s] : m.at <= made
      <3>1. \A m \in told : m.at <= made
        BY <1>2, <2>0
      <3> HIDE DEF told
      <3> QED BY <1>2, <2>3, <3>1
    <2> HIDE DEF told
    <2> QED BY <2>0, <2>1, <2>4, <2>5, <2>6
  <1> QED BY <1>3, <1>4

\* What a prompt or a command does to the sessions when it may make a fork first.  The
\* heap keeps the lists that were in use, the fork's holds what was kept.
LEMMA ForksApart ==
  ASSUME ApartInv, HistoryInv', NEW list, Forks(list), Damaged \subseteq damaged', pending # None => list \in Lists,
         NEW contents, pending # None => contents[list] = KeptHistory, \A l \in Used : contents[l] = heap[l], Become(contents),
         NEW m \in Message, m.by = current', transcript' = [transcript EXCEPT ![current'] = Append(KeptTranscript, m)],
         save' = save, NEW s \in Sessions \ damaged'
  PROVE  TranscriptApart(s)' /\ StoreApart(s)' /\ FileApart(s)' /\ SaveApart(s)'
  <1>0. HistoryInv /\ (pending # None => opened < MaxSessions)
    BY DEF ApartInv, HistoryInv, HistoryType, OpenedOnly
  <1>1. /\ damaged \subseteq damaged' /\ current' \in Sessions
        /\ current' \notin damaged' => current \notin damaged
        /\ \A x \in Sessions : x # current' => Own'[x] = Own[x]
        /\ \A h \in Tellable : h \in Own'[current'] <=> h \in Own[current]
        /\ pending # None => current' > opened
    BY ForksOwn
  <1>2. s \notin damaged /\ Apart(s)
    BY <1>1 DEF ApartInv
  <1>3. s = current' => current \in Sessions \ damaged /\ Apart(current)
    BY <1>0, <1>1, TypedNow DEF ApartInv
  <1>4. /\ KeptTranscript \in Tellable /\ Range(KeptTranscript) \subseteq Range(transcript[current])
        /\ pending # None => KeptHistory \in Orderly /\ Range(KeptHistory) \subseteq Range(heap[stored[current]])
        /\ pending = None => current' = current
    BY <1>0, KeptIs, ForksOpens
  <1>5. /\ transcript[current] \in Tellable /\ heap[stored[current]] \in Tellable /\ stored[current] # None
        /\ Orderly \subseteq Tellable /\ Tellable \subseteq Contents /\ transcript \in [Sessions -> Contents]
        /\ stored \in [Sessions -> Lists \cup {None}] /\ disk \in [Sessions -> File \cup {None}] /\ current \in Sessions
    BY <1>0, TypedNow DEF HistoryInv, HistoryType, ListsTyped, SessionsTyped, OpenedOnly
  <1>6. s = current' => KeptTranscript \in Own'[s]
    <2> SUFFICES ASSUME s = current' PROVE KeptTranscript \in Own'[s]
      OBVIOUS
    <2>1. transcript[current] \in Own[current]
      BY <1>3 DEF Apart, TranscriptApart
    <2>2. KeptTranscript \in Own[current]
      BY <1>4, <1>5, <2>1, OwnSub
    <2> QED BY <1>1, <1>4, <2>2
  <1>7. s = current' /\ pending # None => KeptHistory \in Own'[s]
    <2> SUFFICES ASSUME s = current', pending # None PROVE KeptHistory \in Own'[s]
      OBVIOUS
    <2>1. heap[stored[current]] \in Own[current]
      BY <1>3, <1>5 DEF Apart, StoreApart
    <2>2. KeptHistory \in Own[current]
      BY <1>4, <1>5, <2>1, OwnSub
    <2> QED BY <1>1, <1>4, <1>5, <2>2
  <1>8. s # current' \/ pending = None => Own'[s] = Own[s] /\ stored'[s] = stored[s] /\ disk'[s] = disk[s]
    <2>1. CASE pending = None
      <3>1. UNCHANGED <<stored, disk, current, inherited>>
        BY <2>1 DEF Forks
      <3> QED BY <3>1, OwnSame
    <2>2. CASE pending # None
      <3> PICK n : n = current'
        OBVIOUS
      <3>1. /\ stored' = [stored EXCEPT ![n] = list]
            /\ disk' = [disk EXCEPT ![n] = [messages |-> KeptTranscript, history |-> KeptHistory]]
        BY <2>2 DEF Forks
      <3>2. s # n => stored'[s] = stored[s] /\ disk'[s] = disk[s]
        BY <1>5, <3>1
      <3> QED BY <1>1, <2>2, <3>2
    <2> QED BY <2>1, <2>2
  <1>9. s = current' /\ pending # None => stored'[s] = list /\ disk'[s] = [messages |-> KeptTranscript, history |-> KeptHistory]
    BY <1>5 DEF Forks
  <1>10. TranscriptApart(s)'
    <2> PICK t : t = Append(KeptTranscript, m)
      OBVIOUS
    <2>1. CASE s = current'
      <3>1. transcript'[s] = t
        BY <1>1, <1>5, <2>1
      <3>2. t \in Own'[s]
        BY <1>6, <2>1, OwnAppendNext
      <3> QED BY <3>1, <3>2 DEF TranscriptApart
    <2>2. CASE s # current'
      <3>1. transcript'[s] = transcript[s]
        BY <1>5, <2>2
      <3> QED BY <1>2, <1>8, <2>2, <3>1 DEF Apart, TranscriptApart
    <2> QED BY <2>1, <2>2
  <1>11. StoreApart(s)'
    <2>0. stored'[s] # None => heap'[stored'[s]] = contents[stored'[s]]
      BY HeapNext
    <2>1. CASE s = current' /\ pending # None
      BY <1>7, <1>9, <2>0, <2>1 DEF StoreApart
    <2>2. CASE s # current' \/ pending = None
      <3>1. stored[s] # None => contents[stored[s]] = heap[stored[s]]
        BY <1>0, UsedNow
      <3> QED BY <1>2, <1>8, <2>0, <2>2, <3>1 DEF Apart, StoreApart
    <2> QED BY <2>1, <2>2
  <1>12. FileApart(s)'
    <2>1. CASE s = current' /\ pending # None
      BY <1>6, <1>7, <1>9, <2>1 DEF FileApart
    <2>2. CASE s # current' \/ pending = None
      BY <1>2, <1>8, <2>2 DEF Apart, FileApart
    <2> QED BY <2>1, <2>2
  <1>13. SaveApart(s)'
    <2> SUFFICES ASSUME save # None, save.id = s PROVE save.messages \in Own'[s] /\ heap'[save.history] \in Own'[s]
      BY DEF SaveApart
    <2>1. save.id <= opened /\ save.id \in Nat
      BY ConstantsAre DEF ApartInv, HistoryInv, HistoryType, OpenedOnly, ListsTyped, SaveData
    <2>2. s # current' \/ pending = None
      BY <1>1, <2>1, TypedNow, ConstantsAre, <1>0
    <2>3. heap'[save.history] = heap[save.history]
      BY <1>0, HeapNext, UsedNow
    <2> QED BY <1>2, <1>8, <2>2, <2>3 DEF Apart, SaveApart
  <1> QED BY <1>10, <1>11, <1>12, <1>13

\* The start of a turn: the turn's list is new, and so is a fork's.
LEMMA TurnStartsApart ==
  ASSUME ApartInv, HistoryInv', TurnStarts
  PROVE  ApartInv'
  <1> DEFINE before == heap[history]
             list == CachedList(before)
             kept == CachedContents(before)
             new == Fresh({list})
             fork == Fresh({list, new})
  <1>1. /\ Forks(fork) /\ cache' = CacheAfter(before) /\ turn' = Append(kept, Says(current', "user"))
        /\ history' = new /\ save' = save /\ made < MaxMessages
        /\ damaged' = Damaged \cup Taken(before, current')
        /\ Become(Forked([heap EXCEPT ![list] = kept, ![new] = turn'], fork))
        /\ transcript' = [transcript EXCEPT ![current'] = Append(KeptTranscript, Says(current', "user"))]
    BY DEF TurnStarts
  <1>0. HistoryInv /\ HistoryType /\ (pending # None => opened < MaxSessions)
    BY DEF ApartInv, HistoryInv, HistoryType, OpenedOnly
  <1>2. before \in Orderly /\ before \in Tellable /\ before \in Contents /\ kept \in Orderly /\ kept \in Tellable /\ list \in Lists
    BY <1>0, TypedNow, CachedOrderly
  <1>3. /\ new \in Lists /\ new \notin Used /\ new # list
        /\ pending # None => fork \in Lists /\ fork \notin Used /\ fork # list /\ fork # new
    BY <1>0, FreshOne
  <1>4. list \in Used => kept = heap[list]
    BY <1>0, <1>2, CachedIs
  <1> PICK t : t = turn'
    OBVIOUS
  <1> PICK contents : contents = Forked([heap EXCEPT ![list] = kept, ![new] = t], fork)
    OBVIOUS
  <1>5. /\ contents[list] = kept /\ contents[new] = t /\ (pending # None => contents[fork] = KeptHistory)
        /\ \A l \in Used : contents[l] = heap[l]
    <2> HIDE DEF before, list, kept, new, fork
    <2>1. heap \in [Lists -> Contents] /\ Used \subseteq Lists
      BY <1>0, UsedCount DEF HistoryType, ListsTyped
    <2> QED BY <1>2, <1>3, <1>4, <2>1 DEF Forked
  <1>6. Become(contents)
    BY <1>1
  <1> PICK m : m = Says(current', "user")
    OBVIOUS
  <1>7. /\ damaged \subseteq damaged' /\ current' \in Sessions
        /\ current' \notin damaged' => current \notin damaged
        /\ \A x \in Sessions : x # current' => Own'[x] = Own[x]
        /\ \A h \in Tellable : h \in Own'[current'] <=> h \in Own[current]
        /\ \A x \in Sessions : \A y \in inherited'[x] : y.at <= made
    BY <1>1, ForksOwn
  <1>8. m \in Message /\ m.by = current' /\ m.at = made + 1 /\ made \in Nat
    <2>1. made \in Nat /\ made + 1 \in 1 .. MaxMessages
      BY <1>0, <1>1, TypedNow, ConstantsAre
    <2> QED BY <1>7, <2>1 DEF Says, Message
  <1>9. /\ \A i \in DOMAIN cache' : \/ Entry(before) = 0 /\ cache'[i].key = before /\ cache'[i].list = list
                                    \/ \E j \in DOMAIN cache : cache'[i] = cache[j]
        /\ \A i \in DOMAIN cache' : cache'[i].key \in Tellable
    <2> PICK after : after = cache'
      OBVIOUS
    <2>1. \A i \in DOMAIN after : \/ Entry(before) = 0 /\ after[i] = [key |-> before, list |-> list]
                                  \/ \E j \in DOMAIN cache : after[i] = cache[j]
      BY <1>0, <1>1, <1>2, CacheAfterIs
    <2>2. \A i \in DOMAIN after : after[i].key \in Tellable
      BY <1>0, <1>1, <1>2, CacheTellable
    <2> QED BY <2>1, <2>2
  <1> HIDE DEF before, list, kept, new, fork
  <1>10. t = Append(kept, m) /\ kept \in Contents /\ t \in Contents /\ m \in Range(t)
    <2>1. t = Append(kept, m) /\ kept \in Contents
      BY <1>1, <1>2 DEF Tellable
    <2>2. t \in Contents /\ Range(t) = Range(kept) \cup {m}
      BY <1>8, <2>1, AppendedIs
    <2> QED BY <2>1, <2>2
  <1>11. TurnNew'
    <2>1. \A x \in Sessions : m \notin inherited'[x]
      BY <1>7, <1>8
    <2>2. \A i \in DOMAIN cache' : m \notin Range(cache'[i].key)
      BY <1>8, <1>9 DEF Tellable, Told
    <2> QED BY <1>8, <1>10, <2>1, <2>2 DEF TurnNew
  <1>12. /\ heap'[history'] = t
         /\ \A i \in DOMAIN cache' : heap'[cache'[i].list] = contents[cache'[i].list]
    BY <1>1, <1>5, <1>6, HeapNext
  <1>13. ASSUME NEW s \in Sessions \ damaged' PROVE Apart(s)'
    <2>1. TranscriptApart(s)' /\ StoreApart(s)' /\ FileApart(s)' /\ SaveApart(s)'
      BY <1>1, <1>3, <1>5, <1>6, <1>8, ForksApart
    <2>2. ASSUME ~ Mistaken(before), before \in Own'[s] PROVE kept \in Own'[s]
      <3>1. CASE s = current'
        <4>1. before \in Own[current] /\ current \in Sessions \ damaged
          BY <1>0, <1>2, <1>7, <2>2, <3>1, TypedNow
        <4>2. kept \in Own[current]
          BY <1>2, <2>2, <4>1, CachedOwn DEF kept
        <4> QED BY <1>2, <1>7, <3>1, <4>2
      <3>2. CASE s # current'
        <4>1. before \in Own[s] /\ s \in Sessions \ damaged
          BY <1>7, <2>2, <3>2
        <4>2. kept \in Own[s]
          BY <1>2, <2>2, <4>1, CachedOwn DEF kept
        <4> QED BY <1>7, <3>2, <4>2
      <3> QED BY <3>1, <3>2
    <2>3. ContextApart(s)'
      <3> SUFFICES ASSUME s = current' PROVE heap'[history'] \in Own'[s] /\ turn' \in Own'[s]
        BY DEF ContextApart
      <3>1. before \in Own[current]
        <4>1. current \in Sessions \ damaged
          BY <1>0, <1>7, TypedNow
        <4> QED BY <4>1 DEF ApartInv, Apart, ContextApart, before
      <3>2. before \in Own'[s] /\ ~ Mistaken(before)
        BY <1>1, <1>2, <1>7, <3>1 DEF Taken
      <3>3. t \in Own'[s]
        BY <1>8, <1>10, <2>2, <3>2, OwnAppendNext
      <3> QED BY <1>12, <3>3
    <2>4. CacheApart(s)'
      <3> SUFFICES ASSUME NEW i \in DOMAIN cache', cache'[i].key \in Own'[s] PROVE heap'[cache'[i].list] \in Own'[s]
        BY DEF CacheApart
      <3>1. CASE Entry(before) = 0 /\ cache'[i].key = before /\ cache'[i].list = list
        BY <1>5, <1>12, <2>2, <3>1 DEF Mistaken
      <3>2. CASE \E j \in DOMAIN cache : cache'[i] = cache[j]
        <4>1. PICK j \in DOMAIN cache : cache'[i] = cache[j]
          BY <3>2
        <4>2. cache[j].list \in Used
          BY <1>0, UsedNow
        <4>3. heap'[cache'[i].list] = heap[cache[j].list] /\ cache[j].key \in Tellable /\ heap[cache[j].list] \in Tellable
          <5>1. cache[j].list \in Lists
            BY <1>0, UsedNow
          <5>2. heap[cache[j].list] \in Tellable
            BY <1>0, <5>1, TypedNow DEF Heaps
          <5> QED BY <1>5, <1>9, <1>12, <4>1, <4>2, <5>2
        <4>4. \A x \in Sessions \ damaged : cache[j].key \in Own[x] => heap[cache[j].list] \in Own[x]
          BY DEF ApartInv, Apart, CacheApart
        <4>5. CASE s = current'
          <5>1. current \in Sessions \ damaged
            BY <1>0, <1>7, <4>5, TypedNow
          <5> QED BY <1>7, <4>1, <4>3, <4>4, <4>5, <5>1
        <4>6. CASE s # current'
          BY <1>7, <4>1, <4>3, <4>4, <4>6
        <4> QED BY <4>5, <4>6
      <3> QED BY <1>9, <3>1, <3>2
    <2> QED BY <2>1, <2>3, <2>4 DEF Apart
  <1> QED BY <1>11, <1>13 DEF ApartInv

\* The start of a "!" command.
LEMMA ShellStartsApart ==
  ASSUME ApartInv, HistoryInv', ShellStarts
  PROVE  ApartInv'
  <1> DEFINE fork == Fresh({})
  <1>1. /\ Forks(fork) /\ UNCHANGED <<cache, turn, history, save>> /\ turn = <<>> /\ made < MaxMessages /\ damaged' = Damaged
        /\ Become(Forked(heap, fork))
        /\ transcript' = [transcript EXCEPT ![current'] = Append(KeptTranscript, Says(current', "shell"))]
    BY DEF ShellStarts
  <1>0. HistoryInv /\ HistoryType
    BY DEF ApartInv, HistoryInv
  <1>3. fork \in Lists /\ fork \notin Used
    BY <1>0, FreshOne
  <1> PICK contents : contents = Forked(heap, fork)
    OBVIOUS
  <1>5. (pending # None => contents[fork] = KeptHistory) /\ \A l \in Used : contents[l] = heap[l]
    <2> HIDE DEF fork
    <2>1. heap \in [Lists -> Contents] /\ Used \subseteq Lists
      BY <1>0, UsedCount DEF HistoryType, ListsTyped
    <2> QED BY <1>3, <2>1 DEF Forked
  <1>6. Become(contents)
    BY <1>1
  <1> PICK m : m = Says(current', "shell")
    OBVIOUS
  <1>7. /\ damaged \subseteq damaged' /\ current' \in Sessions
        /\ current' \notin damaged' => current \notin damaged
        /\ \A x \in Sessions : x # current' => Own'[x] = Own[x]
        /\ \A h \in Tellable : h \in Own'[current'] <=> h \in Own[current]
    BY <1>1, ForksOwn
  <1>8. m \in Message /\ m.by = current'
    <2>1. made \in Nat /\ made + 1 \in 1 .. MaxMessages
      BY <1>0, <1>1, TypedNow, ConstantsAre
    <2> QED BY <1>7, <2>1 DEF Says, Message
  <1> HIDE DEF fork
  <1>11. TurnNew'
    BY <1>1 DEF TurnNew
  <1>12. /\ heap'[history] = heap[history]
         /\ \A i \in DOMAIN cache : heap'[cache[i].list] = heap[cache[i].list]
    BY <1>0, <1>1, <1>5, <1>6, HeapNext, UsedNow
  <1>13. ASSUME NEW s \in Sessions \ damaged' PROVE Apart(s)'
    <2>1. TranscriptApart(s)' /\ StoreApart(s)' /\ FileApart(s)' /\ SaveApart(s)'
      BY <1>1, <1>3, <1>5, <1>6, <1>8, ForksApart
    <2>3. ContextApart(s)'
      <3> SUFFICES ASSUME s = current' PROVE heap'[history'] \in Own'[s] /\ turn' \in Own'[s]
        BY DEF ContextApart
      <3>1. heap[history] \in Own[current] /\ heap[history] \in Tellable
        <4>1. current \in Sessions \ damaged
          BY <1>0, <1>7, TypedNow
        <4>2. heap[history] \in Own[current]
          BY <4>1 DEF ApartInv, Apart, ContextApart
        <4> QED BY <1>0, <4>2, TypedNow
      <3> QED BY <1>1, <1>7, <1>12, <3>1, OwnEmpty
    <2>4. CacheApart(s)'
      <3> SUFFICES ASSUME NEW j \in DOMAIN cache, cache[j].key \in Own'[s] PROVE heap[cache[j].list] \in Own'[s]
        BY <1>1, <1>12 DEF CacheApart
      <3>1. cache[j].key \in Tellable /\ heap[cache[j].list] \in Tellable
        <4>1. cache[j].list \in Lists
          BY <1>0, UsedNow
        <4>2. heap[cache[j].list] \in Tellable
          BY <1>0, <4>1, TypedNow DEF Heaps
        <4> QED BY <1>0, <4>2 DEF HistoryInv, OrderInv
      <3>2. \A x \in Sessions \ damaged : cache[j].key \in Own[x] => heap[cache[j].list] \in Own[x]
        BY DEF ApartInv, Apart, CacheApart
      <3>3. CASE s = current'
        <4>1. current \in Sessions \ damaged
          BY <1>0, <1>7, <3>3, TypedNow
        <4> QED BY <1>7, <3>1, <3>2, <3>3, <4>1
      <3>4. CASE s # current'
        BY <1>7, <3>1, <3>2, <3>4
      <3> QED BY <3>3, <3>4
    <2> QED BY <2>1, <2>3, <2>4 DEF Apart
  <1> QED BY <1>11, <1>13 DEF ApartInv

\* A program that starts has nothing to mix.
LEMMA ApartInit == ASSUME Init PROVE ApartInv
  <1>1. HistoryInv
    BY HistoryInit
  <1>2. TurnNew
    BY DEF Init, TurnNew
  <1>3. ASSUME NEW s \in Sessions PROVE Apart(s)
    <2>1. <<>> \in Own[s] /\ DOMAIN <<>> = {}
      BY OwnEmpty, EmptyIs
    <2>2. TranscriptApart(s) /\ ContextApart(s) /\ StoreApart(s)
      BY <2>1, FirstLists DEF Init, TranscriptApart, ContextApart, StoreApart
    <2>3. FileApart(s) /\ SaveApart(s) /\ CacheApart(s)
      BY <2>1 DEF Init, FileApart, SaveApart, CacheApart
    <2> QED BY <2>2, <2>3 DEF Apart
  <1> QED BY <1>1, <1>2, <1>3 DEF ApartInv

\* Every step keeps ApartInv.
LEMMA ApartStep == ASSUME ApartInv, [Next]_vars PROVE ApartInv'
  <1>0. HistoryInv'
    BY HistoryStep DEF ApartInv
  <1>1. CASE UNCHANGED vars
    <2>1. UNCHANGED <<heap, history, turn, cache, stored, save, transcript, disk, current, inherited, damaged>>
      BY <1>1 DEF vars, forkVars
    <2>2. Own' = Own /\ TurnNew'
      BY <2>1, OwnSame DEF ApartInv, TurnNew
    <2>3. ASSUME NEW s \in Sessions \ damaged' PROVE Apart(s)'
      <3>1. Apart(s)
        BY <2>1 DEF ApartInv
      <3> QED BY <2>1, <2>2, <3>1 DEF Apart, TranscriptApart, ContextApart, StoreApart, FileApart, SaveApart, CacheApart
    <2> QED BY <1>0, <2>2, <2>3 DEF ApartInv
  <1>2. CASE Next
    <2>1. CASE TurnStarts
      BY <1>0, <2>1, TurnStartsApart
    <2>2. CASE TurnEnds
      BY <1>0, <2>2, TurnEndsApart
    <2>3. CASE TurnStops
      BY <1>0, <2>3, TurnStopsApart
    <2>4. CASE ShellStarts
      BY <1>0, <2>4, ShellStartsApart
    <2>5. CASE ShellEnds
      BY <1>0, <2>5, ShellEndsApart
    <2>6. CASE SaveCollects
      BY <1>0, <2>6, SaveCollectsApart
    <2>7. CASE SaveWrites
      BY <1>0, <2>7, SaveWritesApart
    <2>8. CASE NewSession
      BY <1>0, <2>8, NewSessionApart
    <2>9. ASSUME NEW s \in Sessions, Resume(s) PROVE ApartInv'
      BY <1>0, <2>9, ResumeApart
    <2>10. ASSUME NEW k \in 0 .. Everything, Rewind(k) PROVE ApartInv'
      BY <1>0, <2>10, RewindApart
    <2>11. ASSUME NEW k \in 0 .. Everything, ChooseFork(k) PROVE ApartInv'
      BY <1>0, <2>11, ChooseForkApart
    <2>12. CASE Crash \/ Quit
      BY <1>0, <2>12, EndsApart
    <2> QED BY <1>2, <2>1, <2>2, <2>3, <2>4, <2>5, <2>6, <2>7, <2>8, <2>9, <2>10, <2>11, <2>12 DEF Next
  <1> QED BY <1>1, <1>2

\* Outside the sessions that the late save, the late "!" command and two contexts with
\* the same texts in the cache are known to damage, no session shows, stores, saves or
\* tells the model a message of another one that it did not inherit, whichever messages
\* say the same.
THEOREM IsolatedHolds == Spec => []Isolated
  <1>1. Init => ApartInv
    BY ApartInit
  <1>2. ApartInv /\ [Next]_vars => ApartInv'
    BY ApartStep
  <1>3. ApartInv => Isolated
    <2> SUFFICES ASSUME ApartInv, NEW s \in Sessions \ damaged
                 PROVE  /\ By(s, transcript[s])
                        /\ s = current => By(s, heap[history]) /\ By(s, turn)
                        /\ stored[s] # None => By(s, heap[stored[s]])
                        /\ disk[s] # None => By(s, disk[s].history) /\ By(s, disk[s].messages)
      BY DEF Isolated
    <2>1. Apart(s) /\ \A h \in Own[s] : By(s, h)
      <3>1. \A h \in Own[s] : h \in Contents
        BY DEF Own
      <3> QED BY <3>1, OwnBy DEF ApartInv
    <2> QED BY <2>1 DEF Apart, TranscriptApart, ContextApart, StoreApart, FileApart
  <1> QED BY <1>1, <1>2, <1>3, PTL DEF Spec

-----------------------------------------------------------------------------
(* Beginnings and ends of lists.                                           *)

\* What it is to be a beginning of a list.
LEMMA PrefixMeans ==
  ASSUME NEW g \in Contents, NEW h \in Contents
  PROVE  /\ Len(g) \in Nat /\ Len(h) \in Nat /\ DOMAIN g = 1 .. Len(g) /\ DOMAIN h = 1 .. Len(h)
         /\ IsPrefix(g, h) <=> Len(g) <= Len(h) /\ \A i \in 1 .. Len(g) : g[i] = h[i]
  <1>1. Len(g) \in Nat /\ Len(h) \in Nat /\ DOMAIN g = 1 .. Len(g) /\ DOMAIN h = 1 .. Len(h)
    BY DEF Contents
  <1>2. SubSeq(g, 1, Len(g)) = g
    BY PrefixNext
  <1>3. ASSUME Len(g) <= Len(h)
        PROVE  g = SubSeq(h, 1, Len(g)) <=> \A i \in 1 .. Len(g) : g[i] = h[i]
    <2> DEFINE p == SubSeq(h, 1, Len(g))
    <2>1. p \in Contents /\ Len(p) = Len(g) /\ \A i \in 1 .. Len(g) : p[i] = h[i]
      BY <1>1, <1>3, PrefixNext
    <2> HIDE DEF p
    <2>2. (\A i \in 1 .. Len(g) : g[i] = p[i]) => g = p
      BY <1>1, <2>1, SeqEqual DEF Contents
    <2> QED BY <2>1, <2>2 DEF p
  <1> QED BY <1>1, <1>2, <1>3 DEF IsPrefix

\* A message more at the end of a list leaves its beginnings.
LEMMA PrefixGrows ==
  ASSUME NEW g \in Contents, NEW h \in Contents, NEW m \in Message, IsPrefix(g, h)
  PROVE  IsPrefix(g, Append(h, m))
  <1>1. /\ Len(g) \in Nat /\ Len(h) \in Nat /\ DOMAIN g = 1 .. Len(g) /\ DOMAIN h = 1 .. Len(h)
        /\ Len(g) <= Len(h) /\ \A i \in 1 .. Len(g) : g[i] = h[i]
    BY PrefixMeans
  <1>2. \A i \in 1 .. Len(g) : i \in 1 .. Len(h)
    BY <1>1
  <1> DEFINE t == Append(h, m)
  <1>3. t \in Contents /\ Len(t) = Len(h) + 1 /\ \A i \in 1 .. Len(h) : t[i] = h[i]
    BY AppendedIs
  <1> HIDE DEF t
  <1>4. IsPrefix(g, t)
    BY <1>1, <1>2, <1>3, PrefixMeans
  <1> QED BY <1>4 DEF t

\* A list begins with itself.
LEMMA PrefixSelf == ASSUME NEW g \in Contents PROVE IsPrefix(g, g)
  BY PrefixMeans

\* What a beginning has is in the list.
LEMMA PrefixRange ==
  ASSUME NEW g \in Contents, NEW h \in Contents, IsPrefix(g, h)
  PROVE  Range(g) \subseteq Range(h)
  <1>1. /\ Len(g) \in Nat /\ Len(h) \in Nat /\ DOMAIN g = 1 .. Len(g) /\ DOMAIN h = 1 .. Len(h)
        /\ Len(g) <= Len(h) /\ \A i \in 1 .. Len(g) : g[i] = h[i]
    BY PrefixMeans
  <1>2. \A i \in DOMAIN g : i \in DOMAIN h /\ g[i] = h[i]
    BY <1>1
  <1> QED BY <1>2 DEF Range

\* What it is to be an end of a list.
LEMMA SuffixMeans ==
  ASSUME NEW g \in Contents, NEW h \in Contents, IsSuffix(g, h)
  PROVE  Len(g) <= Len(h) /\ \A i \in 1 .. Len(g) : g[i] = h[Len(h) - Len(g) + i]
  <1> DEFINE r(s) == [i \in 1 .. Len(s) |-> s[(Len(s) - i) + 1]]
  <1>1. ASSUME NEW s \in Contents
        PROVE  r(s) \in Contents /\ Len(r(s)) = Len(s) /\ Len(s) \in Nat
               /\ \A i \in 1 .. Len(s) : r(s)[i] = s[(Len(s) - i) + 1]
    <2>1. Len(s) \in Nat /\ \A i \in 1 .. Len(s) : s[i] \in Message
      BY DEF Contents
    <2>2. \A i \in 1 .. Len(s) : (Len(s) - i) + 1 \in 1 .. Len(s)
      BY <2>1
    <2>3. \A i \in 1 .. Len(s) : s[(Len(s) - i) + 1] \in Message
      BY <2>1, <2>2
    <2>4. r(s) \in Contents /\ Len(r(s)) = Len(s)
      BY <2>1, <2>3 DEF Contents
    <2> QED BY <2>1, <2>4
  <1>2. Reverse(g) = r(g) /\ Reverse(h) = r(h)
    BY DEF Reverse
  <1> DEFINE a == r(g)
             b == r(h)
  <1>3. /\ a \in Contents /\ Len(a) = Len(g) /\ b \in Contents /\ Len(b) = Len(h) /\ Len(g) \in Nat /\ Len(h) \in Nat
        /\ \A i \in 1 .. Len(g) : a[i] = g[(Len(g) - i) + 1]
        /\ \A i \in 1 .. Len(h) : b[i] = h[(Len(h) - i) + 1]
        /\ IsPrefix(a, b)
    BY <1>1, <1>2 DEF IsSuffix
  <1> HIDE DEF a, b, r
  <1>4. Len(g) <= Len(h) /\ \A i \in 1 .. Len(g) : a[i] = b[i]
    BY <1>3, PrefixMeans
  <1>5. ASSUME NEW i \in 1 .. Len(g) PROVE g[i] = h[Len(h) - Len(g) + i]
    <2> DEFINE j == (Len(g) - i) + 1
    <2>1. j \in 1 .. Len(g) /\ j \in 1 .. Len(h) /\ (Len(g) - j) + 1 = i /\ (Len(h) - j) + 1 = Len(h) - Len(g) + i
      BY <1>3, <1>4
    <2> HIDE DEF j
    <2> QED BY <1>3, <1>4, <2>1
  <1> QED BY <1>4, <1>5

\* The visible messages of a list's beginnings: each begins with those of a
\* shorter one, and each number of them, up to all, is reached at a visible message.
LEMMA VisibleSteps ==
  ASSUME NEW s \in Contents, NEW j \in Nat, j <= Len(s)
  PROVE  /\ VisibleIn(SubSeq(s, 1, j)) \in Contents
         /\ \A i \in Nat : i <= j =>
              /\ Len(VisibleIn(SubSeq(s, 1, i))) <= Len(VisibleIn(SubSeq(s, 1, j)))
              /\ \A q \in 1 .. Len(VisibleIn(SubSeq(s, 1, i))) :
                   VisibleIn(SubSeq(s, 1, j))[q] = VisibleIn(SubSeq(s, 1, i))[q]
         /\ \A n \in Nat : n < Len(VisibleIn(SubSeq(s, 1, j))) =>
              \E i \in 1 .. j : Visible(s[i]) /\ Len(VisibleIn(SubSeq(s, 1, i))) = n + 1
  <1> DEFINE P(n) == SubSeq(s, 1, n)
             V(n) == VisibleIn(P(n))
             Begins(k) == \A i \in Nat : i <= k => Len(V(i)) <= Len(V(k)) /\ \A q \in 1 .. Len(V(i)) : V(k)[q] = V(i)[q]
             Reached(k) == \A n \in Nat : n < Len(V(k)) => \E i \in 1 .. k : Visible(s[i]) /\ Len(V(i)) = n + 1
             S == {k \in Nat : k <= Len(s) => V(k) \in Contents /\ Begins(k) /\ Reached(k)}
  <1>0. Len(s) \in Nat /\ DOMAIN s = 1 .. Len(s)
    BY DEF Contents
  <1>1. ASSUME NEW n \in Nat, n <= Len(s) PROVE V(n) \in Contents /\ Len(V(n)) \in Nat
    <2>1. P(n) \in Contents
      BY <1>1, PrefixNext
    <2>2. V(n) \in Contents
      BY <2>1, VisibleIs
    <2> QED BY <2>2 DEF Contents
  <1>2. V(0) = <<>>
    <2>1. P(0) = <<>>
      BY PrefixNext
    <2>2. Shows(<<>>) = <<>>
      BY EmptyIs DEF Shows
    <2>3. FlattenSeq(<<>>) = <<>>
      BY EmptyIs DEF FlattenSeq
    <2> QED BY <2>1, <2>2, <2>3, EmptyIs, ShowsIs
  <1>3. ASSUME NEW n \in Nat, n + 1 <= Len(s)
        PROVE  V(n + 1) = IF Visible(s[n + 1]) THEN Append(V(n), s[n + 1]) ELSE V(n)
    <2>1. P(n) \in Contents /\ s[n + 1] \in Message /\ P(n + 1) = Append(P(n), s[n + 1])
      <3>1. n <= Len(s)
        BY <1>0, <1>3
      <3>2. P(n) \in Contents
        BY <3>1, PrefixNext
      <3>3. s[n + 1] \in Message /\ P(n + 1) = Append(P(n), s[n + 1])
        BY <1>3, PrefixNext
      <3> QED BY <3>2, <3>3
    <2> QED BY <2>1, VisibleNext
  <1> HIDE DEF P, V
  <1>4. 0 \in S
    <2>1. Begins(0)
      <3> SUFFICES ASSUME NEW i \in Nat, i <= 0 PROVE Len(V(i)) <= Len(V(0)) /\ \A q \in 1 .. Len(V(i)) : V(0)[q] = V(i)[q]
        OBVIOUS
      <3>1. i = 0
        OBVIOUS
      <3> QED BY <1>2, <3>1, EmptyIs
    <2>2. Reached(0)
      BY <1>2, EmptyIs
    <2>3. V(0) \in Contents
      BY <1>2, EmptyIs
    <2> QED BY <2>1, <2>2, <2>3
  <1>5. ASSUME NEW n \in Nat, n \in S PROVE n + 1 \in S
    <2> SUFFICES ASSUME n + 1 <= Len(s) PROVE V(n + 1) \in Contents /\ Begins(n + 1) /\ Reached(n + 1)
      OBVIOUS
    <2> DEFINE a == V(n)
               b == V(n + 1)
               m == s[n + 1]
    <2>1. n <= Len(s) /\ n + 1 \in 1 .. Len(s)
      BY <1>0
    <2>2. a \in Contents /\ Len(a) \in Nat /\ Begins(n) /\ Reached(n) /\ b \in Contents /\ Len(b) \in Nat /\ m \in Message
      <3>1. Begins(n) /\ Reached(n)
        BY <1>5, <2>1
      <3>2. m \in Message
        BY <2>1 DEF Contents
      <3> QED BY <1>1, <2>1, <3>1, <3>2
    <2>3. b = IF Visible(m) THEN Append(a, m) ELSE a
      BY <1>3
    <2>4. Len(a) <= Len(b) /\ \A q \in 1 .. Len(a) : b[q] = a[q]
      <3> HIDE DEF a, b, m
      <3>1. CASE Visible(m)
        BY <2>2, <2>3, <3>1, AppendedIs
      <3>2. CASE ~ Visible(m)
        BY <2>2, <2>3, <3>2
      <3> QED BY <3>1, <3>2
    <2>5. Begins(n + 1)
      <3> SUFFICES ASSUME NEW i \in Nat, i <= n + 1 PROVE Len(V(i)) <= Len(b) /\ \A q \in 1 .. Len(V(i)) : b[q] = V(i)[q]
        OBVIOUS
      <3>1. CASE i = n + 1
        BY <2>2, <3>1
      <3>2. CASE i # n + 1
        <4>1. i <= n /\ i <= Len(s)
          BY <1>0, <3>2
        <4>2. Len(V(i)) \in Nat
          BY <1>1, <4>1
        <4>3. Len(V(i)) <= Len(a) /\ \A q \in 1 .. Len(V(i)) : a[q] = V(i)[q]
          BY <2>2, <4>1
        <4> HIDE DEF a, b, Begins, Reached
        <4> QED BY <2>2, <2>4, <4>2, <4>3
      <3> QED BY <3>1, <3>2
    <2>6. Reached(n + 1)
      <3> SUFFICES ASSUME NEW k \in Nat, k < Len(b) PROVE \E i \in 1 .. n + 1 : Visible(s[i]) /\ Len(V(i)) = k + 1
        OBVIOUS
      <3>1. CASE k < Len(a)
        <4>1. PICK i \in 1 .. n : Visible(s[i]) /\ Len(V(i)) = k + 1
          BY <2>2, <3>1
        <4>2. i \in 1 .. n + 1
          OBVIOUS
        <4> QED BY <4>1, <4>2
      <3>2. CASE ~ (k < Len(a))
        <4> HIDE DEF a, b, m, Begins, Reached
        <4>1. Visible(m)
          BY <2>2, <2>3, <3>2
        <4>2. Len(b) = Len(a) + 1
          BY <2>2, <2>3, <4>1, AppendedIs
        <4>3. Len(b) = k + 1
          BY <2>2, <3>2, <4>2
        <4>4. n + 1 \in 1 .. n + 1
          OBVIOUS
        <4> QED BY <4>1, <4>3, <4>4 DEF b, m
      <3> QED BY <3>1, <3>2
    <2> QED BY <2>2, <2>5, <2>6
  <1> HIDE DEF S
  <1>6. j \in S
    BY <1>4, <1>5, SetInduction
  <1> QED BY <1>6 DEF S, P, V

\* The cut before the n-th visible message keeps the n visible messages before it.
LEMMA PositionIs ==
  ASSUME NEW s \in Contents, NEW n \in Nat, n < Len(VisibleIn(s)),
         NEW kept, kept = VisibleIn(SubSeq(s, 1, Position(s, n) - 1))
  PROVE  kept \in Contents /\ Len(kept) = n /\ \A q \in 1 .. n : kept[q] = VisibleIn(s)[q]
  <1> DEFINE found == {i \in DOMAIN s : Visible(s[i]) /\ Len(VisibleIn(SubSeq(s, 1, i))) = n + 1}
             p == Position(s, n)
  <1>0. Len(s) \in Nat /\ DOMAIN s = 1 .. Len(s) /\ SubSeq(s, 1, Len(s)) = s
    BY PrefixNext DEF Contents
  <1>1. \E i \in 1 .. Len(s) : Visible(s[i]) /\ Len(VisibleIn(SubSeq(s, 1, i))) = n + 1
    <2> PICK j \in Nat : j = Len(s)
      BY <1>0
    <2>1. \A k \in Nat : k < Len(VisibleIn(SubSeq(s, 1, j))) =>
            \E i \in 1 .. j : Visible(s[i]) /\ Len(VisibleIn(SubSeq(s, 1, i))) = k + 1
      BY VisibleSteps
    <2> QED BY <1>0, <2>1
  <1>2. found # {}
    BY <1>0, <1>1
  <1>3. p = CHOOSE i \in found : TRUE
    BY <1>2 DEF Position
  <1>4. p \in found
    BY <1>2, <1>3
  <1>5. p \in 1 .. Len(s) /\ Visible(s[p]) /\ Len(VisibleIn(SubSeq(s, 1, p))) = n + 1
    BY <1>0, <1>4
  <1> HIDE DEF p, found
  <1> DEFINE o == p - 1
  <1>6. o \in Nat /\ o + 1 = p /\ o + 1 <= Len(s) /\ o <= Len(s)
    BY <1>0, <1>5
  <1>7. kept = VisibleIn(SubSeq(s, 1, o))
    BY DEF p
  <1> HIDE DEF o
  <1>8. kept \in Contents /\ Len(kept) <= Len(VisibleIn(s)) /\ \A q \in 1 .. Len(kept) : VisibleIn(s)[q] = kept[q]
    <2> PICK j \in Nat : j = Len(s)
      BY <1>0
    <2>1. o <= j /\ VisibleIn(SubSeq(s, 1, j)) = VisibleIn(s)
      BY <1>0, <1>6
    <2>2. kept \in Contents
      BY <1>6, <1>7, VisibleSteps
    <2>3. \A i \in Nat : i <= j =>
            /\ Len(VisibleIn(SubSeq(s, 1, i))) <= Len(VisibleIn(SubSeq(s, 1, j)))
            /\ \A q \in 1 .. Len(VisibleIn(SubSeq(s, 1, i))) :
                 VisibleIn(SubSeq(s, 1, j))[q] = VisibleIn(SubSeq(s, 1, i))[q]
      BY VisibleSteps
    <2> QED BY <1>6, <1>7, <2>1, <2>2, <2>3
  <1>9. Len(kept) = n
    <2> DEFINE c == SubSeq(s, 1, o)
    <2>1. c \in Contents
      BY <1>6, PrefixNext
    <2>2. s[p] \in Message /\ SubSeq(s, 1, p) = Append(c, s[p])
      BY <1>6, PrefixNext
    <2>3. VisibleIn(SubSeq(s, 1, p)) = Append(kept, s[p])
      BY <1>5, <1>7, <2>1, <2>2, VisibleNext
    <2>4. Len(Append(kept, s[p])) = Len(kept) + 1 /\ Len(kept) \in Nat
      BY <1>8, <2>2, AppendedIs
    <2> QED BY <1>5, <2>3, <2>4
  <1> QED BY <1>8, <1>9

-----------------------------------------------------------------------------
(* What a session keeps.                                                   *)

\* The prompts in a list.
Users(h) == {m \in Range(h) : m.kind = "user"}

\* Lists of messages that are shown: each message once, and no more than there are.
Shown == {h \in Contents : (\A i, j \in DOMAIN h : h[i] = h[j] => i = j) /\ Len(h) <= made}

\* What is shown, in memory, in the files and in a save under way.
ShownInv ==
    /\ \A s \in Sessions : transcript[s] \in Shown
    /\ \A s \in Sessions : disk[s] # None => disk[s].messages \in Shown
    /\ save # None => save.messages \in Shown

\* The stored context begins with what the file holds.
FileKept(s) == disk[s] # None /\ stored[s] # None => IsPrefix(disk[s].history, heap[stored[s]])

\* What is shown and was in the stored context is in the context.
StoreKept(s) == s = current => Users(heap[stored[s]]) \cap Range(KeptTranscript) \subseteq Range(heap[history])

\* What a save shows and the file holds is in what it saves; what that holds and is
\* shown is in the context.
SaveKept(s) ==
    save # None /\ save.id = s =>
        /\ disk[s] # None => Users(disk[s].history) \cap Range(save.messages) \subseteq Range(heap[save.history])
        /\ s = current => Users(heap[save.history]) \cap Range(KeptTranscript) \subseteq Range(heap[history])

\* The cache returns no fewer prompts than it was asked for.
CacheKept(s) == \A i \in DOMAIN cache : cache[i].key \in Own[s] => Users(cache[i].key) \subseteq Range(heap[cache[i].list])

\* All of it.
AllKept(s) == FileKept(s) /\ StoreKept(s) /\ SaveKept(s) /\ CacheKept(s)

\* A turn goes on with every prompt of the context it began with.
TurnKept == turn # <<>> => Users(heap[history]) \subseteq Range(turn)

\* The inductive invariant of ContextKept.
ContextInv == ApartInv /\ ShownInv /\ TurnKept /\ \A s \in Sessions \ damaged : AllKept(s)

\* What is shown of a list that is shown.
LEMMA ShownSub ==
  ASSUME HistoryInv, NEW h \in Shown, NEW n \in Nat, n <= Len(h)
  PROVE  SubSeq(h, 1, n) \in Shown
  <1> DEFINE p == SubSeq(h, 1, n)
  <1>1. h \in Contents /\ Len(h) \in Nat /\ DOMAIN h = 1 .. Len(h) /\ Len(h) <= made /\ made \in Nat
    BY TypedNow DEF Shown, Contents
  <1>6. \A i, j \in DOMAIN h : h[i] = h[j] => i = j
    BY DEF Shown
  <1>2. p \in Contents /\ Len(p) = n /\ \A i \in 1 .. n : p[i] = h[i]
    BY <1>1, PrefixNext
  <1>3. DOMAIN p = 1 .. n
    BY <1>2 DEF Contents
  <1> HIDE DEF p
  <1>4. \A i \in 1 .. n : i \in DOMAIN h
    BY <1>1
  <1>5. ASSUME NEW i \in DOMAIN p, NEW j \in DOMAIN p, p[i] = p[j] PROVE i = j
    <2>1. i \in DOMAIN h /\ j \in DOMAIN h /\ p[i] = h[i] /\ p[j] = h[j]
      BY <1>2, <1>3, <1>4
    <2>2. i \in DOMAIN h /\ j \in DOMAIN h /\ h[i] = h[j]
      BY <1>5, <2>1
    <2> QED BY ONLY <1>6, <2>2
  <1>7. Len(p) <= made
    BY <1>1, <1>2
  <1>8. p \in Shown
    BY <1>2, <1>5, <1>7 DEF Shown
  <1> QED BY <1>8 DEF p

\* What is shown stays so, and so it does with a new message at its end.
LEMMA ShownNext ==
  ASSUME HistoryInv, made' \in {made, made + 1}
  PROVE  /\ Shown \subseteq Shown'
         /\ \A h \in Shown, m \in Message :
              made' = made + 1 /\ m.at = made + 1 /\ h \in Tellable => Append(h, m) \in Shown'
  <1>1. made \in Nat /\ made <= made'
    BY TypedNow
  <1>2. Shown \subseteq Shown'
    <2> SUFFICES ASSUME NEW h \in Shown PROVE h \in Shown'
      OBVIOUS
    <2>1. h \in Contents /\ Len(h) \in Nat
      BY DEF Shown, Contents
    <2> QED BY <1>1, <2>1 DEF Shown
  <1>3. ASSUME NEW h \in Shown, NEW m \in Message, made' = made + 1, m.at = made + 1, h \in Tellable
        PROVE  Append(h, m) \in Shown'
    <2> DEFINE t == Append(h, m)
    <2>1. h \in Contents /\ Len(h) <= made /\ \A i, j \in DOMAIN h : h[i] = h[j] => i = j
      BY DEF Shown
    <2>2. /\ t \in Contents /\ Len(h) \in Nat /\ Len(t) = Len(h) + 1
          /\ DOMAIN h = 1 .. Len(h) /\ DOMAIN t = 1 .. (Len(h) + 1)
          /\ (\A i \in 1 .. Len(h) : t[i] = h[i]) /\ t[Len(h) + 1] = m
          /\ \A i \in DOMAIN t : i \in DOMAIN h \/ i = Len(h) + 1
      BY <2>1, AppendedIs
    <2> HIDE DEF t
    <2>3. \A i \in DOMAIN h : h[i] # m
      <3> SUFFICES ASSUME NEW i \in DOMAIN h, h[i] = m PROVE FALSE
        OBVIOUS
      <3>1. m \in Range(h)
        BY DEF Range
      <3>2. m.at <= made
        BY <1>3, <3>1 DEF Tellable, Told
      <3> QED BY <1>1, <1>3, <3>2
    <2>4. \A i, j \in DOMAIN t : t[i] = t[j] => i = j
      <3> SUFFICES ASSUME NEW i \in DOMAIN t, NEW j \in DOMAIN t, t[i] = t[j] PROVE i = j
        OBVIOUS
      <3>1. CASE i \in DOMAIN h /\ j \in DOMAIN h
        BY <2>1, <2>2, <3>1
      <3>2. CASE i = Len(h) + 1 /\ j \in DOMAIN h
        BY <2>2, <2>3, <3>2
      <3>3. CASE j = Len(h) + 1 /\ i \in DOMAIN h
        BY <2>2, <2>3, <3>3
      <3> QED BY <2>2, <3>1, <3>2, <3>3
    <2>5. Len(t) <= made'
      BY <1>1, <1>3, <2>1, <2>2
    <2> QED BY <2>2, <2>4, <2>5 DEF Shown, t
  <1> QED BY <1>2, <1>3

\* What a fork keeps of the transcript is shown; it is all unless a message was chosen.
LEMMA KeptShown ==
  ASSUME HistoryInv, ShownInv
  PROVE  /\ KeptTranscript \in Shown
         /\ pending \in {None, Everything} => KeptTranscript = transcript[current]
  <1>1. transcript[current] \in Shown
    BY TypedNow DEF ShownInv
  <1>2. Len(transcript[current]) \in Nat /\ Len(transcript[current]) <= made /\ made <= MaxMessages /\ made \in Nat
    <2>1. transcript[current] \in Contents /\ Len(transcript[current]) <= made
      BY <1>1 DEF Shown
    <2>2. made \in 0 .. MaxMessages
      BY DEF HistoryInv, HistoryType, SessionsTyped
    <2> QED BY <2>1, <2>2, ConstantsAre DEF Contents
  <1>3. ASSUME pending \in {None, Everything} PROVE pending \notin 0 .. Len(transcript[current])
    BY <1>2, <1>3, ConstantsAre
  <1>4. CASE pending \notin 0 .. Len(transcript[current])
    BY <1>1, <1>4 DEF KeptTranscript
  <1>5. CASE pending \in 0 .. Len(transcript[current])
    <2>1. KeptTranscript = SubSeq(transcript[current], 1, pending)
      BY <1>5 DEF KeptTranscript
    <2>2. pending \in Nat /\ pending <= Len(transcript[current])
      BY <1>2, <1>5
    <2> QED BY <1>1, <1>3, <1>5, <2>1, <2>2, ShownSub
  <1> QED BY <1>3, <1>4, <1>5 DEF KeptTranscript

\* A cut of what is shown and of a context at its end cut the same prompts.
LEMMA CutSame ==
  ASSUME HistoryInv, NEW shown \in Shown, NEW whole \in Contents, IsSuffix(VisibleIn(whole), shown),
         NEW k \in Nat, k < Len(shown), NEW start, start = Len(shown) - Len(VisibleIn(whole)),
         NEW x \in Range(whole), Visible(x), x \in Range(SubSeq(shown, 1, k))
  PROVE  k > start /\ x \in Range(VisibleIn(SubSeq(whole, 1, Position(whole, k - start) - 1)))
  <1> DEFINE v == VisibleIn(whole)
             p == SubSeq(shown, 1, k)
  <1>1. v \in Contents /\ x \in Range(v)
    BY VisibleIs
  <1>2. /\ shown \in Contents /\ Len(shown) \in Nat /\ DOMAIN shown = 1 .. Len(shown)
        /\ Len(v) \in Nat /\ DOMAIN v = 1 .. Len(v)
        /\ \A i, j \in DOMAIN shown : shown[i] = shown[j] => i = j
    BY <1>1 DEF Shown, Contents
  <1>3. Len(v) <= Len(shown) /\ \A i \in 1 .. Len(v) : v[i] = shown[start + i]
    BY <1>1, <1>2, SuffixMeans
  <1>4. p \in Contents /\ Len(p) = k /\ \A i \in 1 .. k : p[i] = shown[i]
    BY <1>2, PrefixNext
  <1>5. DOMAIN p = 1 .. k
    BY <1>4 DEF Contents
  <1> HIDE DEF v, p
  <1>6. PICK i \in 1 .. Len(v) : v[i] = x
    BY <1>1, <1>2 DEF Range
  <1>7. PICK j \in 1 .. k : p[j] = x
    BY <1>5 DEF Range, p
  <1>8. start \in Nat /\ start + i \in 1 .. Len(shown) /\ j \in 1 .. Len(shown)
    BY <1>2, <1>3 DEF v
  <1>9. start + i = j
    BY <1>2, <1>3, <1>4, <1>6, <1>7, <1>8
  <1>10. k > start /\ i <= k - start /\ k - start \in Nat /\ k - start < Len(v)
    BY <1>2, <1>8, <1>9 DEF v
  <1> DEFINE kept == VisibleIn(SubSeq(whole, 1, Position(whole, k - start) - 1))
  <1>11. kept \in Contents /\ Len(kept) = k - start /\ \A q \in 1 .. k - start : kept[q] = v[q]
    BY <1>10, PositionIs DEF v
  <1>12. DOMAIN kept = 1 .. k - start
    BY <1>11 DEF Contents
  <1> HIDE DEF kept
  <1>13. i \in 1 .. k - start
    BY <1>10
  <1>14. kept[i] = x /\ i \in DOMAIN kept
    BY <1>6, <1>11, <1>12, <1>13
  <1>15. x \in Range(kept)
    BY <1>14 DEF Range
  <1> QED BY <1>10, <1>15 DEF kept

-----------------------------------------------------------------------------
(* Cuts.                                                                   *)

\* A cut leaves the lists of the sessions it does not damage alone.
LEMMA TruncatesOthers ==
  ASSUME ApartInv, HistoryInv', NEW k, Truncates(k), UNCHANGED <<cache, stored, save>>, NEW s \in Sessions \ damaged'
  PROVE  /\ s \in Sessions \ damaged
         /\ stored[s] # None => heap'[stored[s]] = heap[stored[s]]
         /\ save # None /\ save.id = s => heap'[save.history] = heap[save.history]
         /\ \A i \in DOMAIN cache : cache[i].key \in Own[s] => heap'[cache[i].list] = heap[cache[i].list]
  <1>0. HistoryInv /\ heap \in [Lists -> Contents]
    BY DEF ApartInv, HistoryInv, HistoryType, ListsTyped
  <1>1. s \in Sessions \ damaged
    BY DEF Truncates
  <1>2. CASE /\ history' = history /\ damaged' = damaged \cup CutShort \cup Misaligned \cup Keepers(history)
             /\ Become([heap EXCEPT ![history] = <<>>])
    <2> DEFINE contents == [heap EXCEPT ![history] = <<>>]
    <2>1. \A l \in Lists : l # history => contents[l] = heap[l]
      BY <1>0
    <2>2. Become(contents)
      BY <1>2
    <2> HIDE DEF contents
    <2>3. /\ \A r \in Sessions : stored[r] # None => heap'[stored[r]] = contents[stored[r]] /\ stored[r] \in Lists
          /\ \A i \in DOMAIN cache : heap'[cache[i].list] = contents[cache[i].list] /\ cache[i].list \in Lists
          /\ save # None => heap'[save.history] = contents[save.history] /\ save.history \in Lists
      <3>1. \A r \in Sessions : stored[r] # None => heap'[stored[r]] = contents[stored[r]] /\ stored[r] \in Lists
        BY <2>2, HeapNext
      <3>2. \A i \in DOMAIN cache : heap'[cache[i].list] = contents[cache[i].list] /\ cache[i].list \in Lists
        BY <2>2, HeapNext
      <3>3. save # None => heap'[save.history] = contents[save.history] /\ save.history \in Lists
        BY <2>2, HeapNext
      <3> QED BY <3>1, <3>2, <3>3
    <2>4. s \notin Keepers(history)
      BY <1>2
    <2>5. \A i \in DOMAIN cache : cache[i].key \in Own[s] => cache[i].list # history
      BY <2>4, KeptNowhere
    <2>6. stored[s] # history /\ (save # None /\ save.id = s => save.history # history)
      BY <2>4, KeptNowhere
    <2> QED BY <1>1, <2>1, <2>3, <2>5, <2>6
  <1>3. CASE ~ (/\ history' = history /\ damaged' = damaged \cup CutShort \cup Misaligned \cup Keepers(history)
                /\ Become([heap EXCEPT ![history] = <<>>]))
    <2> PICK kept : history' = Fresh({}) /\ Become([heap EXCEPT ![history'] = kept])
      BY <1>3 DEF Truncates
    <2> DEFINE contents == [heap EXCEPT ![history'] = kept]
    <2>1. history' \in Lists /\ history' \notin Used
      BY <1>0, FreshOne DEF HistoryInv
    <2>2. \A l \in Used : contents[l] = heap[l]
      BY <1>0, <2>1, UsedCount DEF HistoryInv
    <2>3. Become(contents)
      OBVIOUS
    <2> HIDE DEF contents
    <2>4. \A r \in Sessions : stored[r] # None => heap'[stored[r]] = heap[stored[r]]
      BY <1>0, <2>2, <2>3, HeapNext, UsedNow
    <2>5. save # None => heap'[save.history] = heap[save.history]
      BY <1>0, <2>2, <2>3, HeapNext, UsedNow
    <2>6. \A i \in DOMAIN cache : heap'[cache[i].list] = heap[cache[i].list]
      BY <1>0, <2>2, <2>3, HeapNext, UsedNow
    <2> QED BY <1>1, <2>4, <2>5, <2>6
  <1> QED BY <1>2, <1>3

\* A cut of an aligned context keeps the prompts that are still shown.
LEMMA TruncatesKeeps ==
  ASSUME ContextInv, HistoryInv', NEW k \in Nat, k < Len(transcript[current]), Truncates(k), current \notin damaged'
  PROVE  /\ pending \in {None, Everything}
         /\ \A x \in Users(heap[history]) \cap Range(SubSeq(transcript[current], 1, k)) : x \in Range(heap'[history'])
  <1>0. HistoryInv /\ transcript[current] \in Shown /\ heap \in [Lists -> Contents] /\ history \in Lists /\ heap[history] \in Contents
    <2>1. HistoryInv
      BY DEF ContextInv, ApartInv
    <2> QED BY <2>1, TypedNow DEF ContextInv, ShownInv, HistoryInv, HistoryType, ListsTyped
  <1>1. CutShort = {} /\ Misaligned = {}
    <2>1. current \notin CutShort /\ current \notin Misaligned
      BY DEF Truncates
    <2> QED BY <2>1 DEF CutShort, Misaligned
  <1>2. pending \in {None, Everything}
    BY <1>1 DEF CutShort
  <1>3. IsSuffix(VisibleIn(heap[history]), transcript[current])
    BY <1>1 DEF Misaligned
  <1> DEFINE start == Len(transcript[current]) - Len(VisibleIn(heap[history]))
             kept == VisibleIn(SubSeq(heap[history], 1, Position(heap[history], k - start) - 1))
  <1>4. ASSUME NEW x \in Users(heap[history]) \cap Range(SubSeq(transcript[current], 1, k))
        PROVE  x \in Range(heap'[history'])
    <2>0. x \in Range(heap[history]) /\ Visible(x) /\ x \in Range(SubSeq(transcript[current], 1, k))
      BY DEF Users, Visible
    <2>1. k > start /\ x \in Range(kept)
      BY <1>0, <1>3, <2>0, CutSame
    <2>2. k # 0
      <3>1. k = 0 => SubSeq(transcript[current], 1, k) = <<>>
        BY <1>0, PrefixNext DEF Shown
      <3> QED BY <2>0, <3>1, EmptyIs
    <2>3. start \in Int
      <3>1. transcript[current] \in Contents /\ VisibleIn(heap[history]) \in Contents
        BY <1>0, VisibleIs DEF Shown
      <3> QED BY <3>1 DEF Contents
    <2>4. ~ (k = 0 \/ k <= start)
      <3> HIDE DEF start
      <3> QED BY <2>1, <2>2, <2>3
    <2>5. history' = Fresh({}) /\ Become([heap EXCEPT ![history'] = kept])
      <3> HIDE DEF kept
      <3> QED BY <2>4 DEF Truncates, kept
    <2>6. history' \in Lists
      BY <1>0, <2>5, FreshOne DEF HistoryInv
    <2> DEFINE contents == [heap EXCEPT ![history'] = kept]
    <2>7. Become(contents) /\ contents[history'] = kept
      BY <1>0, <2>5, <2>6
    <2> HIDE DEF contents, kept
    <2>8. heap'[history'] = kept
      BY <1>0, <2>7, HeapNext
    <2> QED BY <2>1, <2>8
  <1> QED BY <1>2, <1>4

\* A rewind or the choice of a fork point: the prompts that are shown afterwards are
\* in the context still.
LEMMA CutKept ==
  ASSUME ContextInv, HistoryInv', NEW k \in Nat, k < Len(transcript[current]), Truncates(k),
         UNCHANGED <<cache, stored, save, disk, current, inherited>>,
         KeptTranscript' = SubSeq(transcript[current], 1, k), NEW s \in Sessions \ damaged'
  PROVE  AllKept(s)'
  <1>0. /\ s \in Sessions \ damaged /\ AllKept(s) /\ Own' = Own
        /\ stored[s] # None => heap'[stored[s]] = heap[stored[s]]
        /\ save # None /\ save.id = s => heap'[save.history] = heap[save.history]
        /\ \A i \in DOMAIN cache : cache[i].key \in Own[s] => heap'[cache[i].list] = heap[cache[i].list]
    BY TruncatesOthers, OwnSame DEF ContextInv
  <1>1. ASSUME s = current
        PROVE  /\ Range(SubSeq(transcript[current], 1, k)) \subseteq Range(KeptTranscript)
               /\ \A x \in Users(heap[history]) \cap Range(SubSeq(transcript[current], 1, k)) : x \in Range(heap'[history'])
    <2>1. pending \in {None, Everything}
      BY <1>1, TruncatesKeeps
    <2>2. KeptTranscript = transcript[current] /\ transcript[current] \in Contents /\ Len(transcript[current]) \in Nat
      <3>1. HistoryInv /\ ShownInv
        BY DEF ContextInv, ApartInv
      <3>2. KeptTranscript = transcript[current] /\ KeptTranscript \in Contents
        BY <2>1, <3>1, KeptShown DEF Shown
      <3> QED BY <3>2 DEF Contents
    <2>3. Range(SubSeq(transcript[current], 1, k)) \subseteq Range(transcript[current])
      BY <2>2, PrefixIs
    <2> QED BY <1>1, <2>2, <2>3, TruncatesKeeps
  <1>2. FileKept(s)'
    BY <1>0 DEF AllKept, FileKept
  <1>3. StoreKept(s)'
    <2> SUFFICES ASSUME s = current, NEW x \in Users(heap'[stored[s]]), x \in Range(SubSeq(transcript[current], 1, k))
                 PROVE  x \in Range(heap'[history'])
      BY DEF StoreKept
    <2>1. stored[s] # None
      BY DEF ContextInv, ApartInv, HistoryInv, HistoryType, OpenedOnly
    <2>2. x \in Users(heap[stored[s]]) /\ x \in Range(KeptTranscript)
      BY <1>0, <1>1, <2>1
    <2>3. x \in Range(heap[history]) /\ x.kind = "user"
      BY <1>0, <2>2 DEF AllKept, StoreKept, Users
    <2> QED BY <1>1, <2>3 DEF Users
  <1>4. SaveKept(s)'
    <2> SUFFICES ASSUME save # None, save.id = s
                 PROVE  /\ disk[s] # None => Users(disk[s].history) \cap Range(save.messages) \subseteq Range(heap'[save.history])
                        /\ s = current => Users(heap'[save.history]) \cap Range(SubSeq(transcript[current], 1, k)) \subseteq Range(heap'[history'])
      BY DEF SaveKept
    <2>1. disk[s] # None => Users(disk[s].history) \cap Range(save.messages) \subseteq Range(heap'[save.history])
      BY <1>0 DEF AllKept, SaveKept
    <2>2. ASSUME s = current, NEW x \in Users(heap'[save.history]), x \in Range(SubSeq(transcript[current], 1, k))
          PROVE  x \in Range(heap'[history'])
      <3>1. x \in Users(heap[save.history]) /\ x \in Range(KeptTranscript)
        BY <1>0, <1>1, <2>2
      <3>2. x \in Range(heap[history]) /\ x.kind = "user"
        BY <1>0, <2>2, <3>1 DEF AllKept, SaveKept, Users
      <3> QED BY <1>1, <2>2, <3>2 DEF Users
    <2> QED BY <2>1, <2>2
  <1>5. CacheKept(s)'
    BY <1>0 DEF AllKept, CacheKept
  <1> QED BY <1>2, <1>3, <1>4, <1>5 DEF AllKept

-----------------------------------------------------------------------------
(* Turns, commands and saves, a third time.                                *)

\* What the invariant says of the types.
LEMMA ContextTyped ==
  ASSUME ContextInv
  PROVE  /\ HistoryInv /\ ApartInv /\ ShownInv
         /\ heap \in [Lists -> Contents] /\ stored \in [Sessions -> Lists \cup {None}]
         /\ transcript \in [Sessions -> Contents] /\ disk \in [Sessions -> File \cup {None}]
         /\ history \in Lists /\ heap[history] \in Contents
         /\ current \in Sessions /\ stored[current] \in Lists /\ stored[current] # None /\ heap[stored[current]] \in Contents
         /\ transcript[current] \in Contents /\ KeptTranscript \in Contents
         /\ \A s \in Sessions : disk[s] # None => disk[s].history \in Contents /\ disk[s].messages \in Contents
  <1>1. HistoryInv /\ ApartInv /\ ShownInv
    BY DEF ContextInv, ApartInv
  <1>2. KeptTranscript \in Contents
    BY <1>1, KeptShown DEF Shown
  <1>3. \A s \in Sessions : disk[s] # None => disk[s].history \in Contents /\ disk[s].messages \in Contents
    BY <1>1 DEF HistoryInv, HistoryType, SessionsTyped, File
  <1>4. stored[current] # None
    BY <1>1 DEF HistoryInv, HistoryType, OpenedOnly
  <1> QED BY <1>1, <1>2, <1>3, <1>4, TypedNow DEF HistoryInv, HistoryType, ListsTyped, SessionsTyped

\* What is shown is not changed by a step that changes neither transcript nor file nor save.
LEMMA ShownSame ==
  ASSUME ContextInv, UNCHANGED <<transcript, disk, save>>, made' \in {made, made + 1}
  PROVE  ShownInv'
  <1>1. Shown \subseteq Shown'
    BY ContextTyped, ShownNext
  <1> QED BY <1>1 DEF ContextInv, ShownInv

\* Both ways a turn can end: its messages have every prompt of the context.
LEMMA TurnOverKept ==
  ASSUME ContextInv, ApartInv', turn # <<>>, NEW left \in Contents, Mistaken(turn) \/ Range(turn) \subseteq Range(left),
         damaged \cup Taken(turn, current) \subseteq damaged',
         \A s \in Sessions \ damaged' : left = heap[history'] \/ s \notin Keepers(history'),
         cache' = CacheAfter(turn), history' = CachedList(turn), turn' = <<>>, Become([heap EXCEPT ![history'] = left]),
         UNCHANGED <<stored, transcript, disk, current, save, inherited, pending>>, made' \in {made, made + 1}
  PROVE  ContextInv'
  <1>0. TurnKept' /\ ShownInv' /\ Own' = Own
    BY OwnSame, ShownSame DEF TurnKept
  <1> DEFINE contents == [heap EXCEPT ![history'] = left]
  <1>1. HistoryInv' /\ HistoryInv /\ ApartInv
    BY ContextTyped DEF ApartInv
  <1>2. /\ turn \in Contents /\ history' \in Lists /\ (Mistaken(turn) <=> Entry(turn) # 0)
    BY <1>1, TurnListNew
  <1>3. contents[history'] = left /\ \A l \in Used : contents[l] = heap[l] \/ (l = history' /\ left # heap[l])
    BY <1>1, <1>2, ContextTyped, UsedCount DEF HistoryInv
  <1>4. Become(contents)
    OBVIOUS
  <1> HIDE DEF contents
  <1>5. /\ heap'[history'] = left
        /\ \A s \in Sessions : stored[s] # None => heap'[stored[s]] = contents[stored[s]]
        /\ save # None => heap'[save.history] = contents[save.history]
        /\ \A i \in DOMAIN cache' : heap'[cache'[i].list] = contents[cache'[i].list]
    BY <1>1, <1>3, <1>4, HeapNext, UsedNow
  <1>6. KeptTranscript' = KeptTranscript
    BY DEF KeptTranscript
  <1>7. ~ Mistaken(turn) => Users(heap[history]) \subseteq Range(left)
    BY DEF ContextInv, TurnKept
  <1>8. ASSUME NEW s \in Sessions \ damaged' PROVE AllKept(s)'
    <2>0. s \in Sessions \ damaged /\ AllKept(s)
      BY DEF ContextInv
    <2>a. /\ stored[s] # None => heap'[stored[s]] = heap[stored[s]]
          /\ save # None /\ save.id = s => heap'[save.history] = heap[save.history]
          /\ \A i \in DOMAIN cache : cache[i].key \in Own[s] => contents[cache[i].list] = heap[cache[i].list]
      <3>1. CASE left = heap[history']
        BY <1>1, <1>3, <1>5, <3>1, UsedNow
      <3>2. CASE s \notin Keepers(history')
        BY <1>1, <1>3, <1>5, <3>2, UsedNow, KeptNowhere
      <3> QED BY <3>1, <3>2
    <2>b. s = current => ~ Mistaken(turn)
      BY DEF Taken
    <2>1. FileKept(s)'
      BY <2>a, <2>0 DEF AllKept, FileKept
    <2>2. StoreKept(s)'
      <3>1. s = current => Users(heap[stored[s]]) \cap Range(KeptTranscript) \subseteq Users(heap[history])
        BY <2>0 DEF AllKept, StoreKept, Users
      <3>2. s = current => stored[s] # None
        BY ContextTyped
      <3> QED BY <1>5, <1>6, <1>7, <2>a, <2>b, <3>1, <3>2 DEF StoreKept
    <2>3. SaveKept(s)'
      <3>1. save # None /\ save.id = s /\ s = current => Users(heap[save.history]) \cap Range(KeptTranscript) \subseteq Users(heap[history])
        BY <2>0 DEF AllKept, SaveKept, Users
      <3> QED BY <1>5, <1>6, <1>7, <2>0, <2>a, <2>b, <3>1 DEF AllKept, SaveKept
    <2>4. CacheKept(s)'
      <3> SUFFICES ASSUME NEW i \in DOMAIN cache', cache'[i].key \in Own[s]
                   PROVE  Users(cache'[i].key) \subseteq Range(heap'[cache'[i].list])
        BY <1>0 DEF CacheKept
      <3>1. CASE Entry(turn) = 0 /\ cache'[i].key = turn /\ cache'[i].list = CachedList(turn)
        BY <1>2, <1>3, <1>5, <3>1 DEF Users
      <3>2. CASE \E j \in DOMAIN cache : cache'[i] = cache[j]
        <4>1. PICK j \in DOMAIN cache : cache'[i] = cache[j]
          BY <3>2
        <4>3. heap'[cache'[i].list] = heap[cache[j].list]
          BY <1>5, <2>a, <4>1
        <4> QED BY <2>0, <4>1, <4>3 DEF AllKept, CacheKept
      <3> QED BY <1>1, <3>1, <3>2, TurnEntries
    <2> QED BY <2>1, <2>2, <2>3, <2>4 DEF AllKept
  <1> QED BY <1>0, <1>8 DEF ContextInv

\* The end of a turn keeps ContextInv.
LEMMA TurnEndsKept ==
  ASSUME ContextInv, ApartInv', TurnEnds
  PROVE  ContextInv'
  <1> PICK left : left = CachedContents(turn)
    OBVIOUS
  <1>1. turn # <<>> /\ turn \in Contents /\ left \in Contents /\ (Mistaken(turn) \/ left = turn)
    BY ContextTyped, TurnListNew DEF TurnEnds
  <1>2. /\ cache' = CacheAfter(turn) /\ history' = CachedList(turn) /\ turn' = <<>> /\ Become([heap EXCEPT ![history'] = left])
        /\ UNCHANGED <<stored, transcript, disk, current, save, inherited, pending, made>> /\ damaged' = damaged \cup Taken(turn, current)
    BY <1>1 DEF TurnEnds, forkVars
  <1>3. left = heap[history'] \/ Keepers(history') = {}
    BY <1>1, <1>2, ContextTyped, TurnListNew, KeptUsed
  <1> QED BY <1>1, <1>2, <1>3, TurnOverKept

\* So does a stopped turn: the note is one message more.
LEMMA TurnStopsKept ==
  ASSUME ContextInv, ApartInv', TurnStops
  PROVE  ContextInv'
  <1>1. /\ turn # <<>> /\ turn \in Contents /\ CachedContents(turn) \in Contents
        /\ Mistaken(turn) \/ CachedContents(turn) = turn
    BY ContextTyped, TurnListNew DEF TurnStops
  <1> PICK m : m = Says(current, "note")
    OBVIOUS
  <1>2. m \in Message
    <2>1. current \in Sessions /\ made + 1 \in 1 .. MaxMessages
      BY ContextTyped, TypedNow, ConstantsAre DEF TurnStops
    <2> QED BY <2>1 DEF Says, Message
  <1> PICK left : left = Append(CachedContents(turn), m)
    OBVIOUS
  <1>3. left \in Contents /\ (Mistaken(turn) \/ Range(turn) \subseteq Range(left))
    <2>1. left \in Contents /\ Range(left) = Range(CachedContents(turn)) \cup {m}
      BY <1>1, <1>2, AppendedIs
    <2> QED BY <1>1, <2>1
  <1>5. /\ cache' = CacheAfter(turn) /\ history' = CachedList(turn) /\ turn' = <<>> /\ Become([heap EXCEPT ![history'] = left])
        /\ UNCHANGED <<stored, transcript, disk, current, save, inherited, pending>> /\ made' = made + 1
        /\ damaged' = damaged \cup Taken(turn, current) \cup Keepers(history')
    BY <1>1 DEF TurnStops, forkVars
  <1> QED BY <1>1, <1>3, <1>5, TurnOverKept

\* The command's message is one more, and no prompt: whoever keeps the list has what
\* it had.
LEMMA ShellEndsKept ==
  ASSUME ContextInv, ApartInv', ShellEnds
  PROVE  ContextInv'
  <1>1. /\ UNCHANGED <<history, turn, cache, stored, transcript, disk, current, save, inherited, pending, made>>
        /\ damaged' = damaged \cup (Keepers(history) \ {current}) \cup (IF shell \in Range(transcript[current]) THEN {} ELSE {current})
        /\ Become([heap EXCEPT ![history] = Append(heap[history], shell)])
    BY DEF ShellEnds, forkVars
  <1>2. Own' = Own /\ ShownInv' /\ KeptTranscript' = KeptTranscript
    BY <1>1, OwnSame, ShownSame DEF KeptTranscript
  <1> DEFINE h == heap[history]
             g == Append(h, shell)
             contents == [heap EXCEPT ![history] = g]
  <1>3. HistoryInv' /\ HistoryInv /\ h \in Contents /\ history \in Lists /\ heap \in [Lists -> Contents]
    BY ContextTyped DEF ApartInv
  <1>4. contents[history] = g /\ \A l \in Lists : l # history => contents[l] = heap[l]
    BY <1>3
  <1>5. Become(contents)
    BY <1>1
  <1>6. shell \in Message /\ shell.kind = "shell"
    BY <1>3 DEF ShellEnds, HistoryInv, HistoryType, SessionsTyped
  <1>7. g \in Contents /\ Range(h) \subseteq Range(g) /\ Users(g) = Users(h)
    <2> HIDE DEF h, contents
    <2>1. g \in Contents /\ Range(g) = Range(h) \cup {shell}
      <3> PICK t : t = g
        OBVIOUS
      <3>1. t \in Contents /\ Range(t) = Range(h) \cup {shell}
        BY <1>3, <1>6, AppendedIs
      <3> QED BY <3>1
    <2> HIDE DEF g
    <2> QED BY <1>6, <2>1 DEF Users
  <1>8. \A f \in Contents : IsPrefix(f, h) => IsPrefix(f, g)
    <2> HIDE DEF h, contents
    <2> QED BY <1>3, <1>6, PrefixGrows
  <1> HIDE DEF contents, g
  <1>9. \A l \in Lists : /\ Range(heap[l]) \subseteq Range(contents[l]) /\ Users(contents[l]) = Users(heap[l])
                         /\ \A f \in Contents : IsPrefix(f, heap[l]) => IsPrefix(f, contents[l])
    BY <1>4, <1>7, <1>8
  <1> HIDE DEF h
  <1>10. /\ heap'[history] = contents[history]
         /\ \A s \in Sessions : stored[s] # None => heap'[stored[s]] = contents[stored[s]] /\ stored[s] \in Lists
         /\ save # None => heap'[save.history] = contents[save.history] /\ save.history \in Lists
         /\ \A i \in DOMAIN cache : heap'[cache[i].list] = contents[cache[i].list] /\ cache[i].list \in Lists
    BY <1>1, <1>3, <1>5, HeapNext, UsedNow
  <1>11. TurnKept'
    BY <1>1, <1>3, <1>9, <1>10 DEF ContextInv, TurnKept
  <1>12. ASSUME NEW s \in Sessions \ damaged' PROVE AllKept(s)'
    <2>0. s \in Sessions \ damaged /\ AllKept(s)
      BY <1>1 DEF ContextInv
    <2>1. FileKept(s)'
      BY <1>1, <1>9, <1>10, <2>0, ContextTyped DEF AllKept, FileKept
    <2>2. StoreKept(s)'
      <3>1. s = current => stored[s] # None
        BY ContextTyped
      <3> QED BY <1>1, <1>2, <1>3, <1>9, <1>10, <2>0, <3>1 DEF AllKept, StoreKept
    <2>3. SaveKept(s)'
      <3> SUFFICES ASSUME save # None, save.id = s
                   PROVE  /\ disk[s] # None => Users(disk[s].history) \cap Range(save.messages) \subseteq Range(heap'[save.history])
                          /\ s = current => Users(heap'[save.history]) \cap Range(KeptTranscript) \subseteq Range(heap'[history])
        BY <1>1, <1>2 DEF SaveKept
      <3>1. /\ Range(heap[save.history]) \subseteq Range(heap'[save.history]) /\ Users(heap'[save.history]) = Users(heap[save.history])
            /\ Range(heap[history]) \subseteq Range(heap'[history])
        BY <1>3, <1>9, <1>10
      <3> QED BY <2>0, <3>1 DEF AllKept, SaveKept
    <2>4. CacheKept(s)'
      BY <1>1, <1>2, <1>9, <1>10, <2>0 DEF AllKept, CacheKept
    <2> QED BY <2>1, <2>2, <2>3, <2>4 DEF AllKept
  <1> QED BY <1>2, <1>11, <1>12 DEF ContextInv

\* A save takes the context that has every prompt that is shown and stored.
LEMMA SaveCollectsKept ==
  ASSUME ContextInv, ApartInv', SaveCollects
  PROVE  ContextInv'
  <1>1. /\ UNCHANGED <<heap, history, turn, cache, stored, transcript, disk, current, inherited, pending, made>>
        /\ save' = [id |-> current, messages |-> transcript[current], history |-> history] /\ damaged' = damaged \cup CutShort
    BY DEF SaveCollects, forkVars
  <1>2. Own' = Own /\ TurnKept' /\ KeptTranscript' = KeptTranscript
    BY <1>1, OwnSame DEF ContextInv, TurnKept, KeptTranscript
  <1>3. ShownInv'
    <2>1. Shown' = Shown
      BY <1>1 DEF Shown
    <2> QED BY <1>1, <2>1, ContextTyped DEF ContextInv, ShownInv
  <1>4. ASSUME NEW s \in Sessions \ damaged' PROVE AllKept(s)'
    <2>0. s \in Sessions \ damaged /\ AllKept(s)
      BY <1>1 DEF ContextInv
    <2>1. FileKept(s)' /\ StoreKept(s)' /\ CacheKept(s)'
      BY <1>1, <1>2, <2>0 DEF AllKept, FileKept, StoreKept, CacheKept
    <2>2. SaveKept(s)'
      <3> SUFFICES ASSUME s = current
                   PROVE  /\ disk[s] # None => Users(disk[s].history) \cap Range(transcript[s]) \subseteq Range(heap[history])
                          /\ Users(heap[history]) \cap Range(KeptTranscript) \subseteq Range(heap[history])
        BY <1>1, <1>2 DEF SaveKept
      <3>1. Users(heap[history]) \cap Range(KeptTranscript) \subseteq Range(heap[history])
        BY DEF Users
      <3>2. KeptTranscript = transcript[s]
        <4>1. pending \in {None, Everything}
          BY <1>1 DEF CutShort
        <4> QED BY <4>1, ContextTyped, KeptShown
      <3>3. ASSUME disk[s] # None PROVE Range(disk[s].history) \subseteq Range(heap[stored[s]])
        <4>1. IsPrefix(disk[s].history, heap[stored[s]])
          BY <2>0, <3>3, ContextTyped DEF AllKept, FileKept
        <4>2. disk[s].history \in Contents /\ heap[stored[s]] \in Contents
          BY <3>3, ContextTyped
        <4> QED BY <4>1, <4>2, PrefixRange
      <3> QED BY <2>0, <3>1, <3>2, <3>3 DEF AllKept, StoreKept, Users
    <2> QED BY <2>1, <2>2 DEF AllKept
  <1> QED BY <1>2, <1>3, <1>4 DEF ContextInv

\* A save that ends where it began leaves nothing out of the file that is shown.
LEMMA SaveWritesKept ==
  ASSUME ContextInv, ApartInv', SaveWrites
  PROVE  ContextInv'
  <1> PICK list : list = Replacing(save.history)
    OBVIOUS
  <1> DEFINE file == [messages |-> save.messages, history |-> heap[list]]
  <1>1. /\ UNCHANGED <<history, turn, cache, current, inherited, pending, made>> /\ save # None /\ save' = None
        /\ transcript' = [transcript EXCEPT ![current] = save.messages]
        /\ stored' = [stored EXCEPT ![current] = list] /\ list \in {save.history, stored[current]}
        /\ damaged' = IF save.id = current /\ save.messages = transcript[current] THEN damaged ELSE damaged \cup {save.id, current}
        /\ disk' = [disk EXCEPT ![current] = file] \/ (disk' = disk /\ list = stored[current])
        /\ Become(heap)
    BY DEF SaveWrites, forkVars, Writes, Replacing
  <1>2. file.messages = save.messages /\ file.history = heap[list]
    OBVIOUS
  <1> HIDE DEF file
  <1>3. HistoryInv' /\ HistoryInv /\ Own' = Own /\ Shown' = Shown
    BY <1>1, OwnSame, ContextTyped DEF ApartInv, Shown
  <1>4. /\ heap'[history] = heap[history]
        /\ \A s \in Sessions : stored'[s] # None => heap'[stored'[s]] = heap[stored'[s]]
        /\ \A i \in DOMAIN cache : heap'[cache[i].list] = heap[cache[i].list]
    BY <1>1, <1>3, HeapNext
  <1>5. TurnKept'
    BY <1>1, <1>4 DEF ContextInv, TurnKept
  <1>6. /\ \A s \in Sessions : s # current => transcript'[s] = transcript[s] /\ stored'[s] = stored[s] /\ disk'[s] = disk[s]
        /\ transcript'[current] = save.messages
        /\ disk'[current] = file \/ (disk'[current] = disk[current] /\ list = stored[current])
        /\ stored'[current] = list
    BY <1>1, ContextTyped
  <1>7. ShownInv'
    <2>1. \A s \in Sessions : transcript'[s] \in Shown
      BY <1>1, <1>6 DEF ContextInv, ShownInv
    <2>2. \A s \in Sessions : disk'[s] # None => disk'[s].messages \in Shown
      BY <1>1, <1>2, <1>6 DEF ContextInv, ShownInv
    <2> QED BY <1>1, <1>3, <2>1, <2>2 DEF ShownInv
  <1>8. ASSUME NEW s \in Sessions \ damaged' PROVE AllKept(s)'
    <2>0. s \in Sessions \ damaged /\ AllKept(s)
      BY <1>1 DEF ContextInv
    <2>1. CASE s # current
      <3>1. FileKept(s)'
        BY <1>4, <1>6, <2>0, <2>1 DEF AllKept, FileKept
      <3> QED BY <1>1, <1>3, <1>4, <2>0, <2>1, <3>1 DEF AllKept, StoreKept, SaveKept, CacheKept
    <2>2. CASE s = current
      <3>1. save.id = s /\ save.messages = transcript[s] /\ transcript'[s] = transcript[s]
        BY <1>1, <1>6, <2>2
      <3>2. KeptTranscript' = KeptTranscript
        BY <1>1, <1>6, <2>2, <3>1 DEF KeptTranscript
      <3>3. heap'[stored'[s]] = heap[list] /\ heap[list] \in Contents
        <4>1. stored'[s] # None
          BY <1>1, <1>3, <2>2 DEF HistoryInv, HistoryType, OpenedOnly
        <4>2. save.history \in Lists
          BY <1>1, <1>3, UsedNow
        <4> QED BY <1>1, <1>4, <1>6, <2>2, <4>1, <4>2, ContextTyped
      <3>4. FileKept(s)'
        <4>1. CASE disk'[s] = file
          <5>1. IsPrefix(heap[list], heap[list])
            BY <3>3, PrefixSelf
          <5> QED BY <1>2, <3>3, <4>1, <5>1 DEF FileKept
        <4>2. CASE disk'[s] = disk[s] /\ list = stored[s]
          BY <2>0, <2>2, <3>3, <4>2, ContextTyped DEF AllKept, FileKept
        <4> QED BY <1>6, <2>2, <4>1, <4>2
      <3>5. StoreKept(s)'
        BY <1>1, <1>4, <2>0, <2>2, <3>1, <3>2, <3>3 DEF AllKept, SaveKept, StoreKept
      <3> QED BY <1>1, <1>3, <1>4, <2>0, <3>4, <3>5 DEF AllKept, SaveKept, CacheKept
    <2> QED BY <2>1, <2>2
  <1> QED BY <1>5, <1>7, <1>8 DEF ContextInv

-----------------------------------------------------------------------------
(* Sessions, a third time.                                                 *)

\* A session that is not yet opened has no file, and is not the one a save began in.
LEMMA NextOpened ==
  ASSUME ContextInv, opened < MaxSessions
  PROVE  /\ opened + 1 \in Sessions /\ opened + 1 # current
         /\ stored[opened + 1] = None /\ disk[opened + 1] = None
         /\ save # None => save.id # opened + 1
  <1>0. HistoryInv
    BY DEF ContextInv, ApartInv
  <1>1. opened \in Nat /\ opened + 1 \in Sessions /\ opened + 1 > opened /\ current <= opened /\ current \in Nat
    BY <1>0, TypedNow, ConstantsAre
  <1>2. Blank(opened + 1)
    BY <1>0, <1>1 DEF HistoryInv, HistoryType, OpenedOnly
  <1>3. save # None => save.id <= opened /\ save.id \in Nat
    BY <1>0, ConstantsAre DEF HistoryInv, HistoryType, OpenedOnly, ListsTyped, SaveData
  <1> QED BY <1>1, <1>2, <1>3 DEF Blank

\* /new empties the context: whoever keeps the list is excused, the others have what
\* they had, the new session has nothing.
LEMMA NewSessionKept ==
  ASSUME ContextInv, ApartInv', NewSession
  PROVE  ContextInv'
  <1> PICK n : n = opened + 1
    OBVIOUS
  <1> PICK list : list = Fresh({})
    OBVIOUS
  <1> DEFINE contents == [heap EXCEPT ![history] = <<>>, ![stored'[n]] = <<>>]
  <1>1. /\ UNCHANGED <<history, turn, cache, transcript, disk, save, inherited, made>> /\ turn = <<>> /\ opened < MaxSessions
        /\ current' = n /\ stored' = [stored EXCEPT ![n] = list] /\ damaged' = damaged \cup Sharers
        /\ Become(contents)
    BY DEF NewSession, Command
  <1>2. TurnKept' /\ ShownInv' /\ Own' = Own
    BY <1>1, OwnSame, ShownSame DEF TurnKept
  <1>3. HistoryInv' /\ HistoryInv /\ HistoryType
    BY ContextTyped DEF ApartInv, HistoryInv
  <1>4. list \in Lists /\ list \notin Used
    BY <1>3, FreshOne
  <1>5. n \in Sessions /\ disk[n] = None /\ (save # None => save.id # n)
    BY <1>1, NextOpened
  <1>6. stored'[n] = list /\ \A s \in Sessions : s # n => stored'[s] = stored[s]
    <2>1. stored' = [stored EXCEPT ![n] = list]
      BY <1>1
    <2>2. stored \in [Sessions -> Lists \cup {None}]
      BY ContextTyped
    <2> QED BY ONLY <1>5, <2>1, <2>2
  <1>7. contents[list] = <<>> /\ \A l \in Used : l # history => contents[l] = heap[l]
    BY <1>3, <1>4, <1>6, ContextTyped, UsedCount
  <1> HIDE DEF contents
  <1>8. /\ \A s \in Sessions : stored'[s] # None => heap'[stored'[s]] = contents[stored'[s]]
        /\ save # None => heap'[save.history] = contents[save.history]
        /\ \A i \in DOMAIN cache : heap'[cache[i].list] = contents[cache[i].list]
    BY <1>1, <1>3, HeapNext
  <1>9. ASSUME NEW s \in Sessions \ damaged' PROVE AllKept(s)'
    <2>0. s \in Sessions \ damaged /\ AllKept(s) /\ s \notin Keepers(history)
      BY <1>1 DEF ContextInv, Sharers
    <2>1. /\ stored[s] # history
          /\ save # None /\ save.id = s => save.history # history
          /\ \A i \in DOMAIN cache : cache[i].key \in Own[s] => cache[i].list # history
      BY <2>0, ContextTyped, KeptNowhere
    <2>2. s # n /\ stored[s] # None => heap'[stored'[s]] = heap[stored[s]]
      BY <1>3, <1>6, <1>7, <1>8, <2>0, <2>1, UsedNow
    <2>3. FileKept(s)'
      <3>1. CASE s = n
        <4>1. disk'[s] = None
          BY <1>1, <1>5, <3>1
        <4> QED BY <4>1 DEF FileKept
      <3>2. CASE s # n
        <4>1. stored'[s] = stored[s] /\ (disk[s] # None /\ stored[s] # None => IsPrefix(disk[s].history, heap[stored[s]]))
          BY <1>6, <2>0, <3>2 DEF AllKept, FileKept
        <4> QED BY <1>1, <2>2, <3>2, <4>1 DEF FileKept
      <3> QED BY <3>1, <3>2
    <2>4. StoreKept(s)'
      <3> SUFFICES ASSUME s = n PROVE Users(heap'[stored'[s]]) = {}
        BY <1>1 DEF StoreKept
      <3>1. heap'[stored'[s]] = <<>>
        <4>1. list # None
          BY <1>4, ConstantsAre
        <4> QED BY <1>5, <1>6, <1>7, <1>8, <4>1
      <3> QED BY <3>1, EmptyIs DEF Users
    <2>5. SaveKept(s)'
      <3>0. save # None => save.history \in Used
        BY <1>3, UsedNow
      <3>1. save # None /\ save.id = s => heap'[save.history] = heap[save.history]
        <4> SUFFICES ASSUME save # None, save.id = s PROVE heap'[save.history] = heap[save.history]
          OBVIOUS
        <4>1. save.history \in Used /\ save.history # history
          BY <2>1, <3>0
        <4> QED BY <1>7, <1>8, <4>1
      <3> QED BY <1>1, <1>5, <2>0, <3>1 DEF AllKept, SaveKept
    <2>6. CacheKept(s)'
      <3>1. \A i \in DOMAIN cache : cache[i].key \in Own[s] => heap'[cache[i].list] = heap[cache[i].list]
        BY <1>3, <1>7, <1>8, <2>1, UsedNow
      <3> QED BY <1>1, <1>2, <2>0, <3>1 DEF AllKept, CacheKept
    <2> QED BY <2>3, <2>4, <2>5, <2>6 DEF AllKept
  <1> QED BY <1>2, <1>9 DEF ContextInv

\* A resumed session's context is its list in the store, which is the file's when it
\* was not in memory.
LEMMA ResumeKept ==
  ASSUME ContextInv, ApartInv', NEW r \in Sessions, Resume(r)
  PROVE  /\ ContextInv'
         /\ r \notin damaged => Restored(r)
  <1>1. /\ UNCHANGED <<turn, cache, disk, save, inherited, made>> /\ turn = <<>>
        /\ current' = r /\ damaged' = damaged \cup Unwritten(r)
    BY DEF Resume, Command
  <1>2. TurnKept' /\ Own' = Own /\ Shown' = Shown /\ HistoryInv /\ HistoryInv' /\ HistoryType /\ ApartInv
    BY <1>1, OwnSame, ContextTyped DEF TurnKept, Shown, ApartInv, HistoryInv
  <1>3. CASE stored[r] # None
    <2>1. history' = stored[r] /\ UNCHANGED <<stored, transcript>> /\ Become(heap)
      BY <1>3 DEF Resume
    <2>2. /\ heap'[history'] = heap[stored[r]]
          /\ \A s \in Sessions : stored[s] # None => heap'[stored[s]] = heap[stored[s]]
          /\ save # None => heap'[save.history] = heap[save.history]
          /\ \A i \in DOMAIN cache : heap'[cache[i].list] = heap[cache[i].list]
      BY <1>1, <1>2, <2>1, HeapNext
    <2>3. ShownInv'
      BY <1>1, <2>1, ShownSame
    <2>4. ASSUME NEW s \in Sessions \ damaged' PROVE AllKept(s)'
      <3>0. s \in Sessions \ damaged /\ AllKept(s) /\ ~ (s = r /\ save # None /\ save.id = s)
        BY <1>1 DEF ContextInv, Unwritten
      <3>1. FileKept(s)' /\ CacheKept(s)'
        BY <1>1, <1>2, <2>1, <2>2, <3>0 DEF AllKept, FileKept, CacheKept
      <3>2. StoreKept(s)'
        BY <1>1, <2>1 DEF StoreKept, Users
      <3>3. SaveKept(s)'
        BY <1>1, <2>2, <3>0 DEF AllKept, SaveKept
      <3> QED BY <3>1, <3>2, <3>3 DEF AllKept
    <2>5. ASSUME r \notin damaged PROVE Restored(r)
      BY <1>3, <2>2, <2>5 DEF ContextInv, AllKept, FileKept, Restored
    <2> QED BY <1>2, <2>3, <2>4, <2>5 DEF ContextInv
  <1>4. CASE stored[r] = None
    <2>1. /\ disk[r] # None /\ history' = Fresh({}) /\ stored' = [stored EXCEPT ![r] = history']
          /\ transcript' = [transcript EXCEPT ![r] = disk[r].messages]
          /\ Become([heap EXCEPT ![history'] = disk[r].history])
      BY <1>4 DEF Resume
    <2>2. history' \in Lists /\ history' \notin Used
      BY <1>2, <2>1, FreshOne
    <2> DEFINE contents == [heap EXCEPT ![history'] = disk[r].history]
    <2>3. contents[history'] = disk[r].history /\ \A l \in Used : contents[l] = heap[l]
      BY <1>2, <2>2, ContextTyped, UsedCount
    <2>4. Become(contents)
      BY <2>1
    <2> HIDE DEF contents
    <2>5. /\ stored'[r] = history' /\ \A s \in Sessions : s # r => stored'[s] = stored[s]
          /\ transcript'[r] = disk[r].messages /\ \A s \in Sessions : s # r => transcript'[s] = transcript[s]
      BY <2>1, ContextTyped
    <2>6. /\ heap'[history'] = disk[r].history
          /\ \A s \in Sessions : s # r /\ stored[s] # None => heap'[stored'[s]] = heap[stored[s]]
      <3>1. heap'[history'] = disk[r].history
        BY <1>2, <2>3, <2>4, HeapNext
      <3>2. \A s \in Sessions : stored'[s] # None => heap'[stored'[s]] = contents[stored'[s]]
        BY <1>2, <2>4, HeapNext
      <3> QED BY <1>2, <2>3, <2>5, <3>1, <3>2, UsedNow
    <2>7. /\ save # None => heap'[save.history] = heap[save.history]
          /\ \A i \in DOMAIN cache : heap'[cache[i].list] = heap[cache[i].list]
      <3>1. save # None => heap'[save.history] = contents[save.history]
        BY <1>1, <1>2, <2>4, HeapNext
      <3>2. \A i \in DOMAIN cache : heap'[cache[i].list] = contents[cache[i].list]
        BY <1>1, <1>2, <2>4, HeapNext
      <3> QED BY <1>2, <2>3, <3>1, <3>2, UsedNow
    <2>8. ShownInv'
      <3>1. \A s \in Sessions : transcript'[s] \in Shown
        BY <2>1, <2>5 DEF ContextInv, ShownInv
      <3> QED BY <1>1, <1>2, <3>1 DEF ContextInv, ShownInv
    <2>9. IsPrefix(disk[r].history, heap'[history'])
      BY <2>1, <2>6, ContextTyped, PrefixSelf
    <2>10. ASSUME NEW s \in Sessions \ damaged' PROVE AllKept(s)'
      <3>0. s \in Sessions \ damaged /\ AllKept(s) /\ ~ (s = r /\ save # None /\ save.id = s)
        BY <1>1 DEF ContextInv, Unwritten
      <3>1. FileKept(s)'
        BY <1>1, <2>5, <2>6, <2>9, <3>0 DEF AllKept, FileKept
      <3>2. CacheKept(s)'
        BY <1>1, <1>2, <2>7, <3>0 DEF AllKept, CacheKept
      <3>3. StoreKept(s)'
        BY <1>1, <2>5 DEF StoreKept, Users
      <3>4. SaveKept(s)'
        BY <1>1, <2>7, <3>0 DEF AllKept, SaveKept
      <3> QED BY <3>1, <3>2, <3>3, <3>4 DEF AllKept
    <2> QED BY <1>2, <2>8, <2>9, <2>10 DEF ContextInv, Restored
  <1> QED BY <1>3, <1>4

\* A rewind: what is shown afterwards is what the cut keeps.
LEMMA RewindKept ==
  ASSUME ContextInv, ApartInv', NEW k \in 0 .. Everything, Rewind(k)
  PROVE  ContextInv'
  <1> DEFINE p == SubSeq(transcript[current], 1, k)
  <1>1. /\ UNCHANGED <<turn, cache, stored, disk, current, save, inherited, made>> /\ turn = <<>> /\ pending' = None /\ Truncates(k)
        /\ transcript' = [transcript EXCEPT ![current] = p] /\ k < Len(transcript[current])
    BY DEF Rewind, Command
  <1>2. k \in Nat /\ HistoryInv' /\ HistoryInv /\ transcript[current] \in Shown /\ Shown' = Shown /\ TurnKept'
    BY <1>1, ContextTyped, ConstantsAre DEF ApartInv, ContextInv, ShownInv, Shown, TurnKept
  <1>3. p \in Shown
    <2>1. Len(transcript[current]) \in Nat
      BY <1>2 DEF Shown, Contents
    <2> QED BY <1>1, <1>2, <2>1, ShownSub
  <1>4. transcript'[current] = p /\ \A s \in Sessions : s # current => transcript'[s] = transcript[s]
    BY <1>1, ContextTyped
  <1>5. KeptTranscript' = p
    <2>1. transcript'[current'] = p
      BY <1>1, <1>4
    <2>2. pending' \notin 0 .. Len(p)
      <3>1. Len(p) \in Nat
        BY <1>3 DEF Shown, Contents
      <3> QED BY <1>1, <3>1, ConstantsAre
    <2> QED BY <2>1, <2>2 DEF KeptTranscript
  <1> HIDE DEF p
  <1>6. ShownInv'
    <2>1. \A s \in Sessions : transcript'[s] \in Shown
      BY <1>3, <1>4 DEF ContextInv, ShownInv
    <2> QED BY <1>1, <1>2, <2>1 DEF ContextInv, ShownInv
  <1>7. \A s \in Sessions \ damaged' : AllKept(s)'
    BY <1>1, <1>2, <1>5, CutKept DEF p
  <1> QED BY <1>2, <1>6, <1>7 DEF ContextInv

\* The choice of a fork point: what the fork will show is what the cut keeps.
LEMMA ChooseForkKept ==
  ASSUME ContextInv, ApartInv', NEW k \in 0 .. Everything, ChooseFork(k)
  PROVE  ContextInv'
  <1>1. /\ UNCHANGED <<turn, cache, stored, disk, current, save, inherited, transcript, made>> /\ turn = <<>> /\ pending' = k
        /\ k < Len(transcript[current]) \/ k = Everything
    BY DEF ChooseFork
  <1>2. HistoryInv' /\ HistoryInv /\ transcript[current] \in Shown /\ TurnKept' /\ ShownInv' /\ Own' = Own
    BY <1>1, ContextTyped, OwnSame, ShownSame DEF ApartInv, ContextInv, ShownInv, TurnKept
  <1>3. k \in Nat /\ Len(transcript[current]) \in Nat /\ Len(transcript[current]) < Everything
    <2>1. transcript[current] \in Contents /\ Len(transcript[current]) <= made /\ made \in 0 .. MaxMessages
      BY <1>2 DEF Shown, HistoryInv, HistoryType, SessionsTyped
    <2> QED BY <2>1, ConstantsAre DEF Contents
  <1>4. CASE k # Everything
    <2>1. Truncates(k) /\ k < Len(transcript[current]) /\ k \in 0 .. Len(transcript[current])
      BY <1>1, <1>3, <1>4 DEF ChooseFork
    <2>2. KeptTranscript' = SubSeq(transcript[current], 1, k)
      BY <1>1, <2>1 DEF KeptTranscript
    <2>3. \A s \in Sessions \ damaged' : AllKept(s)'
      BY <1>1, <1>2, <1>3, <2>1, <2>2, CutKept
    <2> QED BY <1>2, <2>3 DEF ContextInv
  <1>5. CASE k = Everything
    <2>1. UNCHANGED <<heap, history>> /\ damaged' = damaged \cup CutShort
      BY <1>5 DEF ChooseFork
    <2>2. KeptTranscript' = transcript[current]
      <3>1. k \notin 0 .. Len(transcript[current])
        BY <1>3, <1>5
      <3> QED BY <1>1, <3>1 DEF KeptTranscript
    <2>3. ASSUME NEW s \in Sessions \ damaged' PROVE AllKept(s)'
      <3>1. AllKept(s)
        BY <2>1 DEF ContextInv
      <3>2. s = current => KeptTranscript' = KeptTranscript
        <4>1. s = current => pending \in {None, Everything}
          BY <2>1 DEF CutShort
        <4> QED BY <2>2, <4>1, ContextTyped, KeptShown
      <3>3. FileKept(s)' /\ CacheKept(s)'
        BY <1>1, <1>2, <2>1, <3>1 DEF AllKept, FileKept, CacheKept
      <3>4. StoreKept(s)' /\ SaveKept(s)'
        BY <1>1, <2>1, <3>1, <3>2 DEF AllKept, StoreKept, SaveKept
      <3> QED BY <3>3, <3>4 DEF AllKept
    <2> QED BY <1>2, <2>3 DEF ContextInv
  <1> QED BY <1>4, <1>5

\* What is left by the end of the process is in the files.
LEMMA EndsKept ==
  ASSUME ContextInv, ApartInv', Crash \/ Quit
  PROVE  ContextInv'
  <1> DEFINE n == opened + 1
             file == [messages |-> transcript[current], history |-> heap[Replacing(history)]]
  <1>1. /\ current' = n /\ heap' = [l \in Lists |-> <<>>] /\ turn' = <<>> /\ cache' = <<>> /\ save' = None
        /\ stored' = [s \in Sessions |-> IF s = n THEN SecondList ELSE None] /\ transcript' = [s \in Sessions |-> <<>>]
        /\ made' = made /\ opened < MaxSessions
        /\ disk' = disk \/ disk' = [disk EXCEPT ![current] = file]
    BY DEF Crash, Quit, Restarts, Writes
  <1>2. TurnKept' /\ Shown' = Shown /\ HistoryInv
    BY <1>1, ContextTyped DEF TurnKept, Shown
  <1>3. <<>> \in Shown
    <2>1. made \in Nat
      BY <1>2, TypedNow
    <2> QED BY <2>1, EmptyIs DEF Shown
  <1>4. file.messages = transcript[current]
    OBVIOUS
  <1>5. n \in Sessions /\ n # current /\ disk[n] = None
    BY <1>1, NextOpened
  <1> HIDE DEF n, file
  <1>6. disk'[n] = None /\ \A s \in Sessions : disk'[s] = disk[s] \/ disk'[s] = file
    BY <1>1, <1>5, ContextTyped
  <1>7. ShownInv'
    <2>1. \A s \in Sessions : transcript'[s] \in Shown
      BY <1>1, <1>3
    <2>2. \A s \in Sessions : disk'[s] # None => disk'[s].messages \in Shown
      BY <1>4, <1>6, ContextTyped DEF ContextInv, ShownInv
    <2> QED BY <1>1, <1>2, <2>1, <2>2 DEF ShownInv
  <1>8. ASSUME NEW s \in Sessions \ damaged' PROVE AllKept(s)'
    <2>1. FileKept(s)'
      BY <1>1, <1>6 DEF FileKept
    <2>2. StoreKept(s)'
      <3> SUFFICES ASSUME s = n PROVE Users(heap'[stored'[s]]) = {}
        BY <1>1 DEF StoreKept
      <3>1. heap'[stored'[s]] = <<>>
        BY <1>1, FirstLists
      <3> QED BY <3>1, EmptyIs DEF Users
    <2>3. SaveKept(s)'
      BY <1>1 DEF SaveKept
    <2>4. CacheKept(s)'
      <3>1. DOMAIN cache' = {}
        BY <1>1, EmptyIs
      <3> QED BY <3>1 DEF CacheKept
    <2> QED BY <2>1, <2>2, <2>3, <2>4 DEF AllKept
  <1> QED BY <1>2, <1>7, <1>8 DEF ContextInv

-----------------------------------------------------------------------------
(* Forks, and ContextKept.                                                 *)

\* What the cache returns has the prompts it was asked for, for a session that can
\* have them.
LEMMA CachedKept ==
  ASSUME ContextInv, NEW s \in Sessions \ damaged, NEW asked \in Own[s], ~ Mistaken(asked)
  PROVE  Users(asked) \subseteq Range(CachedContents(asked))
  <1>1. asked \in Contents /\ HistoryType
    BY ContextTyped DEF Own, HistoryInv
  <1>2. CASE CachedContents(asked) = asked
    BY <1>2 DEF Users
  <1>3. CASE /\ CachedContents(asked) = heap[CachedList(asked)]
             /\ \E i \in DOMAIN cache : cache[i].key = asked /\ cache[i].list = CachedList(asked)
    <2>1. PICK i \in DOMAIN cache : cache[i].key = asked /\ cache[i].list = CachedList(asked)
      BY <1>3
    <2>2. CacheKept(s)
      BY DEF ContextInv, AllKept
    <2> QED BY <1>3, <2>1, <2>2 DEF CacheKept
  <1> QED BY <1>1, <1>2, <1>3, CachedIs

\* What a prompt or a command does to files, store and saves when it may make a fork
\* first: the fork's file and list are what was kept of its parent.
LEMMA ForksKept ==
  ASSUME ContextInv, ApartInv', NEW list, Forks(list), Damaged \subseteq damaged', pending # None => list \in Lists,
         NEW contents, pending # None => contents[list] = KeptHistory, \A l \in Used : contents[l] = heap[l], Become(contents),
         NEW m \in Message, m.at = made + 1, made' = made + 1,
         transcript' = [transcript EXCEPT ![current'] = Append(KeptTranscript, m)],
         save' = save, current' \notin damaged' => Users(heap[history]) \subseteq Range(heap'[history'])
  PROVE  ShownInv' /\ \A s \in Sessions \ damaged' : FileKept(s)' /\ StoreKept(s)' /\ SaveKept(s)'
  <1>0. HistoryInv /\ HistoryInv' /\ ApartInv /\ ShownInv /\ made \in Nat
    BY ContextTyped, TypedNow DEF ApartInv
  <1>1. /\ damaged \subseteq damaged' /\ current' \in Sessions
        /\ current' \notin damaged' => current \notin damaged
        /\ pending # None => current' > opened
    BY <1>0, ForksOwn
  <1>2. /\ KeptTranscript \in Tellable /\ KeptTranscript \in Shown
        /\ pending # None => KeptHistory \in Contents /\ Range(KeptHistory) \subseteq Range(heap[stored[current]])
        /\ pending = None => current' = current
        /\ pending' = None
    <2>1. Orderly \subseteq Contents
      BY DEF Orderly, Tellable
    <2> QED BY <1>0, <2>1, KeptIs, KeptShown, ForksOpens
  <1>3. pending # None => current' = opened + 1 /\ disk[current'] = None /\ (save # None => save.id # current')
    <2>1. pending # None => opened < MaxSessions /\ current' = opened + 1
      BY <1>0, ForksOpens DEF HistoryInv, HistoryType, OpenedOnly
    <2> QED BY <2>1, NextOpened
  <1> PICK t : t = Append(KeptTranscript, m)
    OBVIOUS
  <1>4. /\ Shown \subseteq Shown' /\ t \in Shown'
    <2>1. \A h \in Shown, x \in Message :
            made' = made + 1 /\ x.at = made + 1 /\ h \in Tellable => Append(h, x) \in Shown'
      BY <1>0, ShownNext
    <2>2. Shown \subseteq Shown'
      BY <1>0, ShownNext
    <2> QED BY <1>2, <2>1, <2>2
  <1>5. /\ transcript'[current'] = t /\ \A s \in Sessions : s # current' => transcript'[s] = transcript[s]
        /\ \A s \in Sessions : s # current' \/ pending = None => stored'[s] = stored[s] /\ disk'[s] = disk[s]
        /\ pending # None => stored'[current'] = list /\ disk'[current'] = [messages |-> KeptTranscript, history |-> KeptHistory]
    <2>1. transcript'[current'] = t /\ \A s \in Sessions : s # current' => transcript'[s] = transcript[s]
      BY <1>1, ContextTyped
    <2>2. CASE pending = None
      BY <2>1, <2>2 DEF Forks
    <2>3. CASE pending # None
      <3> PICK n : n = current'
        OBVIOUS
      <3>1. /\ stored' = [stored EXCEPT ![n] = list]
            /\ disk' = [disk EXCEPT ![n] = [messages |-> KeptTranscript, history |-> KeptHistory]]
        BY <2>3 DEF Forks
      <3>2. /\ \A s \in Sessions : s # n => stored'[s] = stored[s] /\ disk'[s] = disk[s]
            /\ stored'[n] = list /\ disk'[n] = [messages |-> KeptTranscript, history |-> KeptHistory]
        BY <1>1, <3>1, ContextTyped
      <3> QED BY <2>1, <2>3, <3>2
    <2> QED BY <2>2, <2>3
  <1>6. KeptTranscript' = t
    <2>1. pending' \notin 0 .. Len(t)
      <3>1. Len(t) \in Nat
        BY <1>4 DEF Shown, Contents
      <3> QED BY <1>2, <3>1, ConstantsAre
    <2> QED BY <1>5, <2>1 DEF KeptTranscript
  <1>7. Range(t) = Range(KeptTranscript) \cup {m}
    BY <1>2, AppendedIs DEF Shown
  <1>8. /\ \A s \in Sessions : stored'[s] # None => heap'[stored'[s]] = contents[stored'[s]]
        /\ save # None => heap'[save.history] = heap[save.history]
    <2>1. save # None => heap'[save.history] = contents[save.history]
      BY <1>0, HeapNext
    <2>2. save # None => save.history \in Used
      BY <1>0, UsedNow
    <2> QED BY <1>0, <2>1, <2>2, HeapNext
  <1>9. ASSUME current' \notin damaged', NEW l \in Lists, NEW x \in Users(heap[l]), x \in Range(t),
               Users(heap[l]) \cap Range(KeptTranscript) \subseteq Range(heap[history])
        PROVE  x \in Range(heap'[history'])
    <2>1. x.at <= made /\ x.kind = "user"
      BY <1>0, TypedNow DEF Users, Heaps, Orderly, Tellable, Told
    <2>2. x # m
      BY <1>0, <2>1
    <2>3. x \in Range(heap[history])
      BY <1>7, <1>9, <2>2
    <2> QED BY <1>9, <2>1, <2>3 DEF Users
  <1>10. ShownInv'
    <2>1. \A s \in Sessions : transcript'[s] \in Shown'
      BY <1>0, <1>4, <1>5 DEF ShownInv
    <2>2. ASSUME NEW s \in Sessions, disk'[s] # None PROVE disk'[s].messages \in Shown'
      <3>1. CASE s = current' /\ pending # None
        BY <1>2, <1>4, <1>5, <3>1
      <3>2. CASE s # current' \/ pending = None
        BY <1>0, <1>4, <1>5, <2>2, <3>2 DEF ShownInv
      <3> QED BY <3>1, <3>2
    <2>3. save' # None => save'.messages \in Shown'
      BY <1>0, <1>4 DEF ShownInv
    <2> QED BY <2>1, <2>2, <2>3 DEF ShownInv
  <1>11. ASSUME NEW s \in Sessions \ damaged' PROVE FileKept(s)' /\ StoreKept(s)' /\ SaveKept(s)'
    <2>0. s \in Sessions \ damaged /\ AllKept(s) /\ (s = current' => current \in Sessions \ damaged /\ AllKept(current))
      <3>1. current \in Sessions
        BY ContextTyped
      <3> QED BY <1>1, <3>1 DEF ContextInv
    <2>1. CASE s = current' /\ pending # None
      <3>1. heap'[stored'[s]] = KeptHistory /\ disk'[s].history = KeptHistory
        <4>1. list # None
          BY <2>1, ConstantsAre
        <4> QED BY <1>5, <1>8, <2>1, <4>1
      <3>2. FileKept(s)'
        <4>1. IsPrefix(KeptHistory, KeptHistory)
          BY <1>2, <2>1, PrefixSelf
        <4> QED BY <3>1, <4>1 DEF FileKept
      <3>3. StoreKept(s)'
        <4> SUFFICES ASSUME NEW x \in Users(KeptHistory), x \in Range(t) PROVE x \in Range(heap'[history'])
          BY <1>6, <2>1, <3>1 DEF StoreKept
        <4>1. x \in Users(heap[stored[current]])
          BY <1>2, <2>1 DEF Users
        <4>2. Users(heap[stored[current]]) \cap Range(KeptTranscript) \subseteq Range(heap[history])
          BY <2>0, <2>1 DEF AllKept, StoreKept
        <4>3. stored[current] \in Lists
          BY ContextTyped
        <4> QED BY <1>9, <2>0, <2>1, <4>1, <4>2, <4>3
      <3>4. SaveKept(s)'
        BY <1>3, <2>1 DEF SaveKept
      <3> QED BY <3>2, <3>3, <3>4
    <2>2. CASE s # current' \/ pending = None
      <3>1. /\ stored'[s] = stored[s] /\ disk'[s] = disk[s]
            /\ stored[s] # None => heap'[stored[s]] = heap[stored[s]]
            /\ s = current' => s = current
        <4>1. stored[s] # None => stored[s] \in Used
          BY <1>0, UsedNow
        <4> QED BY <1>2, <1>5, <1>8, <2>2, <4>1
      <3>2. FileKept(s)'
        BY <2>0, <3>1 DEF AllKept, FileKept
      <3>3. StoreKept(s)'
        <4> SUFFICES ASSUME s = current', NEW x \in Users(heap'[stored'[s]]), x \in Range(t) PROVE x \in Range(heap'[history'])
          BY <1>6 DEF StoreKept
        <4>1. stored[s] \in Lists /\ stored[s] # None
          BY <3>1, ContextTyped
        <4>2. x \in Users(heap[stored[s]]) /\ Users(heap[stored[s]]) \cap Range(KeptTranscript) \subseteq Range(heap[history])
          BY <2>0, <3>1, <4>1 DEF AllKept, StoreKept
        <4> QED BY <1>9, <2>0, <4>1, <4>2
      <3>4. SaveKept(s)'
        <4> SUFFICES ASSUME save # None, save.id = s
                     PROVE  /\ disk[s] # None => Users(disk[s].history) \cap Range(save.messages) \subseteq Range(heap[save.history])
                            /\ s = current' => Users(heap[save.history]) \cap Range(t) \subseteq Range(heap'[history'])
          BY <1>6, <1>8, <3>1 DEF SaveKept
        <4>1. disk[s] # None => Users(disk[s].history) \cap Range(save.messages) \subseteq Range(heap[save.history])
          BY <2>0 DEF AllKept, SaveKept
        <4>2. ASSUME s = current', NEW x \in Users(heap[save.history]), x \in Range(t) PROVE x \in Range(heap'[history'])
          <5>1. Users(heap[save.history]) \cap Range(KeptTranscript) \subseteq Range(heap[history])
            BY <2>0, <3>1, <4>2 DEF AllKept, SaveKept
          <5>2. save.history \in Lists
            BY <1>0, UsedNow
          <5> QED BY <1>9, <2>0, <4>2, <5>1, <5>2
        <4> QED BY <4>1, <4>2
      <3> QED BY <3>2, <3>3, <3>4
    <2> QED BY <2>1, <2>2
  <1> QED BY <1>10, <1>11

\* The cache's entries are for the same sessions when a fork may have been made.
LEMMA ForksCacheKept ==
  ASSUME ContextInv, NEW list, Forks(list), Damaged \subseteq damaged', NEW s \in Sessions \ damaged', NEW asked \in Tellable, asked \in Own'[s]
  PROVE  \E r \in Sessions \ damaged : asked \in Own[r]
  <1>1. /\ damaged \subseteq damaged'
        /\ current' \notin damaged' => current \notin damaged
        /\ \A x \in Sessions : x # current' => Own'[x] = Own[x]
        /\ \A h \in Tellable : h \in Own'[current'] <=> h \in Own[current]
    BY ContextTyped, ForksOwn
  <1>2. current \in Sessions
    BY ContextTyped
  <1>3. CASE s = current'
    BY <1>1, <1>2, <1>3
  <1>4. CASE s # current'
    BY <1>1, <1>4
  <1> QED BY <1>3, <1>4

\* A turn begins with the prompts of the context.
LEMMA TurnStartsKept ==
  ASSUME ContextInv, ApartInv', TurnStarts
  PROVE  ContextInv'
  <1> DEFINE before == heap[history]
             list == CachedList(before)
             kept == CachedContents(before)
             new == Fresh({list})
             fork == Fresh({list, new})
  <1>1. /\ Forks(fork) /\ cache' = CacheAfter(before) /\ turn' = Append(kept, Says(current', "user"))
        /\ history' = new /\ save' = save /\ made < MaxMessages /\ made' = made + 1
        /\ damaged' = Damaged \cup Taken(before, current')
        /\ Become(Forked([heap EXCEPT ![list] = kept, ![new] = turn'], fork))
        /\ transcript' = [transcript EXCEPT ![current'] = Append(KeptTranscript, Says(current', "user"))]
    BY DEF TurnStarts
  <1>0. HistoryInv /\ HistoryInv' /\ ApartInv /\ HistoryType /\ (pending # None => opened < MaxSessions)
    BY ContextTyped DEF ApartInv, HistoryInv, HistoryType, OpenedOnly
  <1>2. before \in Tellable /\ before \in Contents /\ kept \in Contents /\ list \in Lists
    BY <1>0, TypedNow, CachedIs
  <1>3. /\ new \in Lists /\ new \notin Used /\ new # list
        /\ pending # None => fork \in Lists /\ fork \notin Used /\ fork # list /\ fork # new
    BY <1>0, FreshOne
  <1>4. list \in Used => kept = heap[list]
    BY <1>0, <1>2, CachedIs
  <1> PICK t : t = turn'
    OBVIOUS
  <1> PICK contents : contents = Forked([heap EXCEPT ![list] = kept, ![new] = t], fork)
    OBVIOUS
  <1>5. /\ contents[list] = kept /\ contents[new] = t /\ (pending # None => contents[fork] = KeptHistory)
        /\ \A l \in Used : contents[l] = heap[l]
    <2> HIDE DEF before, list, kept, new, fork
    <2>1. heap \in [Lists -> Contents] /\ Used \subseteq Lists
      BY <1>0, ContextTyped, UsedCount
    <2> QED BY <1>2, <1>3, <1>4, <2>1 DEF Forked
  <1>6. Become(contents)
    BY <1>1
  <1> PICK m : m = Says(current', "user")
    OBVIOUS
  <1>7. m \in Message /\ m.at = made + 1
    <2>1. made \in Nat /\ made + 1 \in 1 .. MaxMessages
      BY <1>0, <1>1, TypedNow, ConstantsAre
    <2>2. current' \in Sessions
      BY <1>0, <1>1, ForksOwn
    <2> QED BY <2>1, <2>2 DEF Says, Message
  <1>8. \A i \in DOMAIN cache' : \/ Entry(before) = 0 /\ cache'[i].key = before /\ cache'[i].list = list
                                 \/ \E j \in DOMAIN cache : cache'[i] = cache[j]
    <2> PICK after : after = cache'
      OBVIOUS
    <2>1. \A i \in DOMAIN after : \/ Entry(before) = 0 /\ after[i] = [key |-> before, list |-> list]
                                  \/ \E j \in DOMAIN cache : after[i] = cache[j]
      BY <1>0, <1>1, <1>2, CacheAfterIs
    <2> QED BY <2>1
  <1>9. ~ Mistaken(before) => \A s \in Sessions \ damaged : before \in Own[s] => Users(before) \subseteq Range(kept)
    BY CachedKept
  <1> HIDE DEF before, list, kept, new, fork
  <1>10. t = Append(kept, m) /\ Range(kept) \subseteq Range(t)
    <2>1. t = Append(kept, m)
      BY <1>1
    <2>2. Range(t) = Range(kept) \cup {m}
      BY <1>2, <1>7, <2>1, AppendedIs
    <2> QED BY <2>1, <2>2
  <1>11. /\ heap'[history'] = t
         /\ \A i \in DOMAIN cache' : heap'[cache'[i].list] = contents[cache'[i].list]
    BY <1>0, <1>1, <1>5, <1>6, HeapNext
  <1>12. current' \notin damaged' => Users(heap[history]) \subseteq Range(heap'[history'])
    <2> SUFFICES ASSUME current' \notin damaged' PROVE Users(before) \subseteq Range(t)
      BY <1>11 DEF before
    <2>1. current \in Sessions \ damaged
      BY <1>0, <1>1, ContextTyped, ForksOwn
    <2>2. before \in Own[current]
      BY <1>0, <2>1 DEF ApartInv, Apart, ContextApart, before
    <2>3. ~ Mistaken(before)
      <3>1. current' \in Sessions
        BY <1>0, <1>1, ForksOwn
      <3> QED BY <1>1, <3>1 DEF Taken
    <2> QED BY <1>9, <1>10, <2>1, <2>2, <2>3
  <1>13. ShownInv' /\ \A s \in Sessions \ damaged' : FileKept(s)' /\ StoreKept(s)' /\ SaveKept(s)'
    BY <1>1, <1>3, <1>5, <1>6, <1>7, <1>12, ForksKept
  <1>14. TurnKept'
    BY <1>11 DEF TurnKept, Users
  <1>15. ASSUME NEW s \in Sessions \ damaged' PROVE CacheKept(s)'
    <2> SUFFICES ASSUME NEW i \in DOMAIN cache', cache'[i].key \in Own'[s]
                 PROVE  Users(cache'[i].key) \subseteq Range(heap'[cache'[i].list])
      BY DEF CacheKept
    <2> PICK asked : asked = cache'[i].key
      OBVIOUS
    <2>1. CASE Entry(before) = 0 /\ asked = before /\ cache'[i].list = list
      <3>1. \E r \in Sessions \ damaged : before \in Own[r]
        BY <1>1, <1>2, <2>1, ForksCacheKept
      <3> QED BY <1>5, <1>9, <1>11, <2>1, <3>1 DEF Mistaken
    <2>2. CASE \E j \in DOMAIN cache : cache'[i] = cache[j]
      <3>1. PICK j \in DOMAIN cache : cache'[i] = cache[j]
        BY <2>2
      <3>2. cache[j].list \in Used /\ asked = cache[j].key /\ asked \in Tellable
        BY <1>0, <3>1, UsedNow DEF HistoryInv, OrderInv
      <3>3. heap'[cache'[i].list] = heap[cache[j].list]
        BY <1>5, <1>11, <3>1, <3>2
      <3>4. PICK r \in Sessions \ damaged : asked \in Own[r]
        BY <1>1, <3>2, ForksCacheKept
      <3>5. CacheKept(r)
        BY DEF ContextInv, AllKept
      <3> QED BY <3>1, <3>2, <3>3, <3>4, <3>5 DEF CacheKept
    <2> QED BY <1>8, <2>1, <2>2
  <1> QED BY <1>13, <1>14, <1>15 DEF ContextInv, AllKept

\* A command's message is shown, in a fork if one was chosen; the context is left.
LEMMA ShellStartsKept ==
  ASSUME ContextInv, ApartInv', ShellStarts
  PROVE  ContextInv'
  <1> DEFINE fork == Fresh({})
  <1>1. /\ Forks(fork) /\ UNCHANGED <<cache, turn, history, save>> /\ turn = <<>> /\ made < MaxMessages /\ made' = made + 1 /\ damaged' = Damaged
        /\ Become(Forked(heap, fork))
        /\ transcript' = [transcript EXCEPT ![current'] = Append(KeptTranscript, Says(current', "shell"))]
    BY DEF ShellStarts
  <1>0. HistoryInv /\ HistoryInv' /\ ApartInv /\ HistoryType
    BY ContextTyped DEF ApartInv, HistoryInv
  <1>2. fork \in Lists /\ fork \notin Used
    BY <1>0, FreshOne
  <1> PICK contents : contents = Forked(heap, fork)
    OBVIOUS
  <1>3. (pending # None => contents[fork] = KeptHistory) /\ \A l \in Used : contents[l] = heap[l]
    <2> HIDE DEF fork
    <2>1. heap \in [Lists -> Contents] /\ Used \subseteq Lists
      BY <1>0, ContextTyped, UsedCount
    <2> QED BY <1>2, <2>1 DEF Forked
  <1>4. Become(contents)
    BY <1>1
  <1> PICK m : m = Says(current', "shell")
    OBVIOUS
  <1>5. m \in Message /\ m.at = made + 1
    <2>1. made \in Nat /\ made + 1 \in 1 .. MaxMessages
      BY <1>0, <1>1, TypedNow, ConstantsAre
    <2>2. current' \in Sessions
      BY <1>0, <1>1, ForksOwn
    <2> QED BY <2>1, <2>2 DEF Says, Message
  <1> HIDE DEF fork
  <1>6. /\ heap'[history] = heap[history]
        /\ \A i \in DOMAIN cache : heap'[cache[i].list] = heap[cache[i].list]
    BY <1>0, <1>1, <1>3, <1>4, HeapNext, UsedNow
  <1>7. Users(heap[history]) \subseteq Range(heap'[history'])
    BY <1>1, <1>6 DEF Users
  <1>8. ShownInv' /\ \A s \in Sessions \ damaged' : FileKept(s)' /\ StoreKept(s)' /\ SaveKept(s)'
    BY <1>1, <1>2, <1>3, <1>4, <1>5, <1>7, ForksKept
  <1>9. TurnKept'
    BY <1>1 DEF TurnKept
  <1>10. ASSUME NEW s \in Sessions \ damaged' PROVE CacheKept(s)'
    <2> SUFFICES ASSUME NEW j \in DOMAIN cache, cache[j].key \in Own'[s]
                 PROVE  Users(cache[j].key) \subseteq Range(heap[cache[j].list])
      BY <1>1, <1>6 DEF CacheKept
    <2>1. cache[j].key \in Tellable
      BY <1>0 DEF HistoryInv, OrderInv
    <2>2. PICK r \in Sessions \ damaged : cache[j].key \in Own[r]
      BY <1>1, <2>1, ForksCacheKept
    <2>3. CacheKept(r)
      BY DEF ContextInv, AllKept
    <2> QED BY <2>2, <2>3 DEF CacheKept
  <1> QED BY <1>8, <1>9, <1>10 DEF ContextInv, AllKept

\* A process that has just started has nothing to keep.
LEMMA ContextInit == ASSUME Init PROVE ContextInv
  <1>1. ApartInv /\ HistoryInv
    BY ApartInit DEF ApartInv
  <1>2. made \in Nat /\ <<>> \in Shown
    BY <1>1, TypedNow, EmptyIs DEF Shown
  <1>3. ShownInv /\ TurnKept
    BY <1>2 DEF Init, ShownInv, TurnKept
  <1>4. ASSUME NEW s \in Sessions PROVE AllKept(s)
    <2>1. FileKept(s) /\ SaveKept(s)
      BY DEF Init, FileKept, SaveKept
    <2>2. StoreKept(s)
      <3>1. s = current => heap[stored[s]] = <<>>
        BY FirstLists DEF Init
      <3> QED BY <3>1, EmptyIs DEF StoreKept, Users
    <2>3. CacheKept(s)
      BY EmptyIs DEF Init, CacheKept
    <2> QED BY <2>1, <2>2, <2>3 DEF AllKept
  <1> QED BY <1>1, <1>3, <1>4 DEF ContextInv

\* ContextInv is inductive.
LEMMA ContextStep == ASSUME ContextInv, [Next]_vars PROVE ContextInv'
  <1>0. ApartInv'
    BY ContextTyped, ApartStep
  <1>1. CASE UNCHANGED vars
    <2>1. UNCHANGED <<heap, history, turn, cache, stored, save, transcript, disk, current, inherited, damaged, pending, made>>
      BY <1>1 DEF vars, forkVars
    <2>2. Own' = Own /\ TurnKept' /\ ShownInv' /\ KeptTranscript' = KeptTranscript
      BY <2>1, OwnSame, ShownSame DEF ContextInv, TurnKept, KeptTranscript
    <2>3. ASSUME NEW s \in Sessions \ damaged' PROVE AllKept(s)'
      <3>1. AllKept(s)
        BY <2>1 DEF ContextInv
      <3> QED BY <2>1, <2>2, <3>1 DEF AllKept, FileKept, StoreKept, SaveKept, CacheKept
    <2> QED BY <1>0, <2>2, <2>3 DEF ContextInv
  <1>2. CASE Next
    <2>1. CASE TurnStarts
      BY <1>0, <2>1, TurnStartsKept
    <2>2. CASE TurnEnds
      BY <1>0, <2>2, TurnEndsKept
    <2>3. CASE TurnStops
      BY <1>0, <2>3, TurnStopsKept
    <2>4. CASE ShellStarts
      BY <1>0, <2>4, ShellStartsKept
    <2>5. CASE ShellEnds
      BY <1>0, <2>5, ShellEndsKept
    <2>6. CASE SaveCollects
      BY <1>0, <2>6, SaveCollectsKept
    <2>7. CASE SaveWrites
      BY <1>0, <2>7, SaveWritesKept
    <2>8. CASE NewSession
      BY <1>0, <2>8, NewSessionKept
    <2>9. ASSUME NEW s \in Sessions, Resume(s) PROVE ContextInv'
      BY <1>0, <2>9, ResumeKept
    <2>10. ASSUME NEW k \in 0 .. Everything, Rewind(k) PROVE ContextInv'
      BY <1>0, <2>10, RewindKept
    <2>11. ASSUME NEW k \in 0 .. Everything, ChooseFork(k) PROVE ContextInv'
      BY <1>0, <2>11, ChooseForkKept
    <2>12. CASE Crash \/ Quit
      BY <1>0, <2>12, EndsKept
    <2> QED BY <1>2, <2>1, <2>2, <2>3, <2>4, <2>5, <2>6, <2>7, <2>8, <2>9, <2>10, <2>11, <2>12 DEF Next
  <1> QED BY <1>1, <1>2

\* A file that is not written forgets nothing.
LEMMA SameRemembered == ASSUME NEW s \in Sessions, disk'[s] = disk[s] PROVE Remembered(s)
  BY DEF Remembered

\* What a step that writes a file leaves out of it is no longer shown.
LEMMA StepRemembers ==
  ASSUME ContextInv, Next, NEW s \in Sessions \ damaged'
  PROVE  Remembered(s)
  <1>1. CASE UNCHANGED disk
    BY <1>1, SameRemembered
  <1>a. ASSUME s = current, AllKept(s), disk[s] # None PROVE Range(disk[s].history) \subseteq Range(heap[stored[s]])
    <2>1. IsPrefix(disk[s].history, heap[stored[s]])
      BY <1>a, ContextTyped DEF AllKept, FileKept
    <2>2. disk[s].history \in Contents /\ heap[stored[s]] \in Contents
      BY <1>a, ContextTyped
    <2> QED BY <2>1, <2>2, PrefixRange
  <1>2. ASSUME NEW list, Forks(list) PROVE Remembered(s)
    <2>1. CASE pending = None
      BY <1>1, <2>1, <1>2 DEF Forks
    <2>2. CASE pending # None
      <3> PICK n : n = opened + 1
        OBVIOUS
      <3>1. n \in Sessions /\ disk[n] = None
        BY <2>2, ContextTyped, NextOpened DEF HistoryInv, HistoryType, OpenedOnly
      <3>2. disk' = [disk EXCEPT ![n] = [messages |-> KeptTranscript, history |-> KeptHistory]]
        BY <1>2, <2>2 DEF Forks
      <3>3. s # n => disk'[s] = disk[s]
        BY <3>1, <3>2, ContextTyped
      <3> QED BY <3>1, <3>3, SameRemembered DEF Remembered
    <2> QED BY <2>1, <2>2
  <1>3. CASE SaveWrites
    <2> PICK list : list = Replacing(save.history)
      OBVIOUS
    <2> DEFINE file == [messages |-> save.messages, history |-> heap[list]]
    <2>1. /\ save # None
          /\ damaged' = IF save.id = current /\ save.messages = transcript[current] THEN damaged ELSE damaged \cup {save.id, current}
          /\ disk' = [disk EXCEPT ![current] = file] \/ disk' = disk
      BY <1>3 DEF SaveWrites, Writes
    <2>2. file.messages = save.messages /\ file.history = heap[list]
      OBVIOUS
    <2> HIDE DEF file
    <2>3. disk'[s] = disk[s] \/ (s = current /\ disk'[s] = file)
      BY <2>1, ContextTyped
    <2>4. CASE s = current /\ disk'[s] = file
      <3>1. save.id = s /\ AllKept(s)
        BY <2>1, <2>4 DEF ContextInv
      <3>2. disk[s] # None => Users(disk[s].history) \cap Range(save.messages) \subseteq Range(heap[list])
        <4>1. CASE list = save.history
          BY <2>1, <3>1, <4>1 DEF AllKept, SaveKept
        <4>2. CASE list = stored[s]
          BY <1>a, <2>4, <3>1, <4>2 DEF Users
        <4> QED BY <2>4, <4>1, <4>2 DEF Replacing
      <3> QED BY <2>2, <2>4, <3>2 DEF Remembered, Users
    <2> QED BY <2>3, <2>4, SameRemembered
  <1>4. CASE Quit
    <2> PICK list : list = Replacing(history)
      OBVIOUS
    <2> DEFINE file == [messages |-> transcript[current], history |-> heap[list]]
    <2>1. /\ damaged' = damaged \cup CutShort
          /\ disk' = [disk EXCEPT ![current] = file] \/ disk' = disk
      BY <1>4 DEF Quit, Writes
    <2>2. file.messages = transcript[current] /\ file.history = heap[list]
      OBVIOUS
    <2> HIDE DEF file
    <2>3. disk'[s] = disk[s] \/ (s = current /\ disk'[s] = file)
      BY <2>1, ContextTyped
    <2>4. CASE s = current /\ disk'[s] = file
      <3>1. pending \in {None, Everything} /\ AllKept(s)
        BY <2>1, <2>4 DEF ContextInv, CutShort
      <3>2. KeptTranscript = transcript[current]
        BY <3>1, ContextTyped, KeptShown
      <3>3. disk[s] # None => Range(disk[s].history) \subseteq Range(heap[stored[s]])
        BY <1>a, <2>4, <3>1
      <3>4. Users(heap[stored[s]]) \cap Range(transcript[s]) \subseteq Range(heap[history])
        BY <2>4, <3>1, <3>2 DEF AllKept, StoreKept
      <3>5. list = history \/ list = stored[s]
        BY <2>4 DEF Replacing
      <3> QED BY <2>2, <2>4, <3>3, <3>4, <3>5 DEF Remembered, Users
    <2> QED BY <2>3, <2>4, SameRemembered
  <1>5. CASE TurnStarts
    <2>1. \E list : Forks(list)
      BY <1>5 DEF TurnStarts
    <2> QED BY <1>2, <2>1
  <1>6. CASE ShellStarts
    BY <1>2, <1>6 DEF ShellStarts
  <1>7. CASE TurnEnds \/ TurnStops \/ ShellEnds \/ SaveCollects \/ NewSession \/ Crash
    BY <1>1, <1>7 DEF TurnEnds, TurnStops, ShellEnds, SaveCollects, NewSession, Crash
  <1>8. CASE (\E r \in Sessions : Resume(r)) \/ \E k \in 0 .. Everything : Rewind(k) \/ ChooseFork(k)
    BY <1>1, <1>8 DEF Resume, Rewind, ChooseFork
  <1> QED BY <1>3, <1>4, <1>5, <1>6, <1>7, <1>8 DEF Next

\* ContextKept: a session that none of the known races has touched is resumed with
\* the context its file holds, and no file loses a prompt that the session still shows.
THEOREM ContextKeptHolds == Spec => ContextKept
  <1>1. Init => ContextInv
    BY ContextInit
  <1>2. ContextInv /\ [Next]_vars => ContextInv'
    BY ContextStep
  <1>3. ContextInv /\ [Next]_vars =>
          [/\ \A s \in Sessions \ damaged : Resume(s) => Restored(s)
           /\ \A s \in Sessions \ damaged' : Remembered(s)]_vars
    <2> SUFFICES ASSUME ContextInv, Next
                 PROVE  /\ \A s \in Sessions \ damaged : Resume(s) => Restored(s)
                        /\ \A s \in Sessions \ damaged' : Remembered(s)
      OBVIOUS
    <2>1. ApartInv'
      BY ContextTyped, ApartStep
    <2>2. ASSUME NEW s \in Sessions \ damaged, Resume(s) PROVE Restored(s)
      BY <2>1, <2>2, ResumeKept
    <2> QED BY <2>2, StepRemembers
  <1> QED BY <1>1, <1>2, <1>3, PTL DEF Spec, ContextKept

=============================================================================
