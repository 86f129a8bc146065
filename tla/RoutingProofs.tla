--------------------------- MODULE RoutingProofs ----------------------------
(***************************************************************************)
(* Routing: the readers of a plainly written owner map agree on the owner  *)
(* of a path, and what the generated zones hide is guarded, for every map, *)
(* manifest and path.                                                      *)
(***************************************************************************)
EXTENDS Routing, FiniteSetTheorems, SequenceTheorems, WellFoundedInduction, TLAPS

\* To the provers a literal is a value like any other: they do not know it to be a STRING.
Symbols == STRING \cup {Slash}
Texts == Seq(Symbols)

-----------------------------------------------------------------------------
(* The least and the greatest of numbers.                                  *)

LEMMA LeastExists ==
  ASSUME NEW S, S \subseteq Nat, S # {}
  PROVE  \E x \in S : \A y \in S : x <= y
<1>1. \E x \in S : \A y \in S : <<y, x>> \notin OpToRel(<, Nat)
  BY NatLessThanWellFounded, WFMin
<1>2. \A x, y \in Nat : <<y, x>> \notin OpToRel(<, Nat) => x <= y
  BY DEF OpToRel
<1> QED BY <1>1, <1>2

LEMMA MinIsLeast ==
  ASSUME NEW S, S \subseteq Nat, S # {}
  PROVE  Min(S) \in S /\ \A y \in S : Min(S) <= y
<1>1. \E x \in S : \A y \in S : x =< y
  BY LeastExists
<1> QED BY <1>1 DEF Min

LEMMA MaxIsGreatest ==
  ASSUME NEW S, S \subseteq Nat, S # {}, NEW n \in Nat, \A x \in S : x <= n
  PROVE  Max(S) \in S /\ \A y \in S : y <= Max(S)
<1> DEFINE T == {n - x : x \in S}
<1>1. T \subseteq Nat /\ T # {}
  <2>1. \A x \in S : n - x \in Nat
    OBVIOUS
  <2> QED BY <2>1
<1>2. PICK z \in T : \A y \in T : z <= y
  BY <1>1, LeastExists
<1>3. PICK x \in S : z = n - x
  BY <1>2
<1>4. \A y \in S : x >= y
  <2> SUFFICES ASSUME NEW y \in S PROVE x >= y
    OBVIOUS
  <2>1. n - x <= n - y
    BY <1>2, <1>3
  <2> QED BY <2>1
<1>5. \A y \in S : Max(S) >= y
  BY <1>3, <1>4 DEF Max
<1>6. Max(S) \in S
  BY <1>3, <1>4 DEF Max
<1> QED BY <1>5, <1>6

-----------------------------------------------------------------------------
(* Prefixes and normalization.                                             *)

LEMMA PrefixElements ==
  ASSUME NEW s \in Texts, NEW t \in Texts
  PROVE  IsPrefix(s, t) <=> Len(s) <= Len(t) /\ \A i \in 1 .. Len(s) : s[i] = t[i]
<1>1. Len(s) \in Nat /\ Len(t) \in Nat
  BY LenProperties DEF Texts
<1>2. SubSeq(s, 1, Len(s)) = s
  BY SubSeqFull DEF Texts
<1>3. ASSUME Len(s) <= Len(t)
      PROVE  /\ SubSeq(t, 1, Len(s)) \in Texts /\ Len(SubSeq(t, 1, Len(s))) = Len(s)
             /\ \A i \in 1 .. Len(s) : SubSeq(t, 1, Len(s))[i] = t[i]
  <2>1. \A i \in 1 .. Len(s) : t[i] \in Symbols
    BY <1>1, <1>3, ElementOfSeq DEF Texts
  <2> QED BY <1>1, <1>3, <2>1, SubSeqProperties DEF Texts
<1>4. ASSUME Len(s) <= Len(t), \A i \in 1 .. Len(s) : s[i] = t[i]
      PROVE  s = SubSeq(t, 1, Len(s))
  BY <1>1, <1>3, <1>4, SeqEqual DEF Texts
<1> QED BY <1>2, <1>3, <1>4 DEF IsPrefix

\* Two prefixes of a text that are as long are the same.
LEMMA SamePrefix ==
  ASSUME NEW s \in Texts, NEW t \in Texts, NEW u \in Texts,
         IsPrefix(s, u), IsPrefix(t, u), Len(s) = Len(t)
  PROVE  s = t
BY PrefixElements, SeqEqual DEF Texts

LEMMA TrimType ==
  ASSUME NEW text \in Texts
  PROVE  /\ Trim(text) \in Texts
         /\ Trim(text) # <<>> => /\ Trim(text)[1] # Slash
                                 /\ Trim(text)[Len(Trim(text))] # Slash
<1>1. CASE Kept(text) = {}
  BY <1>1, EmptySeq DEF Trim, Texts
<1>2. CASE Kept(text) # {}
  <2> DEFINE a == Min(Kept(text))
             b == Max(Kept(text))
  <2>1. Len(text) \in Nat /\ Kept(text) \subseteq 1 .. Len(text)
    BY LenProperties DEF Kept, Texts
  <2>2. a \in Kept(text) /\ b \in Kept(text) /\ a <= b
    <3>1. Kept(text) \subseteq Nat /\ \A x \in Kept(text) : x <= Len(text)
      BY <2>1
    <3> QED BY <1>2, <2>1, <3>1, MinIsLeast, MaxIsGreatest
  <2>3. \A i \in a .. b : text[i] \in Symbols
    BY <2>1, <2>2, ElementOfSeq DEF Texts
  <2>4. /\ SubSeq(text, a, b) \in Texts
        /\ Len(SubSeq(text, a, b)) = b - a + 1
        /\ \A i \in 1 .. b - a + 1 : SubSeq(text, a, b)[i] = text[a + i - 1]
    BY <2>1, <2>2, <2>3, SubSeqProperties DEF Texts
  <2>5. text[a] # Slash /\ text[b] # Slash
    BY <2>2 DEF Kept
  <2>6. a \in Int /\ b \in Int /\ a + (b - a + 1) - 1 = b /\ a + 1 - 1 = a
    BY <2>1, <2>2
  <2>7. Trim(text) = SubSeq(text, a, b)
    BY <1>2 DEF Trim
  <2> HIDE DEF a, b
  <2>8. SubSeq(text, a, b)[1] = text[a] /\ SubSeq(text, a, b)[b - a + 1] = text[b]
    BY <2>2, <2>4, <2>6
  <2> QED BY <2>4, <2>5, <2>7, <2>8
<1> QED BY <1>1, <1>2

LEMMA UndottedType == ASSUME NEW text \in Texts PROVE Undotted(text) \in Texts
<1> DEFINE dots == {k \in 0 .. Len(text) \div 2 :
                      \A i \in 1 .. k : text[2 * i - 1] = "." /\ text[2 * i] = Slash}
<1>1. Len(text) \in Nat
  BY LenProperties DEF Texts
<1>2. 0 \in dots /\ dots \subseteq Nat /\ \A x \in dots : x <= Len(text)
  BY <1>1
<1>3. Max(dots) \in Nat
  BY <1>1, <1>2, MaxIsGreatest
<1>4. Undotted(text) = SubSeq(text, 2 * Max(dots) + 1, Len(text))
  BY DEF Undotted
<1> HIDE DEF dots
<1>5. \A i \in 2 * Max(dots) + 1 .. Len(text) : text[i] \in Symbols
  BY <1>1, <1>3, ElementOfSeq DEF Texts
<1> QED BY <1>1, <1>3, <1>4, <1>5, SubSeqProperties DEF Texts

\* What normalization leaves begins and ends in a name.
LEMMA NormalizedType ==
  ASSUME NEW text \in Texts
  PROVE  /\ Normalized(text) \in Texts
         /\ Normalized(text) # <<>> => /\ Normalized(text)[1] # Slash
                                       /\ Normalized(text)[Len(Normalized(text))] # Slash
BY UndottedType, TrimType DEF Normalized

LEMMA AppendedSlash ==
  ASSUME NEW text \in Texts
  PROVE  /\ Append(text, Slash) \in Texts
         /\ Len(Append(text, Slash)) = Len(text) + 1
         /\ Append(text, Slash)[Len(text) + 1] = Slash
         /\ \A i \in 1 .. Len(text) : Append(text, Slash)[i] = text[i]
<1>1. Slash \in Symbols
  BY DEF Symbols
<1>2. Len(text) \in Nat
  BY LenProperties DEF Texts
<1> QED BY <1>1, <1>2, AppendProperties DEF Texts

\* A text that goes one slash beyond another.
LEMMA TrimmedSlash ==
  ASSUME NEW t \in Texts, t # <<>> => t[Len(t)] # Slash,
         NEW key \in Texts, \A i \in 1 .. Len(t) : key[i] = t[i],
         Len(key) = Len(t) \/ (Len(key) = Len(t) + 1 /\ key[Len(t) + 1] = Slash)
  PROVE  TrimEnd(key) = t
<1>1. Len(t) \in Nat /\ Len(key) \in Nat
  BY LenProperties DEF Texts
<1>2. DOMAIN key = 1 .. Len(key)
  BY LenProperties DEF Texts
<1>3. \A i \in Nat : i <= Len(key) /\ i > Len(t) => key[i] = Slash
  BY <1>1
<1>k. \A i : i \in Kept(key) <=> i \in 1 .. Len(key) /\ key[i] # Slash
  BY <1>2 DEF Kept
<1>4. Kept(key) \subseteq 1 .. Len(t)
  BY <1>1, <1>k, <1>3
<1>5. CASE t = <<>>
  <2>1. Len(t) = 0
    BY <1>5
  <2>2. Kept(key) = {}
    BY <1>4, <2>1
  <2> QED BY <1>5, <2>2 DEF TrimEnd
<1>6. CASE t # <<>>
  <2>1. Len(t) >= 1
    BY <1>1, <1>6, EmptySeq DEF Texts
  <2>2. key[Len(t)] # Slash
    BY <1>1, <1>6, <2>1
  <2>3. Len(t) \in Kept(key)
    BY <1>1, <1>k, <2>1, <2>2
  <2>4. Max(Kept(key)) = Len(t)
    <3>1. Kept(key) \subseteq Nat /\ \A x \in Kept(key) : x <= Len(t)
      BY <1>1, <1>4
    <3>2. Max(Kept(key)) \in Kept(key) /\ Len(t) <= Max(Kept(key))
      BY <1>1, <2>3, <3>1, MaxIsGreatest
    <3> QED BY <1>1, <3>1, <3>2
  <2>5. /\ SubSeq(key, 1, Len(t)) \in Texts /\ Len(SubSeq(key, 1, Len(t))) = Len(t)
        /\ \A i \in 1 .. Len(t) : SubSeq(key, 1, Len(t))[i] = key[i]
    <3>1. \A i \in 1 .. Len(t) : key[i] \in Symbols
      BY ElementOfSeq DEF Texts
    <3> QED BY <1>1, <2>1, <3>1, SubSeqProperties DEF Texts
  <2>6. SubSeq(key, 1, Len(t)) = t
    BY <1>1, <2>5, SeqEqual DEF Texts
  <2> QED BY <2>3, <2>4, <2>6 DEF TrimEnd
<1> QED BY <1>5, <1>6

\* Of a plain key, only the slash behind is trimmed.
LEMMA TrimmedPlain ==
  ASSUME NEW t \in Texts, t # <<>> => t[Len(t)] # Slash,
         NEW key, key = t \/ key = Append(t, Slash)
  PROVE  key \in Texts /\ TrimEnd(key) = t
<1>1. CASE key = t
  BY <1>1, TrimmedSlash
<1>2. CASE key = Append(t, Slash)
  BY <1>2, AppendedSlash, TrimmedSlash
<1> QED BY <1>1, <1>2


-----------------------------------------------------------------------------
(* Keys and paths.                                                         *)

PlainKey(key) == key = Normalized(key) \/ key = Append(Normalized(key), Slash)
PlainPath(path) == path \in Texts /\ path # <<>> /\ Normalized(path) = path

LEMMA PlainType ==
  ASSUME NEW key \in Texts, PlainKey(key)
  PROVE  /\ Normalized(key) \in Texts
         /\ TrimEnd(key) = Normalized(key)
         /\ Len(Normalized(key)) <= Len(key) /\ Len(key) <= Len(Normalized(key)) + 1
<1> DEFINE t == Normalized(key)
<1>1. t \in Texts /\ (t # <<>> => t[Len(t)] # Slash)
  BY NormalizedType
<1>2. Len(t) \in Nat
  BY <1>1, LenProperties DEF Texts
<1>3. key = t \/ key = Append(t, Slash)
  BY DEF PlainKey
<1> HIDE DEF t
<1>4. TrimEnd(key) = t
  BY <1>1, <1>3, TrimmedPlain
<1>5. Len(t) <= Len(key) /\ Len(key) <= Len(t) + 1
  BY <1>1, <1>2, <1>3, AppendedSlash
<1> QED BY <1>1, <1>4, <1>5 DEF t

LEMMA AppendedPrefix ==
  ASSUME NEW t \in Texts, NEW path \in Texts
  PROVE  IsPrefix(Append(t, Slash), path) <=>
            Len(t) < Len(path) /\ IsPrefix(t, path) /\ path[Len(t) + 1] = Slash
<1> DEFINE u == Append(t, Slash)
<1>1. Len(t) \in Nat /\ Len(path) \in Nat
  BY LenProperties DEF Texts
<1>2. u \in Texts /\ Len(u) = Len(t) + 1 /\ u[Len(t) + 1] = Slash
      /\ \A i \in 1 .. Len(t) : u[i] = t[i]
  BY AppendedSlash
<1> HIDE DEF u
<1>3. IsPrefix(u, path) <=> Len(u) <= Len(path) /\ \A i \in 1 .. Len(u) : u[i] = path[i]
  BY <1>2, PrefixElements
<1>4. IsPrefix(t, path) <=> Len(t) <= Len(path) /\ \A i \in 1 .. Len(t) : t[i] = path[i]
  BY PrefixElements
<1>5. (\A i \in 1 .. Len(u) : u[i] = path[i]) <=>
        (\A i \in 1 .. Len(t) : t[i] = path[i]) /\ path[Len(t) + 1] = Slash
  <2>1. \A i : i \in 1 .. Len(u) <=> i \in 1 .. Len(t) \/ i = Len(t) + 1
    BY <1>1, <1>2
  <2> QED BY <1>2, <2>1
<1>6. Len(u) <= Len(path) <=> Len(t) < Len(path)
  BY <1>1, <1>2
<1>7. IsPrefix(u, path) <=>
            Len(t) < Len(path) /\ IsPrefix(t, path) /\ path[Len(t) + 1] = Slash
  BY <1>1, <1>3, <1>4, <1>5, <1>6
<1> QED BY <1>7 DEF u

\* What a key is routed by, its text is a prefix of, but for a file listed as a directory.
LEMMA RoutedStarts ==
  ASSUME NEW path, PlainPath(path), NEW key \in Texts, PlainKey(key),
         key # Append(path, Slash), RouteMatch(path, key)
  PROVE  IsPrefix(key, path)
<1> DEFINE t == Normalized(key)
<1>1. t \in Texts /\ path \in Texts
  BY NormalizedType DEF PlainPath
<1>2. path = t \/ IsPrefix(Append(t, Slash), path)
  BY DEF RouteMatch, Within, PlainPath
<1>3. key = t \/ key = Append(t, Slash)
  BY DEF PlainKey
<1> HIDE DEF t
<1>4. CASE path = t
  BY <1>1, <1>3, <1>4, PrefixElements
<1>5. CASE IsPrefix(Append(t, Slash), path)
  BY <1>1, <1>3, <1>5, AppendedPrefix
<1> QED BY <1>2, <1>4, <1>5

\* A path below what is left of a key is routed by it.
LEMMA BelowIsRouted ==
  ASSUME NEW path, PlainPath(path), NEW key \in Texts, PlainKey(key),
         IsPrefix(Append(TrimEnd(key), Slash), path)
  PROVE  RouteMatch(path, key)
<1> DEFINE t == Normalized(key)
<1>1. t \in Texts /\ path \in Texts /\ TrimEnd(key) = t
  BY NormalizedType, PlainType DEF PlainPath
<1>2. t # <<>>
  <2> SUFFICES ASSUME t = <<>> PROVE FALSE
    OBVIOUS
  <2>1. Len(t) + 1 = 1
    OBVIOUS
  <2>2. path[1] = Slash
    <3>1. IsPrefix(Append(t, Slash), path)
      BY <1>1
    <3> HIDE DEF t
    <3>2. path[Len(t) + 1] = Slash
      BY <1>1, <3>1, AppendedPrefix
    <3> QED BY <2>1, <3>2
  <2>3. path[1] # Slash
    BY NormalizedType DEF PlainPath
  <2> QED BY <2>2, <2>3
<1> QED BY <1>1, <1>2 DEF RouteMatch, Within, PlainPath

\* Of two keys a path is routed by, the longer has more names.
LEMMA LongerIsSpecific ==
  ASSUME NEW path, PlainPath(path), NEW k \in Texts, NEW l \in Texts,
         RouteMatch(path, k), RouteMatch(path, l), Len(Normalized(k)) < Len(Normalized(l))
  PROVE  /\ Specificity(k) \in Int /\ Specificity(l) \in Int
         /\ Specificity(k) < Specificity(l)
<1> DEFINE s == Normalized(k)
           t == Normalized(l)
           S == {i \in DOMAIN s : s[i] = Slash}
           T == {i \in DOMAIN t : t[i] = Slash}
<1>1. s \in Texts /\ t \in Texts /\ path \in Texts /\ Len(s) < Len(t)
  BY NormalizedType DEF PlainPath
<1>2. Len(s) \in Nat /\ Len(t) \in Nat /\ Len(path) \in Nat
      /\ DOMAIN s = 1 .. Len(s) /\ DOMAIN t = 1 .. Len(t)
  BY <1>1, LenProperties DEF Texts
<1>3. /\ path = s \/ IsPrefix(Append(s, Slash), path)
      /\ path = t \/ IsPrefix(Append(t, Slash), path)
  BY DEF RouteMatch, Within, PlainPath
<1>4. Specificity(k) = Cardinality(S) + 1 /\ Specificity(l) = Cardinality(T) + 1
  BY DEF Specificity
<1> HIDE DEF s, t
<1>5. IsPrefix(t, path)
  BY <1>1, <1>3, PrefixElements, AppendedPrefix
<1>6. Len(t) <= Len(path) /\ \A i \in 1 .. Len(t) : t[i] = path[i]
  BY <1>1, <1>5, PrefixElements
<1>7. IsPrefix(s, path) /\ path[Len(s) + 1] = Slash
  <2>1. path # s
    BY <1>1, <1>2, <1>6
  <2> QED BY <1>1, <1>3, <2>1, AppendedPrefix
<1>8. \A i \in 1 .. Len(s) : s[i] = path[i]
  BY <1>1, <1>7, PrefixElements
<1>9. Len(s) + 1 \in T /\ Len(s) + 1 \notin S /\ S \subseteq T
  <2>1. \A i : i \in S <=> i \in 1 .. Len(s) /\ s[i] = Slash
    BY <1>2
  <2>2. \A i : i \in T <=> i \in 1 .. Len(t) /\ t[i] = Slash
    BY <1>2
  <2> HIDE DEF S, T
  <2>3. Len(s) + 1 \in 1 .. Len(t) /\ Len(s) + 1 \notin 1 .. Len(s)
    BY <1>1, <1>2
  <2>4. \A i \in 1 .. Len(s) : i \in 1 .. Len(t)
    BY <1>1, <1>2
  <2> QED BY <1>6, <1>7, <1>8, <2>1, <2>2, <2>3, <2>4
<1>10. IsFiniteSet(T)
  <2>1. IsFiniteSet(1 .. Len(t))
    BY <1>2, FS_Interval
  <2>2. T \subseteq 1 .. Len(t)
    BY <1>2
  <2> QED BY <2>1, <2>2, FS_Subset
<1> HIDE DEF S, T
<1>11. S \subseteq T \ {Len(s) + 1} /\ IsFiniteSet(T \ {Len(s) + 1})
       /\ Cardinality(T \ {Len(s) + 1}) = Cardinality(T) - 1
  BY <1>9, <1>10, FS_RemoveElement
<1>12. Cardinality(S) <= Cardinality(T) - 1 /\ Cardinality(S) \in Nat /\ Cardinality(T) \in Nat
  BY <1>10, <1>11, FS_Subset, FS_CardinalityType
<1> QED BY <1>4, <1>12

-----------------------------------------------------------------------------
(* The readers of an owner map.                                            *)

LEMMA LongestIsThere ==
  ASSUME NEW entries, \A i \in DOMAIN entries : entries[i].key \in Texts,
         NEW path \in Texts, Starting(entries, path) # {}
  PROVE  /\ LongestKey(entries, path) \in Starting(entries, path)
         /\ \A j \in Starting(entries, path) :
               Len(entries[j].key) <= Len(entries[LongestKey(entries, path)].key)
<1> DEFINE lengths == {Len(entries[i].key) : i \in Starting(entries, path)}
<1>1. \A i \in Starting(entries, path) : Len(entries[i].key) \in Nat
                                         /\ Len(entries[i].key) <= Len(path)
  <2> SUFFICES ASSUME NEW i \in Starting(entries, path)
               PROVE  Len(entries[i].key) \in Nat /\ Len(entries[i].key) <= Len(path)
    OBVIOUS
  <2>1. entries[i].key \in Texts /\ IsPrefix(entries[i].key, path)
    BY DEF Starting
  <2> QED BY <2>1, PrefixElements, LenProperties DEF Texts
<1>2. lengths \subseteq Nat /\ lengths # {} /\ \A n \in lengths : n <= Len(path)
  BY <1>1
<1>3. Max(lengths) \in lengths /\ \A n \in lengths : n <= Max(lengths)
  <2>1. Len(path) \in Nat
    BY LenProperties DEF Texts
  <2> HIDE DEF lengths
  <2> QED BY <1>2, <2>1, MaxIsGreatest
<1>4. PICK i \in Starting(entries, path) : Len(entries[i].key) = Max(lengths)
  BY <1>3
<1>5. \A j \in Starting(entries, path) : Len(entries[j].key) <= Len(entries[i].key)
  BY <1>3, <1>4
<1> QED BY <1>5 DEF LongestKey

LEMMA ConsistentKeys ==
  ASSUME NEW map, map.state = "whole", \A i \in DOMAIN map.entries : map.entries[i].key \in Texts,
         PlainKeys(map), NEW path, PlainPath(path), ~AsDirectory(map, path)
  PROVE  Consistent(map, path)
<1> DEFINE key(i) == map.entries[i].key
           begun == Starting(map.entries, path)
           routes == CatalogRoutes(map, path)
<1>1. \A i \in DOMAIN map.entries : /\ key(i) \in Texts /\ PlainKey(key(i))
                                    /\ key(i) # Append(path, Slash)
  BY DEF PlainKeys, PlainKey, AsDirectory
<1>2. begun \subseteq DOMAIN map.entries /\ \A i \in DOMAIN map.entries :
          i \in begun <=> IsPrefix(key(i), path)
  BY DEF Starting
<1>3. routes \subseteq DOMAIN map.entries /\ \A i \in DOMAIN map.entries :
          i \in routes <=> RouteMatch(path, key(i))
  BY DEF CatalogRoutes
<1>4. routes \subseteq begun
  BY <1>1, <1>2, <1>3, RoutedStarts
<1>5. routes # {} => ~MissingOwner(map, path)
  BY <1>2, <1>4 DEF MissingOwner
<1>6. ASSUME begun \subseteq routes, ~MissingOwner(map, path) PROVE routes # {}
  <2>1. PICK i \in DOMAIN map.entries :
          IsPrefix(key(i), path) \/ IsPrefix(Append(TrimEnd(key(i)), Slash), path)
    BY <1>6 DEF MissingOwner
  <2>2. i \in routes
    BY <1>1, <1>2, <1>3, <1>6, <2>1, BelowIsRouted
  <2> QED BY <2>2
<1>7. ASSUME begun \subseteq routes, begun # {}
      PROVE  FindingOwner(map, path) = CatalogOwner(map, path)
  <2> DEFINE longest == LongestKey(map.entries, path)
             specific(i) == Specificity(key(i))
             numbers == {Specificity(map.entries[i].key) : i \in routes}
  <2>1. path \in Texts
    BY DEF PlainPath
  <2>2. longest \in begun /\ \A j \in begun : Len(key(j)) <= Len(key(longest))
    BY <1>1, <1>7, <2>1, LongestIsThere
  <2>3. routes = begun
    BY <1>4, <1>7
  <2>4. ASSUME NEW j \in routes, j # longest
        PROVE  /\ specific(j) \in Int /\ specific(longest) \in Int
               /\ specific(j) < specific(longest)
    <3> DEFINE t == Normalized(key(j))
               u == Normalized(key(longest))
    <3>1. j \in DOMAIN map.entries /\ longest \in DOMAIN map.entries
          /\ j \in begun /\ longest \in routes
      BY <1>2, <2>2, <2>3
    <3>2. t # u
      BY <2>4, <3>1 DEF PlainKeys
    <3>3. /\ t \in Texts /\ Len(t) <= Len(key(j)) /\ Len(key(j)) <= Len(t) + 1
          /\ u \in Texts /\ Len(u) <= Len(key(longest)) /\ Len(key(longest)) <= Len(u) + 1
      BY <1>1, <3>1, PlainType
    <3>4. IsPrefix(key(j), path) /\ IsPrefix(key(longest), path)
          /\ RouteMatch(path, key(j)) /\ RouteMatch(path, key(longest))
      <4>1. IsPrefix(key(j), path) /\ IsPrefix(key(longest), path)
        <5>1. \A i \in begun : IsPrefix(map.entries[i].key, path)
          BY DEF Starting
        <5> QED BY <2>2, <3>1, <5>1
      <4>2. RouteMatch(path, key(j)) /\ RouteMatch(path, key(longest))
        BY <3>1 DEF CatalogRoutes
      <4> QED BY <4>1, <4>2
    <3>5. IsPrefix(t, path) /\ IsPrefix(u, path)
      <4>1. ASSUME NEW k \in Texts, RouteMatch(path, k) PROVE IsPrefix(Normalized(k), path)
        <5>1. Normalized(k) \in Texts
          BY NormalizedType
        <5>2. path = Normalized(k) \/ IsPrefix(Append(Normalized(k), Slash), path)
          BY <4>1 DEF RouteMatch, Within, PlainPath
        <5> QED BY <2>1, <5>1, <5>2, PrefixElements, AppendedPrefix
      <4> QED BY <1>1, <3>1, <3>4, <4>1
    <3>6. Len(t) # Len(u)
      BY <2>1, <3>2, <3>3, <3>5, SamePrefix
    <3>7. Len(t) \in Nat /\ Len(u) \in Nat /\ Len(key(j)) \in Nat /\ Len(key(longest)) \in Nat
      BY <1>1, <3>1, <3>3, LenProperties DEF Texts
    <3>8. ~(Len(u) < Len(t))
      <4> SUFFICES ASSUME Len(u) < Len(t) PROVE FALSE
        OBVIOUS
      <4>1. Len(key(longest)) = Len(key(j))
        BY <2>2, <3>1, <3>3, <3>7
      <4>2. key(longest) = key(j)
        BY <1>1, <2>1, <3>1, <3>4, <4>1, SamePrefix
      <4> QED BY <3>2, <4>2
    <3>9. Len(t) < Len(u)
      BY <3>6, <3>7, <3>8
    <3> QED BY <1>1, <3>1, <3>4, <3>9, LongerIsSpecific
  <2>5. specific(longest) \in numbers /\ \A n \in numbers : n = specific(longest)
           \/ (n \in Int /\ specific(longest) \in Int /\ n < specific(longest))
    BY <2>2, <2>3, <2>4
  <2>6. specific(longest) \in Int
    <3>1. specific(longest) = Cardinality({i \in DOMAIN Normalized(key(longest)) :
                                            Normalized(key(longest))[i] = Slash}) + 1
      BY DEF Specificity
    <3>2. Normalized(key(longest)) \in Texts
      BY <1>1, <1>2, <2>2, NormalizedType
    <3>3. IsFiniteSet({i \in DOMAIN Normalized(key(longest)) :
                                            Normalized(key(longest))[i] = Slash})
      BY <3>2, LenProperties, FS_Interval, FS_Subset DEF Texts
    <3> QED BY <3>1, <3>3, FS_CardinalityType
  <2>7. Max(numbers) = specific(longest)
    <3> HIDE DEF numbers, specific
    <3>1. \A n \in numbers : specific(longest) >= n
      BY <2>5, <2>6
    <3>2. Max(numbers) \in numbers /\ \A n \in numbers : Max(numbers) >= n
      BY <2>5, <3>1 DEF Max
    <3> QED BY <2>5, <2>6, <3>2
  <2>8. {i \in routes : Specificity(map.entries[i].key) = Max(numbers)} = {longest}
    <3>1. longest \in routes /\ Specificity(map.entries[longest].key) = Max(numbers)
      BY <2>2, <2>3, <2>7
    <3>2. ASSUME NEW j \in routes, j # longest
          PROVE  Specificity(map.entries[j].key) # Max(numbers)
      <4> HIDE DEF numbers
      <4>1. specific(j) # specific(longest)
        BY <2>4, <3>2
      <4> QED BY <2>7, <4>1
    <3> HIDE DEF numbers, longest, routes
    <3> QED BY <3>1, <3>2
  <2>9. Max({longest}) = longest
    BY DEF Max
  <2>10. CatalogRoute(map, path) = longest
    BY <2>8, <2>9 DEF CatalogRoute
  <2> QED BY <1>7, <2>3, <2>10 DEF FindingOwner, CatalogOwner
<1> HIDE DEF key, begun, routes
<1>8. (\A i \in begun : RouteMatch(path, key(i))) => begun \subseteq routes
  BY <1>2, <1>3
<1> QED BY <1>5, <1>6, <1>7, <1>8 DEF Consistent, key, begun, routes

-----------------------------------------------------------------------------
(* The generated zones.                                                    *)

LEMMA GuardedZones == ASSUME NEW file, NEW path PROVE Guarded(file, path)
<1>1. ASSUME Suppressed(file, path)
      PROVE  \/ path \in EditHits(file, {path})
             \/ InZone({z \in ZonesOf(file) : z.policy \in Refreshing}, path)
  <2>1. PICK z \in ZonesOf(file) : z.policy # "reviewed_manual" /\ Within(path, TrimEnd(z.path))
    BY <1>1 DEF Suppressed, InZone, SuppressionZones
  <2>2. CASE z.policy \in Refreshing
    BY <2>1, <2>2 DEF InZone
  <2>3. CASE z.policy \notin Refreshing
    BY <2>1, <2>3 DEF EditHits, InZone, GovernedZones
  <2> QED BY <2>2, <2>3
<1>2. ASSUME path \in EditHits(file, {path})
      PROVE  Suppressed(file, path) \/ InZone(ProtectedZones(file), path)
  BY <1>2 DEF EditHits, InZone, GovernedZones, Suppressed, SuppressionZones, ProtectedZones
<1> QED BY <1>1, <1>2 DEF Guarded

=============================================================================
