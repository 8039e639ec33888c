------------------------------ MODULE CallStack ------------------------------
(***************************************************************************)
(* Facts about a sequence used as a stack whose last item is its top: what *)
(* is left when the top goes, and when one or two items replace it.        *)
(* Nothing is known of the items, so "a sequence of anything" is a sequence*)
(* of its own elements.                                                    *)
(***************************************************************************)
EXTENDS Integers, Sequences, SequenceTheorems, TLAPS

IsStack(s) == s \in Seq({s[i] : i \in 1..Len(s)})

\* s without its top.
Below(s) == SubSeq(s, 1, Len(s) - 1)

\* w is s without its top, with one item in place of its top, with two.
Popped(w, s) ==
  /\ IsStack(w)
  /\ Len(s) \in Nat \ {0} /\ Len(w) = Len(s) - 1
  /\ \A i \in 1..(Len(s) - 1) : w[i] = s[i]

Topped(w, s, a) ==
  /\ IsStack(w)
  /\ Len(s) \in Nat \ {0} /\ Len(w) = Len(s)
  /\ w[Len(s)] = a
  /\ \A i \in 1..(Len(s) - 1) : w[i] = s[i]

ToppedByTwo(w, s, a, b) ==
  /\ IsStack(w)
  /\ Len(s) \in Nat \ {0} /\ Len(w) = Len(s) + 1
  /\ w[Len(s)] = a /\ w[Len(s) + 1] = b
  /\ \A i \in 1..(Len(s) - 1) : w[i] = s[i]

\* Every sequence is a stack.
LEMMA StackOfSeq ==
  ASSUME NEW S, NEW s \in Seq(S)
  PROVE  IsStack(s)
<1> DEFINE R == {s[i] : i \in 1..Len(s)}
<1>1. Len(s) \in Nat /\ s \in [1..Len(s) -> S]
  BY LenProperties
<1>2. s \in [1..Len(s) -> R]
  BY <1>1
<1>3. s \in Seq(R)
  BY <1>1, <1>2, SeqDef
<1> QED BY <1>3 DEF IsStack

\* Removing the top.
LEMMA PopStack ==
  ASSUME NEW s, IsStack(s), s # <<>>
  PROVE  Popped(Below(s), s)
<1> DEFINE S == {s[i] : i \in 1..Len(s)}
<1>1. s \in Seq(S)
  BY DEF IsStack
<1>2. Len(s) \in Nat \ {0}
  BY <1>1, EmptySeq
<1>3. \A i \in 1..(Len(s) - 1) : s[i] \in S
  BY <1>2
<1> HIDE DEF S
<1>4. /\ Below(s) \in Seq(S)
      /\ Len(Below(s)) = Len(s) - 1
      /\ \A i \in 1..(Len(s) - 1) : Below(s)[i] = s[i]
  <2>1. /\ Below(s) \in Seq(S)
        /\ Len(Below(s)) = IF 1 <= Len(s) - 1 THEN (Len(s) - 1) - 1 + 1 ELSE 0
        /\ \A i \in 1..((Len(s) - 1) - 1 + 1) : Below(s)[i] = s[1 + i - 1]
    BY <1>2, <1>3, SubSeqProperties DEF Below
  <2>2. \A i \in 1..(Len(s) - 1) : i \in 1..((Len(s) - 1) - 1 + 1) /\ 1 + i - 1 = i
    BY <1>2
  <2>3. \A i \in 1..(Len(s) - 1) : Below(s)[i] = s[i]
    BY <2>1, <2>2
  <2>4. Len(Below(s)) = Len(s) - 1
    <3>1. ASSUME NEW n \in Nat \ {0}
          PROVE  (IF 1 <= n - 1 THEN (n - 1) - 1 + 1 ELSE 0) = n - 1
      OBVIOUS
    <3> QED BY <2>1, <1>2, <3>1, Zenon
  <2> QED BY <2>1, <2>3, <2>4
<1>5. IsStack(Below(s))
  BY <1>4, StackOfSeq
<1> QED BY <1>2, <1>4, <1>5 DEF Popped

\* Putting items on a stack.
LEMMA GrowStack ==
  ASSUME NEW s, IsStack(s), NEW T, NEW t \in Seq(T)
  PROVE  /\ IsStack(s \o t)
         /\ Len(s) \in Nat /\ Len(t) \in Nat
         /\ Len(s \o t) = Len(s) + Len(t)
         /\ \A i \in 1..Len(s) : (s \o t)[i] = s[i]
         /\ \A i \in 1..Len(t) : (s \o t)[Len(s) + i] = t[i]
<1> DEFINE S == {s[i] : i \in 1..Len(s)}
           U == S \cup T
<1>1. s \in Seq(S)
  BY DEF IsStack
<1>2. S \subseteq U /\ T \subseteq U
  OBVIOUS
<1> HIDE DEF S, U
<1>3. s \in Seq(U) /\ t \in Seq(U)
  BY <1>1, <1>2, SeqMonotonic
<1>4. Len(s) \in Nat /\ Len(t) \in Nat
  BY <1>3, LenProperties
<1>5. /\ s \o t \in Seq(U)
      /\ Len(s \o t) = Len(s) + Len(t)
      /\ \A i \in 1..(Len(s) + Len(t)) :
           (s \o t)[i] = IF i <= Len(s) THEN s[i] ELSE t[i - Len(s)]
  BY <1>3, ConcatProperties
<1>6. IsStack(s \o t)
  BY <1>5, StackOfSeq
<1>7. \A i \in 1..Len(s) : (s \o t)[i] = s[i]
  BY <1>4, <1>5
<1>8. \A i \in 1..Len(t) : (s \o t)[Len(s) + i] = t[i]
  BY <1>4, <1>5
<1> QED BY <1>4, <1>5, <1>6, <1>7, <1>8

\* One item in place of the top.
LEMMA ReplaceByOne ==
  \A s, a, w : IsStack(s) /\ s # <<>> /\ w = Below(s) \o <<a>> => Topped(w, s, a)
<1> SUFFICES ASSUME NEW s, NEW a, NEW w, IsStack(s), s # <<>>, w = Below(s) \o <<a>>
             PROVE  Topped(w, s, a)
  OBVIOUS
<1>1. /\ Len(s) \in Nat \ {0} /\ IsStack(Below(s)) /\ Len(Below(s)) = Len(s) - 1
      /\ \A i \in 1..(Len(s) - 1) : Below(s)[i] = s[i]
  BY PopStack DEF Popped
<1> DEFINE r == Below(s)
           t == <<a>>
<1>2. t \in Seq({a}) /\ Len(t) = 1 /\ t[1] = a
  OBVIOUS
<1> DEFINE T == {t[i] : i \in 1..Len(t)}
<1>a. IsStack(r) /\ t \in Seq(T)
  BY <1>1, <1>2, StackOfSeq DEF IsStack
<1> HIDE DEF r, t, T
<1>3. /\ IsStack(r \o t)
      /\ Len(r \o t) = Len(r) + Len(t)
      /\ \A i \in 1..Len(r) : (r \o t)[i] = r[i]
      /\ \A i \in 1..Len(t) : (r \o t)[Len(r) + i] = t[i]
  BY <1>a, GrowStack
<1>b. w = r \o t
  BY DEF r, t
<1>4. /\ IsStack(w) /\ Len(w) = Len(s)
      /\ \A i \in 1..(Len(s) - 1) : w[i] = s[i]
  BY <1>1, <1>2, <1>3, <1>b DEF r
<1>5. w[Len(s)] = a
  <2>1. w[Len(s) - 1 + 1] = t[1]
    BY <1>1, <1>2, <1>3, <1>b DEF r
  <2> QED BY <2>1, <1>1, <1>2
<1> QED BY <1>1, <1>4, <1>5 DEF Topped

\* Two items in place of the top, the second on the first.
LEMMA ReplaceByTwo ==
  \A s, a, b, w : IsStack(s) /\ s # <<>> /\ w = Below(s) \o <<a, b>> => ToppedByTwo(w, s, a, b)
<1> SUFFICES ASSUME NEW s, NEW a, NEW b, NEW w, IsStack(s), s # <<>>, w = Below(s) \o <<a, b>>
             PROVE  ToppedByTwo(w, s, a, b)
  OBVIOUS
<1>1. /\ Len(s) \in Nat \ {0} /\ IsStack(Below(s)) /\ Len(Below(s)) = Len(s) - 1
      /\ \A i \in 1..(Len(s) - 1) : Below(s)[i] = s[i]
  BY PopStack DEF Popped
<1> DEFINE r == Below(s)
           t == <<a, b>>
<1>2. t \in Seq({a, b}) /\ Len(t) = 2 /\ t[1] = a /\ t[2] = b
  OBVIOUS
<1> DEFINE T == {t[i] : i \in 1..Len(t)}
<1>a. IsStack(r) /\ t \in Seq(T)
  BY <1>1, <1>2, StackOfSeq DEF IsStack
<1> HIDE DEF r, t, T
<1>3. /\ IsStack(r \o t)
      /\ Len(r \o t) = Len(r) + Len(t)
      /\ \A i \in 1..Len(r) : (r \o t)[i] = r[i]
      /\ \A i \in 1..Len(t) : (r \o t)[Len(r) + i] = t[i]
  BY <1>a, GrowStack
<1>b. w = r \o t
  BY DEF r, t
<1>4. /\ IsStack(w) /\ Len(w) = Len(s) + 1
      /\ \A i \in 1..(Len(s) - 1) : w[i] = s[i]
  <2>1. Len(r) = Len(s) - 1 /\ \A i \in 1..(Len(s) - 1) : r[i] = s[i]
    BY <1>1 DEF r
  <2>2. Len(w) = Len(s) - 1 + 2
    BY <2>1, <1>2, <1>3, <1>b
  <2>3. \A i \in 1..(Len(s) - 1) : w[i] = s[i]
    BY <2>1, <1>3, <1>b
  <2>4. Len(w) = Len(s) + 1
    BY <2>2, <1>1
  <2>5. IsStack(w)
    BY <1>3, <1>b, Zenon
  <2> QED BY <2>3, <2>4, <2>5, Zenon
<1>5. w[Len(s)] = a /\ w[Len(s) + 1] = b
  <2>1. w[Len(s) - 1 + 1] = t[1] /\ w[Len(s) - 1 + 2] = t[2]
    BY <1>1, <1>2, <1>3, <1>b DEF r
  <2> QED BY <2>1, <1>1, <1>2
<1> QED BY <1>1, <1>4, <1>5 DEF ToppedByTwo

\* Append, and the appended sequence as a function of its index.
LEMMA AppendToStack ==
  ASSUME NEW k \in Nat, NEW s, s = [i \in 1..k |-> s[i]], NEW a
  PROVE  /\ Len(s) = k
         /\ Len(Append(s, a)) = k + 1
         /\ Append(s, a) = [i \in 1..(k + 1) |-> IF i = k + 1 THEN a ELSE s[i]]
<1> DEFINE S == {s[i] : i \in 1..k} \cup {a}
<1>1. s \in [1..k -> S]
  OBVIOUS
<1>2. s \in Seq(S) /\ a \in S
  BY <1>1, SeqDef
<1> HIDE DEF S
<1>3. Len(s) = k
  BY <1>1, <1>2, LenProperties
<1>4. /\ Append(s, a) \in Seq(S)
      /\ Len(Append(s, a)) = k + 1
      /\ \A i \in 1..k : Append(s, a)[i] = s[i]
      /\ Append(s, a)[k + 1] = a
  BY <1>2, <1>3, AppendProperties
<1> DEFINE t == Append(s, a)
<1> HIDE DEF t
<1>5. t = [i \in 1..(k + 1) |-> t[i]]
  BY <1>4, LenProperties DEF t
<1>6. \A i \in 1..(k + 1) : t[i] = IF i = k + 1 THEN a ELSE s[i]
  BY <1>4 DEF t
<1>7. t = [i \in 1..(k + 1) |-> IF i = k + 1 THEN a ELSE s[i]]
  BY <1>5, <1>6
<1> QED BY <1>3, <1>4, <1>7 DEF t

==============================================================================
