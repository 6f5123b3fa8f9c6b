----------------------------- MODULE CodecsProofs -----------------------------
(***************************************************************************)
(* For every set of layouts, messages, buffers and wires: decoding stays   *)
(* within what arrived and within the fields it fills, an encoder writes   *)
(* its whole message or nothing, what is accepted encodes to what was      *)
(* read, and what was sent whole is accepted as it was, unless one of its  *)
(* strings is as long as its field.                                        *)
(*                                                                         *)
(* The wire of a message is a recursive function of its strings, and       *)
(* messages have any number of them.  That such a function is what its     *)
(* equation says, and what follows from it for every string, is shown by   *)
(* induction: a set of numbers with 0 and every successor has them all,    *)
(* since a number missing from it would have to have a smallest one.       *)
(***************************************************************************)
EXTENDS Codecs, SequenceTheorems, WellFoundedInduction, TLAPS

-----------------------------------------------------------------------------
(* Induction over the numbers, and what it gives: a recursive function is  *)
(* defined by its equation.                                                *)

LEMMA LeastNumber ==
  ASSUME NEW T, T \subseteq Nat, T # {}
  PROVE  \E n \in T : \A m \in T : n <= m
<1>1. PICK n \in T : \A m \in T : ~ (<<m, n>> \in OpToRel(<, Nat))
  BY NatLessThanWellFounded, WFMin
<1>2. \A m \in T : ~ (m < n)
  BY <1>1 DEF OpToRel
<1> QED
  BY <1>2

LEMMA Induction ==
  ASSUME NEW S, 0 \in S, \A n \in Nat : n \in S => n + 1 \in S
  PROVE  Nat \subseteq S
<1> SUFFICES ASSUME NEW x \in Nat, x \notin S PROVE FALSE
  OBVIOUS
<1>1. PICK n \in Nat \ S : \A m \in Nat \ S : n <= m
  BY LeastNumber
<1>2. n # 0 /\ n - 1 \in Nat
  BY <1>1
<1>3. n - 1 \in S
  BY <1>1, <1>2
<1> QED
  BY <1>1, <1>2, <1>3

(* A function of 0 .. n that starts with base and goes on as step says.    *)
Recurs(f, V, base, n, step) ==
  /\ f \in [0 .. n -> V] /\ f[0] = base
  /\ \A i \in 1 .. n : f[i] = step[<<f[i - 1], i>>]

LEMMA RecursiveFunction ==
  \A V : \A base \in V, n \in Nat : \A step \in [V \X (1 .. n) -> V] :
    \E f : Recurs(f, V, base, n, step)
<1> TAKE V
<1> TAKE base \in V, n \in Nat
<1> TAKE step \in [V \X (1 .. n) -> V]
<1> DEFINE Upto(m, f) == f \in [0 .. m -> V] /\ f[0] = base /\ \A i \in 1 .. m : f[i] = step[<<f[i - 1], i>>]
           S == {m \in Nat : m <= n => \E f : Upto(m, f)}
<1>1. 0 \in S
  <2>1. Upto(0, [i \in 0 .. 0 |-> base])
    OBVIOUS
  <2> HIDE DEF Upto
  <2>2. \E f : Upto(0, f)
    BY <2>1
  <2> QED
    BY <2>2
<1>2. ASSUME NEW m \in Nat, m \in S PROVE m + 1 \in S
  <2> SUFFICES ASSUME m + 1 <= n PROVE \E f : Upto(m + 1, f)
    OBVIOUS
  <2>1. \E f : Upto(m, f)
    <3> HIDE DEF Upto
    <3> QED
      BY <1>2
  <2>2. PICK f : Upto(m, f)
    <3> HIDE DEF Upto
    <3> QED
      BY <2>1
  <2> DEFINE g == [i \in 0 .. m + 1 |-> IF i = m + 1 THEN step[<<f[m], m + 1>>] ELSE f[i]]
  <2>3. f[m] \in V /\ m + 1 \in 1 .. n
    BY <2>2
  <2>4. step[<<f[m], m + 1>>] \in V
    BY <2>3
  <2>5. g \in [0 .. m + 1 -> V] /\ g[0] = base
    BY <2>2, <2>4
  <2>6. ASSUME NEW i \in 1 .. m + 1 PROVE g[i] = step[<<g[i - 1], i>>]
    <3>1. CASE i = m + 1
      <4>1. g[i] = step[<<f[m], m + 1>>] /\ g[i - 1] = f[m]
        BY <3>1
      <4> QED
        BY <3>1, <4>1
    <3>2. CASE i # m + 1
      <4>1. i \in 1 .. m /\ i - 1 \in 0 .. m /\ g[i] = f[i] /\ g[i - 1] = f[i - 1]
        BY <3>2
      <4> QED
        BY <2>2, <4>1
    <3> QED
      BY <3>1, <3>2
  <2>7. Upto(m + 1, g)
    BY <2>5, <2>6
  <2> HIDE DEF Upto, g
  <2> QED
    BY <2>7
<1> HIDE DEF S
<1>3. n \in S
  BY <1>1, <1>2, Induction
<1> QED
  BY <1>3 DEF S, Recurs

-----------------------------------------------------------------------------
(* One string behind what is written, and all the strings of a message.    *)

LEMMA ConcatFacts ==
  \A s, t \in Seq(Nat) : \A u : u = s \o t =>
    /\ u \in Seq(Nat) /\ Len(u) = Len(s) + Len(t)
    /\ \A i \in 1 .. Len(s) : u[i] = s[i]
    /\ \A i \in 1 .. Len(t) : u[Len(s) + i] = t[i]
<1> SUFFICES ASSUME NEW s \in Seq(Nat), NEW t \in Seq(Nat), NEW u, u = s \o t
    PROVE  /\ u \in Seq(Nat) /\ Len(u) = Len(s) + Len(t)
           /\ \A i \in 1 .. Len(s) : u[i] = s[i]
           /\ \A i \in 1 .. Len(t) : u[Len(s) + i] = t[i]
  BY Zenon
<1>1. /\ s \o t \in Seq(Nat) /\ Len(s \o t) = Len(s) + Len(t)
      /\ \A i \in 1 .. Len(s) + Len(t) : (s \o t)[i] = IF i <= Len(s) THEN s[i] ELSE t[i - Len(s)]
  BY ConcatProperties, Zenon
<1>2. Len(s) \in Nat /\ Len(t) \in Nat
  OBVIOUS
<1>3. ASSUME NEW i \in 1 .. Len(s) PROVE u[i] = s[i]
  <2>1. i \in 1 .. Len(s) + Len(t) /\ i <= Len(s)
    BY <1>2
  <2> QED
    BY <1>1, <2>1
<1>4. ASSUME NEW i \in 1 .. Len(t) PROVE u[Len(s) + i] = t[i]
  <2>1. Len(s) + i \in 1 .. Len(s) + Len(t) /\ ~ (Len(s) + i <= Len(s)) /\ (Len(s) + i) - Len(s) = i
    BY <1>2
  <2> QED
    BY <1>1, <2>1
<1> QED
  BY <1>1, <1>3, <1>4

Follows(u, s, t) ==
  /\ u \in Seq(Nat) /\ Len(u) = Len(s) + 1 + Len(t)
  /\ \A i \in 1 .. Len(s) : u[i] = s[i]
  /\ u[Len(s) + 1] = Len(t)
  /\ \A i \in 1 .. Len(t) : u[Len(s) + 1 + i] = t[i]

LEMMA FollowFacts == \A s, t \in Seq(Nat) : Follows(Follow(s, t), s, t)
<1> TAKE s, t \in Seq(Nat)
<1> DEFINE u == <<Len(t)>>
           v == s \o u
           w == v \o t
<1>1. u \in Seq(Nat) /\ Len(u) = 1 /\ u[1] = Len(t) /\ Len(s) \in Nat /\ Len(t) \in Nat
  OBVIOUS
<1>2. w = Follow(s, t) /\ v = s \o u /\ w = v \o t
  BY DEF Follow
<1> HIDE DEF u, v, w
<1>3. /\ v \in Seq(Nat) /\ Len(v) = Len(s) + Len(u)
      /\ \A i \in 1 .. Len(s) : v[i] = s[i]
      /\ \A i \in 1 .. Len(u) : v[Len(s) + i] = u[i]
  <2>1. u \in Seq(Nat)
    BY <1>1
  <2> QED
    BY <1>2, <2>1, ConcatFacts
<1>4. /\ w \in Seq(Nat) /\ Len(w) = Len(v) + Len(t)
      /\ \A i \in 1 .. Len(v) : w[i] = v[i]
      /\ \A i \in 1 .. Len(t) : w[Len(v) + i] = t[i]
  <2>1. v \in Seq(Nat)
    BY <1>3
  <2> QED
    BY <1>2, <2>1, ConcatFacts
<1>5. Len(v) = Len(s) + 1 /\ v[Len(s) + 1] = Len(t)
  BY <1>1, <1>3
<1>6. Len(s) + 1 \in 1 .. Len(v) /\ \A i \in 1 .. Len(s) : i \in 1 .. Len(v)
  BY <1>1, <1>5
<1> QED
  BY <1>2, <1>3, <1>4, <1>5, <1>6 DEF Follows

LEMMA MessageFacts ==
  ASSUME NEW l \in Layouts, NEW m, IsMessage(l, m)
  PROVE  /\ m.body \in Seq(Nat) /\ Len(m.body) = l.block
         /\ Len(m.strings) \in Nat /\ Len(m.strings) = Len(l.caps)
         /\ DOMAIN m.strings = 1 .. Len(m.strings) /\ DOMAIN l.caps = 1 .. Len(l.caps)
         /\ \A i \in 1 .. Len(m.strings) : m.strings[i] \in Seq(Nat)
         /\ m = [body |-> m.body, strings |-> m.strings]
  BY LayoutsAssumption DEF IsMessage

LEMMA HeaderIsText ==
  ASSUME NEW l \in Layouts
  PROVE  /\ IsText(Header(l)) /\ HeaderSize(l) \in Nat
         /\ FixedSize(l) \in Nat /\ FixedSize(l) = HeaderSize(l) + l.block
         /\ HeaderSize(l) > 1 /\ l.block \in Nat /\ l.block > 0
         /\ Header(l)[2] = l.template
         /\ l.format = "sbe" => Header(l)[1] = l.block /\ Header(l)[3] = l.schema /\ HeaderSize(l) > 2
         /\ l.format = "eti" => Header(l)[1] = FixedSize(l)
<1>1. /\ l.format \in {"sbe", "eti"} /\ l.template \in Nat /\ l.block \in Nat /\ l.block > 0
      /\ l.format = "sbe" => l.schema \in Nat /\ l.version \in Nat
  BY LayoutsAssumption
<1>2. CASE l.format = "sbe"
  <2>1. Header(l) = <<l.block, l.template, l.schema, l.version>>
    BY <1>2 DEF Header
  <2> QED BY <1>1, <1>2, <2>1 DEF IsText, HeaderSize, FixedSize
<1>3. CASE l.format = "eti"
  <2>1. Header(l) = <<l.block + 2, l.template>>
    BY <1>3 DEF Header
  <2> QED BY <1>1, <1>3, <2>1 DEF IsText, HeaderSize, FixedSize
<1> QED BY <1>1, <1>2, <1>3

(* The header and the body. *)
LEMMA FirstPrefix ==
  ASSUME NEW l \in Layouts, NEW m, IsMessage(l, m), NEW s, s = Header(l) \o m.body
  PROVE  /\ s \in Seq(Nat) /\ Len(s) = FixedSize(l)
         /\ \A i \in 1 .. HeaderSize(l) : s[i] = Header(l)[i]
         /\ \A i \in HeaderSize(l) + 1 .. FixedSize(l) : s[i] = m.body[i - HeaderSize(l)]
<1> DEFINE h == Header(l)
<1>1. /\ h \in Seq(Nat) /\ Len(h) = HeaderSize(l) /\ HeaderSize(l) \in Nat
      /\ FixedSize(l) = HeaderSize(l) + l.block /\ l.block \in Nat
  BY HeaderIsText DEF HeaderSize, IsText
<1>2. m.body \in Seq(Nat) /\ Len(m.body) = l.block
  BY MessageFacts
<1> HIDE DEF h
<1>3. /\ s \in Seq(Nat) /\ Len(s) = Len(h) + Len(m.body)
      /\ \A i \in 1 .. Len(h) : s[i] = h[i]
      /\ \A i \in 1 .. Len(m.body) : s[Len(h) + i] = m.body[i]
  <2>1. s = h \o m.body
    BY DEF h
  <2>2. h \in Seq(Nat)
    BY <1>1
  <2>3. m.body \in Seq(Nat)
    BY <1>2
  <2> QED
    BY <2>1, <2>2, <2>3, ConcatFacts
<1>4. ASSUME NEW i \in HeaderSize(l) + 1 .. FixedSize(l) PROVE s[i] = m.body[i - HeaderSize(l)]
  <2>1. i - HeaderSize(l) \in 1 .. Len(m.body) /\ Len(h) + (i - HeaderSize(l)) = i
    BY <1>1, <1>2
  <2> QED
    BY <1>3, <2>1
<1> QED
  BY <1>1, <1>2, <1>3, <1>4 DEF h

LEMMA PrefixesEquation ==
  ASSUME NEW l \in Layouts, NEW m, IsMessage(l, m)
  PROVE  /\ Prefixes(l, m) \in [0 .. Len(m.strings) -> Seq(Nat)]
         /\ Prefixes(l, m)[0] = Header(l) \o m.body
         /\ \A i \in 1 .. Len(m.strings) :
              Prefixes(l, m)[i] = Follow(Prefixes(l, m)[i - 1], m.strings[i])
<1> DEFINE n == Len(m.strings)
           base == Header(l) \o m.body
           Eq(f) == f = [i \in 0 .. n |-> IF i = 0 THEN base ELSE Follow(f[i - 1], m.strings[i])]
           step == [x \in Seq(Nat) \X (1 .. n) |-> Follow(x[1], m.strings[x[2]])]
<1>1. n \in Nat /\ base \in Seq(Nat) /\ \A i \in 1 .. n : m.strings[i] \in Seq(Nat)
  BY MessageFacts, FirstPrefix
<1> HIDE DEF n, base
<1>2. step \in [Seq(Nat) \X (1 .. n) -> Seq(Nat)]
  BY <1>1, FollowFacts DEF Follows
<1>3. \A s \in Seq(Nat), i \in 1 .. n : step[<<s, i>>] = Follow(s, m.strings[i])
  OBVIOUS
<1> HIDE DEF step
<1>4. \E f : Recurs(f, Seq(Nat), base, n, step)
  <2>1. base \in Seq(Nat)
    BY <1>1
  <2>2. n \in Nat
    BY <1>1
  <2> QED
    BY <1>2, <2>1, <2>2, RecursiveFunction, Zenon
<1>5. PICK f : /\ f \in [0 .. n -> Seq(Nat)] /\ f[0] = base
               /\ \A i \in 1 .. n : f[i] = step[<<f[i - 1], i>>]
  BY <1>4 DEF Recurs
<1>6. ASSUME NEW i \in 0 .. n
      PROVE  f[i] = IF i = 0 THEN base ELSE Follow(f[i - 1], m.strings[i])
  <2>1. CASE i = 0
    BY <1>5, <2>1
  <2>2. CASE i # 0
    <3>1. i \in 1 .. n /\ i - 1 \in 0 .. n
      BY <1>1, <2>2
    <3>2. f[i] = step[<<f[i - 1], i>>] /\ f[i - 1] \in Seq(Nat)
      BY <1>5, <3>1
    <3> QED
      BY <1>3, <2>2, <3>1, <3>2
  <2> QED
    BY <2>1, <2>2
<1>7. Eq(f)
  <2>1. f = [i \in 0 .. n |-> f[i]]
    BY <1>5
  <2>2. [i \in 0 .. n |-> f[i]] =
          [i \in 0 .. n |-> IF i = 0 THEN base ELSE Follow(f[i - 1], m.strings[i])]
    BY <1>6
  <2> QED
    BY <2>1, <2>2
<1>8. Prefixes(l, m) = CHOOSE g : Eq(g)
  BY DEF Prefixes, n, base
<1>9. Eq(Prefixes(l, m))
  <2> HIDE DEF Eq
  <2> QED
    BY <1>7, <1>8
<1> DEFINE p == Prefixes(l, m)
<1>10. Eq(p)
  BY <1>9
<1> HIDE DEF p
<1>11. DOMAIN p = 0 .. n /\ p[0] = base /\ \A i \in 1 .. n : p[i] = Follow(p[i - 1], m.strings[i])
  BY <1>1, <1>10
<1> DEFINE S == {i \in Nat : i <= n => p[i] \in Seq(Nat)}
<1>12. 0 \in S
  BY <1>1, <1>11
<1>13. ASSUME NEW i \in Nat, i \in S PROVE i + 1 \in S
  <2> SUFFICES ASSUME i + 1 <= n PROVE p[i + 1] \in Seq(Nat)
    OBVIOUS
  <2>1. p[i] \in Seq(Nat) /\ i + 1 \in 1 .. n /\ (i + 1) - 1 = i
    BY <1>1, <1>13
  <2>2. p[i + 1] = Follow(p[i], m.strings[i + 1]) /\ m.strings[i + 1] \in Seq(Nat)
    BY <1>1, <1>11, <2>1
  <2> QED
    BY <2>1, <2>2, FollowFacts DEF Follows
<1>14. Nat \subseteq S
  <2> HIDE DEF S
  <2> QED
    BY <1>12, <1>13, Induction
<1>15. \A i \in 0 .. n : p[i] \in Seq(Nat)
  BY <1>1, <1>14
<1>16. p \in [0 .. n -> Seq(Nat)]
  BY <1>10, <1>11, <1>15
<1> QED
  BY <1>11, <1>16 DEF p, n, base

(* What is encoded so far is what all of it begins with.                   *)
Begins(a, b) == Len(a) <= Len(b) /\ \A x \in 1 .. Len(a) : b[x] = a[x]

LEMMA PrefixesGrow ==
  ASSUME NEW l \in Layouts, NEW m, IsMessage(l, m)
  PROVE  \A i, j \in 0 .. Len(m.strings) : i <= j => Begins(Prefixes(l, m)[i], Prefixes(l, m)[j])
<1> SUFFICES ASSUME NEW i \in 0 .. Len(m.strings), NEW j \in 0 .. Len(m.strings), i <= j
    PROVE  Begins(Prefixes(l, m)[i], Prefixes(l, m)[j])
  OBVIOUS
<1> DEFINE n == Len(m.strings)
           p == Prefixes(l, m)
           S == {d \in Nat : i + d <= n => Begins(p[i], p[i + d])}
<1>1. /\ n \in Nat /\ p \in [0 .. n -> Seq(Nat)]
      /\ \A a \in 1 .. n : p[a] = Follow(p[a - 1], m.strings[a]) /\ m.strings[a] \in Seq(Nat)
  BY MessageFacts, PrefixesEquation
<1> HIDE DEF n, p
<1>2. i \in 0 .. n /\ j \in 0 .. n /\ i <= j
  BY DEF n
<1>3. 0 \in S
  <2>1. p[i] \in Seq(Nat) /\ i + 0 = i
    BY <1>1, <1>2
  <2>2. Len(p[i]) \in Nat
    BY <2>1
  <2> QED
    BY <2>1, <2>2 DEF Begins
<1>4. ASSUME NEW d \in Nat, d \in S PROVE d + 1 \in S
  <2> SUFFICES ASSUME i + (d + 1) <= n PROVE Begins(p[i], p[i + (d + 1)])
    OBVIOUS
  <2> DEFINE s == p[i + d]
             t == m.strings[i + (d + 1)]
             u == p[i + (d + 1)]
  <2>1. /\ i + d \in 0 .. n /\ i + (d + 1) \in 1 .. n /\ (i + (d + 1)) - 1 = i + d /\ i + d <= n
    BY <1>1, <1>2
  <2>2. s \in Seq(Nat) /\ t \in Seq(Nat) /\ p[i] \in Seq(Nat) /\ u = Follow(s, t)
    BY <1>1, <1>2, <2>1
  <2>3. Begins(p[i], s)
    BY <1>4, <2>1
  <2> HIDE DEF s, t, u
  <2>4. /\ Len(u) = Len(s) + 1 + Len(t) /\ \A x \in 1 .. Len(s) : u[x] = s[x]
    BY <2>2, FollowFacts DEF Follows
  <2>5. Len(p[i]) \in Nat /\ Len(s) \in Nat /\ Len(t) \in Nat
    BY <2>2
  <2>6. Len(p[i]) <= Len(u)
    BY <2>3, <2>4, <2>5 DEF Begins
  <2>7. \A x \in 1 .. Len(p[i]) : u[x] = p[i][x]
    <3>1. \A x \in 1 .. Len(p[i]) : x \in 1 .. Len(s) /\ s[x] = p[i][x]
      BY <2>3, <2>5 DEF Begins
    <3> QED
      BY <2>4, <3>1
  <2> QED
    BY <2>6, <2>7 DEF u, Begins
<1>5. Nat \subseteq S
  <2> HIDE DEF S
  <2> QED
    BY <1>3, <1>4, Induction
<1>6. j - i \in Nat /\ i + (j - i) = j /\ j <= n
  BY <1>1, <1>2
<1>7. Begins(p[i], p[j])
  <2>1. i + (j - i) <= n => Begins(p[i], p[i + (j - i)])
    BY <1>5, <1>6
  <2> QED
    BY <1>6, <2>1
<1> QED
  BY <1>7 DEF p

(* It depends on no string but those encoded so far.                       *)
LEMMA PrefixesAgree ==
  ASSUME NEW l \in Layouts, NEW m, IsMessage(l, m), NEW o, IsMessage(l, o),
         NEW j \in 0 .. Len(l.caps),
         m.body = o.body, \A i \in 1 .. j : m.strings[i] = o.strings[i]
  PROVE  Prefixes(l, m)[j] = Prefixes(l, o)[j]
<1> DEFINE n == Len(l.caps)
           p == Prefixes(l, m)
           q == Prefixes(l, o)
           S == {i \in Nat : i <= j => p[i] = q[i]}
<1>1. /\ n \in Nat /\ p[0] = q[0]
      /\ \A i \in 1 .. n : p[i] = Follow(p[i - 1], m.strings[i])
      /\ \A i \in 1 .. n : q[i] = Follow(q[i - 1], o.strings[i])
  <2>1. n \in Nat /\ Len(m.strings) = n /\ Len(o.strings) = n
    BY MessageFacts
  <2>2. p[0] = Header(l) \o m.body /\ \A i \in 1 .. n : p[i] = Follow(p[i - 1], m.strings[i])
    BY <2>1, PrefixesEquation
  <2>3. q[0] = Header(l) \o o.body /\ \A i \in 1 .. n : q[i] = Follow(q[i - 1], o.strings[i])
    BY <2>1, PrefixesEquation
  <2> QED
    BY <2>1, <2>2, <2>3
<1> HIDE DEF n, p, q
<1>2. j \in 0 .. n
  BY DEF n
<1>3. 0 \in S
  BY <1>1
<1>4. ASSUME NEW i \in Nat, i \in S PROVE i + 1 \in S
  <2> SUFFICES ASSUME i + 1 <= j PROVE p[i + 1] = q[i + 1]
    OBVIOUS
  <2>1. i + 1 \in 1 .. n /\ i + 1 \in 1 .. j /\ (i + 1) - 1 = i /\ p[i] = q[i]
    BY <1>1, <1>2, <1>4
  <2> QED
    BY <1>1, <2>1
<1>5. Nat \subseteq S
  <2> HIDE DEF S
  <2> QED
    BY <1>3, <1>4, Induction
<1>6. j \in S
  BY <1>2, <1>5
<1> QED
  BY <1>6, <1>2 DEF p, q

(* The size an encoder works out is the length of what it writes.          *)
LEMMA TotalIsLength ==
  ASSUME NEW l \in Layouts, NEW m, IsMessage(l, m)
  PROVE  Total(l, m) = Len(Encoding(l, m))
<1> DEFINE n == Len(m.strings)
           p == Prefixes(l, m)
           Eq(f) == f = [i \in 0 .. n |-> IF i = 0 THEN FixedSize(l) ELSE f[i - 1] + 1 + Len(m.strings[i])]
           lengths == [i \in 0 .. n |-> Len(p[i])]
<1>1. /\ n \in Nat /\ p \in [0 .. n -> Seq(Nat)] /\ Len(p[0]) = FixedSize(l)
      /\ \A i \in 1 .. n : p[i] = Follow(p[i - 1], m.strings[i]) /\ m.strings[i] \in Seq(Nat)
  <2>1. n \in Nat /\ \A i \in 1 .. n : m.strings[i] \in Seq(Nat)
    BY MessageFacts
  <2>2. /\ p \in [0 .. n -> Seq(Nat)] /\ p[0] = Header(l) \o m.body
        /\ \A i \in 1 .. n : p[i] = Follow(p[i - 1], m.strings[i])
    BY PrefixesEquation
  <2> HIDE DEF p, n
  <2>3. Len(p[0]) = FixedSize(l)
    BY <2>2, FirstPrefix
  <2> QED
    BY <2>1, <2>2, <2>3
<1> HIDE DEF n, p
<1>2. ASSUME NEW i \in 1 .. n PROVE Len(p[i]) = Len(p[i - 1]) + 1 + Len(m.strings[i])
  <2>1. i - 1 \in 0 .. n
    BY <1>1
  <2>2. p[i - 1] \in Seq(Nat) /\ p[i] = Follow(p[i - 1], m.strings[i]) /\ m.strings[i] \in Seq(Nat)
    BY <1>1, <2>1
  <2> DEFINE s == p[i - 1]
             t == m.strings[i]
  <2>3. s \in Seq(Nat) /\ t \in Seq(Nat) /\ p[i] = Follow(s, t)
    BY <2>2
  <2> HIDE DEF s, t
  <2>4. Len(p[i]) = Len(s) + 1 + Len(t)
    BY <2>3, FollowFacts DEF Follows
  <2> QED
    BY <2>4 DEF s, t
<1>3. ASSUME NEW i \in 0 .. n
      PROVE  Len(p[i]) = IF i = 0 THEN FixedSize(l) ELSE lengths[i - 1] + 1 + Len(m.strings[i])
  <2>1. CASE i = 0
    BY <1>1, <2>1
  <2>2. CASE i # 0
    <3>1. i \in 1 .. n /\ i - 1 \in 0 .. n
      BY <1>1, <2>2
    <3> QED
      BY <1>2, <2>2, <3>1
  <2> QED
    BY <2>1, <2>2
<1>4. Eq(lengths)
  BY <1>3
<1>5. Total(l, m) = (CHOOSE f : Eq(f))[n]
  BY DEF Total, n
<1>6. Eq(CHOOSE f : Eq(f))
  <2> HIDE DEF Eq, lengths
  <2> QED
    BY <1>4
<1>7. PICK f : Eq(f) /\ Total(l, m) = f[n]
  <2> HIDE DEF Eq
  <2> QED
    BY <1>5, <1>6
<1> DEFINE S == {i \in Nat : i <= n => f[i] = Len(p[i])}
<1>8. 0 \in S
  BY <1>1, <1>7
<1>9. ASSUME NEW i \in Nat, i \in S PROVE i + 1 \in S
  <2> SUFFICES ASSUME i + 1 <= n PROVE f[i + 1] = Len(p[i + 1])
    OBVIOUS
  <2>1. i + 1 \in 1 .. n /\ i + 1 \in 0 .. n /\ (i + 1) - 1 = i /\ f[i] = Len(p[i]) /\ i + 1 # 0
    BY <1>1, <1>9
  <2>2. f[i + 1] = f[i] + 1 + Len(m.strings[i + 1])
    BY <1>7, <2>1
  <2>3. Len(p[i + 1]) = Len(p[i]) + 1 + Len(m.strings[i + 1])
    BY <1>2, <2>1
  <2> QED
    BY <2>1, <2>2, <2>3
<1>10. Nat \subseteq S
  <2> HIDE DEF S
  <2> QED
    BY <1>8, <1>9, Induction
<1>11. f[n] = Len(p[n])
  BY <1>1, <1>10
<1> QED
  BY <1>7, <1>11 DEF Encoding, n, p

-----------------------------------------------------------------------------
(* The bounds of both sides.                                               *)

LEMMA CodecsInit == Init => CodecsInv
<1> SUFFICES ASSUME Init PROVE CodecsInv
  OBVIOUS
<1>1. /\ layout \in Layouts /\ dst = <<>> /\ len = 0 /\ k = 1 /\ offset = 0 /\ body = <<>>
      /\ strings = [i \in DOMAIN layout.caps |-> <<>>]
      /\ \/ pc = "encode" /\ sent \in Messages[layout] /\ wire = <<>>
         \/ pc = "arrive" /\ wire \in Wires[layout]
  BY DEF Init
<1>2. IsText(<<>>)
  BY DEF IsText
<1>3. \A l \in Layouts : \A w \in Wires[l] : IsText(w)
  BY WiresAssumption
<1>4. IsText(dst) /\ IsText(wire)
  BY <1>1, <1>2, <1>3
<1>5. layout.block \in Nat /\ layout.caps \in Seq(Nat \ {0})
  BY <1>1, LayoutsAssumption
<1>6. \A i \in DOMAIN strings : Len(strings[i]) < layout.caps[i]
  BY <1>1, <1>5
<1>7. Len(wire) \in Nat
  BY <1>4 DEF IsText
<1>8. WithinBounds
  BY <1>1, <1>5, <1>6, <1>7 DEF WithinBounds
<1>9. EncoderInv
  BY <1>1, <1>4 DEF EncoderInv
<1>10. DecoderInv
  BY <1>1, <1>8 DEF DecoderInv
<1> QED BY <1>9, <1>10 DEF CodecsInv

(* The encoder's side leaves what the decoder has alone. *)
LEMMA EncodeStep ==
  ASSUME CodecsInv, EncodeFixed \/ AppendString \/ Encoded \/ Send
  PROVE  CodecsInv'
<1>0. pc \in {"encode", "append", "send"}
  BY DEF EncodeFixed, AppendString, Encoded, Send
<1>1. /\ layout \in Layouts /\ IsText(dst) /\ IsText(wire)
      /\ Len(wire) \in Nat /\ len = 0 /\ offset = 0 /\ k \in Nat
  <2>1. IsText(wire) /\ IsText(dst) /\ layout \in Layouts /\ k \in Nat
    BY DEF CodecsInv, EncoderInv
  <2>2. Len(wire) \in Nat
    BY <2>1 DEF IsText
  <2>3. len = 0
    BY <1>0 DEF CodecsInv, EncoderInv
  <2>4. offset = 0
    BY <1>0 DEF CodecsInv, DecoderInv
  <2> QED BY <2>1, <2>2, <2>3, <2>4
<1>2. CASE EncodeFixed
  <2>1. sent \in Messages[layout]
    BY <1>2 DEF CodecsInv, EncoderInv, EncodeFixed
  <2>2. IsText(Header(layout) \o sent.body)
    BY <1>1, <2>1, MessagesAssumption, FirstPrefix DEF IsText
  <2>3. pc' \in {"append", "send"} /\ IsText(dst')
    BY <1>1, <1>2, <2>2 DEF EncodeFixed
  <2> QED BY <1>1, <1>2, <2>1, <2>3 DEF EncodeFixed, CodecsInv, EncoderInv, DecoderInv, WithinBounds
<1>3. CASE AppendString
  <2>1. sent \in Messages[layout] /\ k \in DOMAIN sent.strings
    BY <1>3 DEF CodecsInv, EncoderInv, AppendString
  <2>2. IsMessage(layout, sent)
    BY <1>1, <2>1, MessagesAssumption
  <2>3. dst \in Seq(Nat) /\ sent.strings[k] \in Seq(Nat)
    BY <1>1, <2>1, <2>2, MessageFacts DEF IsText
  <2>4. Follow(dst, sent.strings[k]) \in Seq(Nat)
    BY <2>3, FollowFacts DEF Follows
  <2>5. IsText(dst')
    BY <1>3, <2>3, <2>4 DEF AppendString, IsText
  <2>6. /\ UNCHANGED <<layout, sent, cap, pc, wire, len, offset, body, strings>>
        /\ k' \in Nat /\ pc = "append"
    BY <1>1, <1>3 DEF AppendString
  <2>7. EncoderInv'
    BY <1>1, <2>1, <2>5, <2>6 DEF EncoderInv
  <2>8. DecoderInv'
    BY <2>6 DEF CodecsInv, DecoderInv, WithinBounds
  <2> QED BY <2>7, <2>8 DEF CodecsInv
<1>4. CASE Encoded
  BY <1>1, <1>4 DEF Encoded, CodecsInv, EncoderInv, DecoderInv, WithinBounds
<1>5. CASE Send
  <2>1. PICK n \in 0 .. Len(dst) : wire' = SubSeq(dst, 1, n)
    BY <1>5 DEF Send
  <2>2. Len(dst) \in Nat /\ \A i \in 1 .. n : dst[i] \in Nat
    BY <1>1 DEF IsText
  <2>3. IsText(wire') /\ Len(wire') \in Nat
    BY <2>1, <2>2, SubSeqProperties DEF IsText
  <2> QED BY <1>1, <1>5, <2>3 DEF Send, CodecsInv, EncoderInv, DecoderInv, WithinBounds
<1> QED BY <1>2, <1>3, <1>4, <1>5

(* A splitter passes on no more than arrived. *)
LEMMA ArriveStep ==
  ASSUME CodecsInv, SplitFrame \/ Deliver
  PROVE  CodecsInv'
<1>1. /\ layout \in Layouts /\ IsText(wire) /\ Len(wire) \in Nat
      /\ offset = 0 /\ k = 1 /\ len \in Nat /\ len <= Len(wire)
      /\ HeaderSize(layout) \in Nat /\ HeaderSize(layout) > 1
  BY HeaderIsText DEF CodecsInv, EncoderInv, DecoderInv, WithinBounds, IsText, SplitFrame, Deliver
<1>2. /\ \/ pc' = "refused" /\ len' = len
         \/ pc' = "decode" /\ len' \in Nat /\ len' <= Len(wire)
      /\ UNCHANGED <<layout, sent, cap, dst, wire, k, offset, body, strings>>
  <2>1. CASE Deliver
    BY <1>1, <2>1 DEF Deliver, Pass
  <2>2. CASE SplitFrame
    <3>1. Len(wire) >= HeaderSize(layout) => wire[1] \in Nat
      BY <1>1 DEF IsText
    <3> QED BY <1>1, <2>2, <3>1 DEF SplitFrame, Refuse, Pass
  <2> QED BY <2>1, <2>2
<1> QED BY <1>1, <1>2 DEF CodecsInv, EncoderInv, DecoderInv, WithinBounds

LEMMA DecodeFixedStep ==
  ASSUME CodecsInv, DecodeFixed
  PROVE  CodecsInv'
<1>1. /\ layout \in Layouts /\ IsText(wire) /\ Len(wire) \in Nat
      /\ offset = 0 /\ k = 1 /\ len \in Nat /\ len <= Len(wire)
      /\ HeaderSize(layout) \in Nat /\ layout.block \in Nat /\ layout.caps \in Seq(Nat \ {0})
      /\ FixedSize(layout) \in Nat /\ FixedSize(layout) = HeaderSize(layout) + layout.block
  BY HeaderIsText, LayoutsAssumption
     DEF CodecsInv, EncoderInv, DecoderInv, WithinBounds, IsText, DecodeFixed
<1>2. UNCHANGED <<layout, sent, cap, dst, wire, len, k, strings>>
  BY DEF DecodeFixed
<1>3. CASE pc' = "refused" /\ UNCHANGED <<offset, body>>
  BY <1>1, <1>2, <1>3 DEF CodecsInv, EncoderInv, DecoderInv, WithinBounds
<1>4. CASE /\ ~TooShort
           /\ pc' = IF ~HeaderFits THEN "refused" ELSE IF layout.caps = <<>> THEN "accepted" ELSE "string"
           /\ offset' = FixedSize(layout)
           /\ body' = SubSeq(wire, HeaderSize(layout) + 1, FixedSize(layout))
  <2>1. FixedSize(layout) <= len
    BY <1>1, <1>4 DEF TooShort
  <2>2. \A i \in HeaderSize(layout) + 1 .. FixedSize(layout) : wire[i] \in Nat
    BY <1>1, <2>1 DEF IsText
  <2>3. Len(body') <= layout.block
    BY <1>1, <1>4, <2>2, SubSeqProperties
  <2>4. pc' \in {"refused", "accepted", "string"} /\ (pc' = "string" => layout.caps # <<>>)
    BY <1>4
  <2>5. pc' = "string" => 1 \in DOMAIN layout.caps
    BY <1>1, <2>4
  <2> QED BY <1>1, <1>2, <1>4, <2>1, <2>3, <2>4, <2>5 DEF CodecsInv, EncoderInv, DecoderInv, WithinBounds
<1> QED BY <1>3, <1>4 DEF DecodeFixed, Refuse

LEMMA ReadStringStep ==
  ASSUME CodecsInv, ReadString
  PROVE  CodecsInv'
<1>1. /\ layout \in Layouts /\ IsText(wire) /\ Len(wire) \in Nat /\ pc = "string"
      /\ offset \in Nat /\ len \in Nat /\ len <= Len(wire) /\ offset <= len
      /\ k \in DOMAIN layout.caps /\ layout.caps \in Seq(Nat \ {0}) /\ k \in Nat
      /\ DOMAIN strings = DOMAIN layout.caps
  BY LayoutsAssumption DEF CodecsInv, EncoderInv, DecoderInv, WithinBounds, IsText, ReadString
<1>2. UNCHANGED <<layout, sent, cap, dst, wire, len, body>>
  BY DEF ReadString
<1>3. CASE offset >= len
  BY <1>1, <1>2, <1>3 DEF ReadString, Refuse, CodecsInv, EncoderInv, DecoderInv, WithinBounds
<1>4. CASE offset < len
  <2> DEFINE n == wire[offset + 1]
  <2>1. n \in Nat
    BY <1>1, <1>4 DEF IsText
  <2> HIDE DEF n
  <2>2. CASE StringTooLong(n)
    <3>1. pc' = "refused" /\ offset' = offset + 1 /\ UNCHANGED <<k, strings>>
      BY <1>1, <1>4, <2>2 DEF ReadString, Refuse, n
    <3> QED BY <1>1, <1>2, <1>4, <3>1 DEF CodecsInv, EncoderInv, DecoderInv, WithinBounds
  <2>3. CASE ~StringTooLong(n)
    <3>1. /\ strings' = [strings EXCEPT ![k] = SubSeq(wire, offset + 2, offset + 1 + n)]
          /\ offset' = offset + 1 + n /\ k' = k + 1
          /\ pc' = IF k = Len(layout.caps) THEN "accepted" ELSE "string"
      BY <1>1, <1>4, <2>3 DEF ReadString, n
    <3>2. offset + 1 + n <= len /\ n < layout.caps[k]
      BY <1>1, <2>1, <2>3 DEF StringTooLong
    <3>3. \A i \in offset + 2 .. offset + 1 + n : wire[i] \in Nat
      BY <1>1, <2>1, <3>2 DEF IsText
    <3>4. Len(SubSeq(wire, offset + 2, offset + 1 + n)) = n
      BY <1>1, <2>1, <3>3, SubSeqProperties
    <3>5. \A i \in DOMAIN strings' : Len(strings'[i]) < layout.caps[i]
      BY <1>1, <3>1, <3>2, <3>4 DEF CodecsInv, DecoderInv, WithinBounds
    <3>6. pc' = "string" => k' \in DOMAIN layout.caps
      BY <1>1, <3>1
    <3> QED BY <1>1, <1>2, <2>1, <3>1, <3>2, <3>5, <3>6
            DEF CodecsInv, EncoderInv, DecoderInv, WithinBounds
  <2> QED BY <2>2, <2>3
<1> QED BY <1>1, <1>3, <1>4

LEMMA CodecsStep == CodecsInv /\ [Next]_vars => CodecsInv'
<1> SUFFICES ASSUME CodecsInv, [Next]_vars PROVE CodecsInv'
  OBVIOUS
<1>1. CASE UNCHANGED vars
  BY <1>1 DEF vars, CodecsInv, EncoderInv, DecoderInv, WithinBounds
<1>2. CASE Next
  BY <1>2, EncodeStep, ArriveStep, DecodeFixedStep, ReadStringStep DEF Next
<1> QED BY <1>1, <1>2

(* The decoders of sbe/decode.hpp and mcx/decode.hpp read no more than     *)
(* arrived and fill no field beyond its size, whatever the wire says.      *)
THEOREM DecodersStayWithinBounds == Spec => []WithinBounds
<1>1. CodecsInv => WithinBounds
  BY DEF CodecsInv, DecoderInv
<1>2. Spec => []CodecsInv
  BY CodecsInit, CodecsStep, PTL DEF Spec
<1> QED BY <1>1, <1>2, PTL

-----------------------------------------------------------------------------
(* What the two sides agree on.                                            *)

(* What the decoder has filled in, as a message.                           *)
Again == [body |-> body, strings |-> strings]

(* All of a message arrived.                                               *)
Whole == sent # NoMessage /\ dst # <<>> /\ wire = dst

(* The encoder has written the first strings of its message, and there is  *)
(* room for the others.                                                    *)
WrittenInv ==
  /\ cap \in Nat /\ Len(dst) <= cap
  /\ sent # NoMessage => IsMessage(layout, sent)
  /\ sent = NoMessage => dst = <<>> /\ pc \notin {"encode", "append", "send"}
  /\ pc = "encode" => dst = <<>> /\ k = 1
  /\ pc = "append" => /\ k \in 1 .. Len(sent.strings) + 1
                      /\ dst = Prefixes(layout, sent)[k - 1]
                      /\ Len(Encoding(layout, sent)) <= cap
  /\ pc \notin {"encode", "append"} => dst \in {<<>>, Encoding(layout, sent)}

CarriedInv ==
  /\ pc \in {"encode", "append", "send"} => wire = <<>>
  /\ sent # NoMessage => Len(wire) <= Len(dst) /\ \A x \in 1 .. Len(wire) : wire[x] = dst[x]

(* What the decoder has filled in encodes to what it has read; and it is   *)
(* the first part of the message that was sent.                            *)
ReadInv ==
  /\ strings \in Seq(Seq(Nat)) /\ Len(strings) = Len(layout.caps)
  /\ Whole /\ pc \in {"decode", "string"} => len = Len(wire)
  /\ Whole /\ pc = "refused" => \E i \in DOMAIN sent.strings : Len(sent.strings[i]) >= layout.caps[i]
  /\ pc \in {"string", "accepted"} =>
       /\ IsMessage(layout, Again)
       /\ k \in 1 .. Len(layout.caps) + 1 /\ (pc = "accepted" => k = Len(layout.caps) + 1)
       /\ wire[2] = layout.template
       /\ Len(Prefixes(layout, Again)[k - 1]) = offset
       /\ \A x \in HeaderSize(layout) + 1 .. offset : Prefixes(layout, Again)[k - 1][x] = wire[x]
       /\ sent # NoMessage => body = sent.body /\ \A i \in 1 .. k - 1 : strings[i] = sent.strings[i]

TripInv == CodecsInv /\ WrittenInv /\ CarriedInv /\ ReadInv

LEMMA RealMessage ==
  ASSUME NEW l \in Layouts, NEW m, IsMessage(l, m) PROVE m # NoMessage
<1>1. Len(m.body) > 0
  BY MessageFacts, HeaderIsText
<1>2. NoMessage.body = <<>>
  BY DEF NoMessage
<1> QED
  BY <1>1, <1>2

LEMMA SentIsMessage ==
  ASSUME TripInv, sent # NoMessage
  PROVE  /\ layout \in Layouts /\ IsMessage(layout, sent)
         /\ Len(Encoding(layout, sent)) \in Nat
         /\ Len(sent.strings) = Len(layout.caps) /\ Len(layout.caps) \in Nat
<1>1. layout \in Layouts /\ IsMessage(layout, sent)
  BY DEF TripInv, CodecsInv, EncoderInv, WrittenInv
<1>2. Len(sent.strings) = Len(layout.caps) /\ Len(layout.caps) \in Nat
  BY <1>1, MessageFacts
<1>3. Len(Encoding(layout, sent)) \in Nat
  BY <1>1, <1>2, PrefixesEquation DEF Encoding
<1> QED
  BY <1>1, <1>2, <1>3

(* What arrived is the first part of what was sent, up to the i-th string  *)
(* and beyond.                                                             *)
LEMMA ArrivedIsPrefix ==
  ASSUME TripInv, sent # NoMessage, pc \notin {"encode", "append", "send"}
  PROVE  /\ Len(wire) \in Nat /\ Len(wire) <= Len(Encoding(layout, sent))
         /\ Whole => Len(wire) = Len(Encoding(layout, sent))
         /\ \A i \in 0 .. Len(layout.caps) :
              /\ Len(Prefixes(layout, sent)[i]) \in Nat
              /\ Len(Prefixes(layout, sent)[i]) <= Len(Encoding(layout, sent))
              /\ \A x \in 1 .. Len(Prefixes(layout, sent)[i]) :
                   x <= Len(wire) => wire[x] = Prefixes(layout, sent)[i][x]
<1>1. /\ layout \in Layouts /\ IsMessage(layout, sent) /\ Len(sent.strings) = Len(layout.caps)
      /\ Len(Encoding(layout, sent)) \in Nat /\ Len(layout.caps) \in Nat
  BY SentIsMessage
<1>2. dst \in {<<>>, Encoding(layout, sent)}
  BY DEF TripInv, WrittenInv
<1>3. /\ Len(wire) \in Nat /\ Len(wire) <= Len(dst)
      /\ \A x \in 1 .. Len(wire) : wire[x] = dst[x]
  BY DEF TripInv, CodecsInv, EncoderInv, CarriedInv, IsText
<1>4. Len(wire) = 0 \/ dst = Encoding(layout, sent)
  BY <1>2, <1>3
<1>5. Len(wire) <= Len(Encoding(layout, sent)) /\ (Whole => Len(wire) = Len(Encoding(layout, sent)))
  BY <1>1, <1>2, <1>3, <1>4 DEF Whole
<1>6. \A x \in 1 .. Len(wire) : wire[x] = Encoding(layout, sent)[x]
  BY <1>3, <1>4
<1>7. ASSUME NEW i \in 0 .. Len(layout.caps)
      PROVE  /\ Len(Prefixes(layout, sent)[i]) \in Nat
             /\ Len(Prefixes(layout, sent)[i]) <= Len(Encoding(layout, sent))
             /\ \A x \in 1 .. Len(Prefixes(layout, sent)[i]) :
                  x <= Len(wire) => wire[x] = Prefixes(layout, sent)[i][x]
  <2>1. i \in 0 .. Len(sent.strings) /\ Len(sent.strings) \in 0 .. Len(sent.strings) /\ i <= Len(sent.strings)
    BY <1>1
  <2>2. Len(Prefixes(layout, sent)[i]) \in Nat
    BY <1>1, <2>1, PrefixesEquation
  <2>3. /\ Len(Prefixes(layout, sent)[i]) <= Len(Encoding(layout, sent))
        /\ \A x \in 1 .. Len(Prefixes(layout, sent)[i]) :
             Encoding(layout, sent)[x] = Prefixes(layout, sent)[i][x]
    <3>1. Begins(Prefixes(layout, sent)[i], Encoding(layout, sent))
      BY <1>1, <2>1, PrefixesGrow DEF Encoding
    <3> QED
      BY <3>1 DEF Begins
  <2> QED
    BY <1>3, <1>6, <2>2, <2>3
<1> QED
  BY <1>3, <1>5, <1>7

(* The header and the block of what arrived.                               *)
LEMMA ArrivedHeader ==
  ASSUME TripInv, sent # NoMessage, pc \notin {"encode", "append", "send"}
  PROVE  /\ Len(Encoding(layout, sent)) >= FixedSize(layout)
         /\ layout.caps = <<>> => Len(Encoding(layout, sent)) = FixedSize(layout)
         /\ layout.caps # <<>> => Len(Encoding(layout, sent)) > FixedSize(layout)
         /\ \A x \in 1 .. HeaderSize(layout) : x <= Len(wire) => wire[x] = Header(layout)[x]
         /\ \A x \in 1 .. layout.block :
              HeaderSize(layout) + x <= Len(wire) => wire[HeaderSize(layout) + x] = sent.body[x]
<1> DEFINE l == layout
           p == Prefixes(layout, sent)
           n == Len(layout.caps)
<1>1. /\ l \in Layouts /\ IsMessage(l, sent) /\ Len(sent.strings) = n /\ n \in Nat
      /\ Len(Encoding(l, sent)) \in Nat
  BY SentIsMessage
<1>2. /\ p[0] \in Seq(Nat) /\ Len(p[0]) = FixedSize(l)
      /\ \A x \in 1 .. HeaderSize(l) : p[0][x] = Header(l)[x]
      /\ \A x \in HeaderSize(l) + 1 .. FixedSize(l) : p[0][x] = sent.body[x - HeaderSize(l)]
  BY <1>1, PrefixesEquation, FirstPrefix
<1>3. /\ HeaderSize(l) \in Nat /\ l.block \in Nat /\ FixedSize(l) = HeaderSize(l) + l.block
      /\ FixedSize(l) \in Nat
  BY <1>1, HeaderIsText
<1>4. /\ Len(p[0]) <= Len(Encoding(l, sent))
      /\ \A x \in 1 .. Len(p[0]) : x <= Len(wire) => wire[x] = p[0][x]
      /\ Len(wire) \in Nat
  <2>1. 0 \in 0 .. n
    BY <1>1
  <2> QED
    BY <2>1, ArrivedIsPrefix
<1>5. l.caps = <<>> => Len(Encoding(l, sent)) = FixedSize(l)
  BY <1>1, <1>2 DEF Encoding
<1>6. l.caps # <<>> => Len(Encoding(l, sent)) > FixedSize(l)
  <2> SUFFICES ASSUME l.caps # <<>> PROVE Len(Encoding(l, sent)) > FixedSize(l)
    OBVIOUS
  <2>1. 1 \in 1 .. n /\ 1 \in 0 .. n
    <3>1. l.caps \in Seq(Nat \ {0})
      BY <1>1, LayoutsAssumption
    <3> QED
      BY <3>1
  <2>2. p[1] = Follow(p[0], sent.strings[1]) /\ sent.strings[1] \in Seq(Nat)
    <3>1. p[1] = Follow(p[1 - 1], sent.strings[1])
      BY <1>1, <2>1, PrefixesEquation
    <3> QED
      BY <1>1, <2>1, <3>1, MessageFacts
  <2>3. Len(p[1]) = Len(p[0]) + 1 + Len(sent.strings[1]) /\ Len(sent.strings[1]) \in Nat
    <3> DEFINE s == p[0]
               t == sent.strings[1]
    <3>1. s \in Seq(Nat) /\ t \in Seq(Nat) /\ p[1] = Follow(s, t)
      BY <1>2, <2>2
    <3> HIDE DEF s, t
    <3>2. Len(p[1]) = Len(s) + 1 + Len(t) /\ Len(t) \in Nat
      BY <3>1, FollowFacts DEF Follows
    <3> QED
      BY <3>2 DEF s, t
  <2>4. Len(p[1]) <= Len(Encoding(l, sent))
    BY <2>1, ArrivedIsPrefix
  <2>5. Len(p[0]) = FixedSize(l) /\ FixedSize(l) \in Nat /\ Len(Encoding(l, sent)) \in Nat
    BY <1>1, <1>2, <1>3
  <2> HIDE DEF l, p
  <2> QED
    BY <2>3, <2>4, <2>5
<1> HIDE DEF l, p
<1>7. ASSUME NEW x \in 1 .. HeaderSize(l), x <= Len(wire) PROVE wire[x] = Header(l)[x]
  <2>1. x \in 1 .. Len(p[0])
    BY <1>2, <1>3
  <2> QED
    BY <1>2, <1>4, <1>7, <2>1
<1>8. ASSUME NEW x \in 1 .. l.block, HeaderSize(l) + x <= Len(wire)
      PROVE  wire[HeaderSize(l) + x] = sent.body[x]
  <2>1. /\ HeaderSize(l) + x \in 1 .. Len(p[0]) /\ HeaderSize(l) + x \in HeaderSize(l) + 1 .. FixedSize(l)
        /\ (HeaderSize(l) + x) - HeaderSize(l) = x
    BY <1>2, <1>3
  <2> QED
    BY <1>2, <1>4, <1>8, <2>1
<1> QED
  BY <1>2, <1>4, <1>5, <1>6, <1>7, <1>8 DEF l, p

LEMMA TripInit == Init => TripInv
<1> SUFFICES ASSUME Init PROVE TripInv
  OBVIOUS
<1>1. CodecsInv
  BY CodecsInit
<1>2. /\ layout \in Layouts /\ dst = <<>> /\ k = 1 /\ Len(dst) = 0
      /\ strings = [i \in DOMAIN layout.caps |-> <<>>]
      /\ \/ pc = "encode" /\ sent \in Messages[layout] /\ cap \in Nat /\ wire = <<>>
         \/ pc = "arrive" /\ sent = NoMessage /\ cap = 0
  BY WiresAssumption DEF Init
<1>3. pc = "encode" => IsMessage(layout, sent) /\ sent # NoMessage
  BY <1>2, MessagesAssumption, RealMessage
<1>4. WrittenInv
  BY <1>2, <1>3 DEF WrittenInv
<1>5. CarriedInv
  BY <1>2 DEF CarriedInv
<1>6. strings \in Seq(Seq(Nat)) /\ Len(strings) = Len(layout.caps)
  <2>1. layout.caps \in Seq(Nat \ {0})
    BY <1>2, LayoutsAssumption
  <2>2. /\ DOMAIN layout.caps = 1 .. Len(layout.caps) /\ Len(layout.caps) \in Nat
        /\ <<>> \in Seq(Nat)
    BY <2>1
  <2>3. strings = [i \in 1 .. Len(layout.caps) |-> <<>>]
    BY <1>2, <2>2
  <2>4. strings \in [1 .. Len(layout.caps) -> Seq(Nat)]
    BY <2>2, <2>3
  <2> QED
    BY <2>2, <2>4
<1>7. ReadInv
  BY <1>2, <1>6 DEF ReadInv
<1> QED
  BY <1>1, <1>4, <1>5, <1>7 DEF TripInv

(* The encoder: what it checks at the start is room enough for every       *)
(* string, so none is left out.                                            *)
LEMMA EncodingWrites ==
  ASSUME TripInv, EncodeFixed \/ AppendString \/ Encoded
  PROVE  WrittenInv'
<1> DEFINE l == layout
           n == Len(sent.strings)
           p == Prefixes(layout, sent)
<1>1. /\ pc \in {"encode", "append"} /\ WrittenInv
      /\ UNCHANGED <<layout, sent, cap>>
  BY DEF TripInv, EncodeFixed, AppendString, Encoded
<1>2. sent # NoMessage
  BY <1>1 DEF WrittenInv
<1>3. /\ l \in Layouts /\ IsMessage(l, sent) /\ n \in Nat /\ cap \in Nat /\ Len(dst) <= cap
      /\ Len(Encoding(l, sent)) \in Nat
  BY <1>1, <1>2, SentIsMessage DEF WrittenInv
<1>4. /\ p \in [0 .. n -> Seq(Nat)] /\ p[0] = Header(l) \o sent.body
      /\ \A i \in 1 .. n : p[i] = Follow(p[i - 1], sent.strings[i]) /\ sent.strings[i] \in Seq(Nat)
  BY <1>3, PrefixesEquation, MessageFacts
<1>5. \A i \in 0 .. n : Len(p[i]) \in Nat /\ Len(p[i]) <= Len(Encoding(l, sent))
  <2> TAKE i \in 0 .. n
  <2>1. n \in 0 .. n /\ i <= n
    BY <1>3
  <2>2. Begins(p[i], Encoding(l, sent))
    BY <1>3, <2>1, PrefixesGrow DEF Encoding
  <2>3. p[i] \in Seq(Nat)
    BY <1>4
  <2> QED
    BY <2>2, <2>3 DEF Begins
<1>6. Encoding(l, sent) = p[n]
  BY DEF Encoding
<1> HIDE DEF l, n, p
<1>7. l = layout /\ l' = l /\ n' = n /\ p' = p
  BY <1>1 DEF l, n, p
<1>8. CASE EncodeFixed
  <2>1. dst = <<>> /\ k = 1 /\ k' = k
    BY <1>1, <1>8 DEF WrittenInv, EncodeFixed
  <2>2. CASE cap < Total(layout, sent)
    <3>1. pc' = "send" /\ dst' = <<>>
      BY <1>8, <2>1, <2>2 DEF EncodeFixed
    <3>2. Len(dst') <= cap
      BY <1>3, <3>1
    <3> QED
      BY <1>1, <1>2, <3>1, <3>2 DEF WrittenInv
  <2>3. CASE ~ (cap < Total(layout, sent))
    <3>1. pc' = "append" /\ dst' = Header(layout) \o sent.body
      BY <1>8, <2>3 DEF EncodeFixed
    <3>2. Len(Encoding(layout, sent)) <= cap
      BY <1>3, <1>7, <2>3, TotalIsLength
    <3>3. dst' = p[0] /\ 0 \in 0 .. n /\ k' = 1 /\ k' \in 1 .. n + 1 /\ k' - 1 = 0
      BY <1>3, <1>4, <1>7, <2>1, <3>1
    <3>4. Len(dst') <= cap
      <4>1. Len(p[0]) <= Len(Encoding(l, sent)) /\ Len(p[0]) \in Nat
        BY <1>5, <3>3
      <4> QED
        BY <1>3, <1>7, <3>2, <3>3, <4>1
    <3>5. dst' = p[k' - 1]
      BY <3>3
    <3>6. /\ k' \in 1 .. Len(sent'.strings) + 1 /\ dst' = Prefixes(layout', sent')[k' - 1]
          /\ Len(Encoding(layout', sent')) <= cap'
      BY <1>1, <3>2, <3>3, <3>5 DEF n, p
    <3> QED
      BY <1>1, <1>2, <3>1, <3>4, <3>6 DEF WrittenInv
  <2> QED
    BY <2>2, <2>3
<1>9. CASE AppendString
  <2>1. /\ pc = "append" /\ pc' = "append" /\ k \in DOMAIN sent.strings /\ k' = k + 1
        /\ dst' = IF Len(dst) + 1 + Len(sent.strings[k]) > cap THEN dst ELSE Follow(dst, sent.strings[k])
    BY <1>9 DEF AppendString
  <2>2. dst = p[k - 1] /\ Len(Encoding(l, sent)) <= cap
    BY <1>1, <2>1, <1>7 DEF WrittenInv, p
  <2>3. k \in 1 .. n
    BY <1>3, <2>1, MessageFacts DEF n
  <2>4. k - 1 \in 0 .. n /\ k \in 0 .. n /\ k' - 1 = k /\ k' \in 1 .. n + 1
    BY <1>3, <2>1, <2>3
  <2> DEFINE t == sent.strings[k]
  <2>5. dst \in Seq(Nat) /\ t \in Seq(Nat) /\ p[k] = Follow(dst, t)
    BY <1>4, <2>2, <2>3, <2>4
  <2>6. dst' = IF Len(dst) + 1 + Len(t) > cap THEN dst ELSE Follow(dst, t)
    BY <2>1
  <2> HIDE DEF t
  <2>7. Len(p[k]) = Len(dst) + 1 + Len(t) /\ Len(dst) \in Nat /\ Len(t) \in Nat
    <3>1. Follows(p[k], dst, t)
      BY <2>5, FollowFacts
    <3>2. Len(dst) \in Nat /\ Len(t) \in Nat
      BY <2>5
    <3> QED
      BY <3>1, <3>2 DEF Follows
  <2>8. Len(p[k]) <= cap
    BY <1>3, <1>5, <2>2, <2>4
  <2>9. dst' = p[k' - 1] /\ Len(dst') <= cap
    <3>1. ~ (Len(dst) + 1 + Len(t) > cap)
      BY <1>3, <2>7, <2>8
    <3>2. dst' = p[k]
      BY <2>5, <2>6, <3>1
    <3> QED
      BY <2>4, <2>8, <3>2
  <2>10. /\ k' \in 1 .. Len(sent'.strings) + 1 /\ dst' = Prefixes(layout', sent')[k' - 1]
         /\ Len(Encoding(layout', sent')) <= cap'
    BY <1>1, <1>7, <2>2, <2>4, <2>9 DEF n, p
  <2> QED
    BY <1>1, <1>2, <2>1, <2>9, <2>10 DEF WrittenInv
<1>10. CASE Encoded
  <2>1. pc = "append" /\ pc' = "send" /\ k \notin DOMAIN sent.strings /\ dst' = dst
    BY <1>10 DEF Encoded
  <2>2. k \in 1 .. n + 1 /\ dst = p[k - 1]
    BY <1>1, <2>1 DEF WrittenInv, n, p
  <2>3. k = n + 1
    <3>1. DOMAIN sent.strings = 1 .. n
      BY <1>3, MessageFacts DEF n
    <3> QED
      BY <1>3, <2>1, <2>2, <3>1
  <2>4. k - 1 = n
    BY <1>3, <2>3
  <2>5. dst' = Encoding(layout', sent')
    BY <1>1, <1>6, <1>7, <2>1, <2>2, <2>4
  <2> QED
    BY <1>1, <1>2, <1>3, <2>1, <2>5 DEF WrittenInv
<1> QED
  BY <1>8, <1>9, <1>10

LEMMA EncodingStep ==
  ASSUME TripInv, EncodeFixed \/ AppendString \/ Encoded \/ Send
  PROVE  TripInv'
<1>1. CodecsInv' /\ CodecsInv /\ WrittenInv /\ CarriedInv /\ ReadInv
  BY EncodeStep DEF TripInv
<1>2. /\ pc \in {"encode", "append", "send"} /\ wire = <<>> /\ sent # NoMessage
      /\ UNCHANGED <<layout, sent, strings, body>>
  BY <1>1 DEF EncodeFixed, AppendString, Encoded, Send, CarriedInv, WrittenInv
<1>3. Len(dst) \in Nat /\ Len(dst') \in Nat
  BY <1>1 DEF CodecsInv, EncoderInv, IsText
<1>4. pc' \in {"append", "send", "arrive"}
  BY DEF EncodeFixed, AppendString, Encoded, Send
<1>5. ReadInv'
  BY <1>1, <1>2, <1>4 DEF ReadInv
<1>6. CASE EncodeFixed \/ AppendString \/ Encoded
  <2>1. WrittenInv'
    BY <1>6, EncodingWrites
  <2>2. wire' = <<>>
    BY <1>2, <1>6 DEF EncodeFixed, AppendString, Encoded
  <2>3. Len(wire') = 0
    BY <2>2
  <2>4. CarriedInv'
    BY <1>3, <2>2, <2>3 DEF CarriedInv
  <2> QED
    BY <1>1, <1>5, <2>1, <2>4 DEF TripInv
<1>7. CASE Send
  <2>1. pc = "send" /\ pc' = "arrive" /\ k' = 1 /\ UNCHANGED <<layout, sent, cap, dst>>
    BY <1>7 DEF Send
  <2>2. WrittenInv'
    BY <1>1, <2>1 DEF WrittenInv
  <2>3. PICK n \in 0 .. Len(dst) : wire' = SubSeq(dst, 1, n)
    BY <1>7 DEF Send
  <2>4. \A x \in 1 .. n : dst[x] \in Nat
    BY <1>1, <1>3, <2>3 DEF CodecsInv, EncoderInv, IsText
  <2>5. Len(wire') = n /\ \A x \in 1 .. n : wire'[x] = dst[x]
    BY <1>3, <2>3, <2>4, SubSeqProperties
  <2>6. CarriedInv'
    BY <1>3, <2>1, <2>3, <2>5 DEF CarriedInv
  <2> QED
    BY <1>1, <1>5, <2>2, <2>6 DEF TripInv
<1> QED
  BY <1>6, <1>7

(* Nothing of what was sent whole is refused by a frame splitter.          *)
LEMMA WholeFitsHeader ==
  ASSUME TripInv, Whole, pc \notin {"encode", "append", "send"}
  PROVE  /\ Len(wire) = Len(Encoding(layout, sent)) /\ Len(wire) \in Nat
         /\ Len(wire) >= FixedSize(layout)
         /\ layout.caps # <<>> => Len(wire) > FixedSize(layout)
         /\ layout.caps = <<>> => Len(wire) = FixedSize(layout)
         /\ HeaderFits /\ HeaderSize(layout) <= Len(wire)
         /\ layout.format = "sbe" => HeaderSize(layout) + wire[1] = FixedSize(layout)
         /\ layout.format # "sbe" => wire[1] = Len(wire) /\ wire[1] > 0
<1> DEFINE l == layout
           h == Header(layout)
<1>1. sent # NoMessage /\ l \in Layouts
  BY DEF Whole, TripInv, CodecsInv, EncoderInv
<1>2. /\ Len(wire) = Len(Encoding(layout, sent)) /\ Len(wire) \in Nat
      /\ Len(wire) >= FixedSize(layout)
      /\ layout.caps # <<>> => Len(wire) > FixedSize(layout)
      /\ layout.caps = <<>> => Len(wire) = FixedSize(layout)
  BY <1>1, ArrivedIsPrefix, ArrivedHeader
<1>3. /\ HeaderSize(l) \in Nat /\ FixedSize(l) = HeaderSize(l) + l.block /\ HeaderSize(l) > 1
      /\ l.block \in Nat /\ h[2] = l.template /\ l.block > 0
      /\ l.format = "sbe" => h[1] = l.block /\ h[3] = l.schema /\ HeaderSize(l) > 2
      /\ l.format = "eti" => h[1] = FixedSize(l)
  BY <1>1, HeaderIsText
<1>4. \A x \in 1 .. HeaderSize(l) : x <= Len(wire) => wire[x] = h[x]
  BY <1>1, ArrivedHeader
<1>5. l.format \in {"sbe", "eti"} /\ (l.format = "eti" => l.caps = <<>>)
  BY <1>1, LayoutsAssumption
<1> HIDE DEF h
<1>6. HeaderSize(l) <= Len(wire)
  BY <1>2, <1>3
<1>7. wire[1] = h[1] /\ wire[2] = h[2] /\ (HeaderSize(l) > 2 => wire[3] = h[3])
  BY <1>2, <1>3, <1>4, <1>6
<1>8. HeaderFits
  BY <1>3, <1>7 DEF HeaderFits
<1>9. l.format = "sbe" => HeaderSize(l) + wire[1] = FixedSize(l)
  BY <1>3, <1>7
<1>10. l.format # "sbe" => wire[1] = Len(wire) /\ wire[1] > 0
  BY <1>2, <1>3, <1>5, <1>7
<1> QED
  BY <1>2, <1>6, <1>8, <1>9, <1>10

LEMMA ArrivingStep ==
  ASSUME TripInv, SplitFrame \/ Deliver
  PROVE  TripInv'
<1>1. CodecsInv' /\ WrittenInv /\ CarriedInv /\ ReadInv
  BY ArriveStep DEF TripInv
<1>2. /\ pc = "arrive" /\ pc' \in {"refused", "decode"}
      /\ UNCHANGED <<layout, sent, cap, dst, wire, k, offset, body, strings>>
  BY DEF SplitFrame, Deliver, Refuse, Pass
<1>3. WrittenInv' /\ CarriedInv'
  BY <1>1, <1>2 DEF WrittenInv, CarriedInv
<1>4. Whole' <=> Whole
  BY <1>2 DEF Whole
<1>5. Whole => pc' = "decode" /\ len' = Len(wire)
  <2> SUFFICES ASSUME Whole PROVE pc' = "decode" /\ len' = Len(wire)
    OBVIOUS
  <2>1. CASE Deliver
    BY <2>1 DEF Deliver, Pass
  <2>2. CASE SplitFrame
    <3>1. /\ Len(wire) \in Nat /\ Len(wire) >= FixedSize(layout) /\ HeaderSize(layout) <= Len(wire)
          /\ layout.format = "sbe" => HeaderSize(layout) + wire[1] = FixedSize(layout)
          /\ layout.format # "sbe" => wire[1] = Len(wire) /\ wire[1] > 0
      BY <1>2, WholeFitsHeader
    <3>2. HeaderSize(layout) \in Nat /\ FixedSize(layout) \in Nat
      BY HeaderIsText DEF TripInv, CodecsInv, EncoderInv
    <3>3. CASE layout.format = "sbe"
      <4>1. ~ (Len(wire) < HeaderSize(layout) \/ HeaderSize(layout) + wire[1] > Len(wire))
        BY <3>1, <3>2, <3>3
      <4> QED
        BY <2>2, <3>3, <4>1 DEF SplitFrame, Pass
    <3>4. CASE layout.format # "sbe"
      <4>1. ~ (Len(wire) < HeaderSize(layout) \/ wire[1] = 0 \/ wire[1] > Len(wire))
        BY <3>1, <3>2, <3>4
      <4>2. pc' = "decode" /\ len' = wire[1]
        BY <2>2, <3>4, <4>1 DEF SplitFrame, Pass
      <4> QED
        BY <3>1, <3>4, <4>2
    <3> QED
      BY <3>3, <3>4
  <2> QED
    BY <2>1, <2>2
<1>6. ReadInv'
  BY <1>1, <1>2, <1>4, <1>5 DEF ReadInv
<1> QED
  BY <1>1, <1>3, <1>6 DEF TripInv

(* The header and the block are as they were sent.                         *)
LEMMA DecodingFixed ==
  ASSUME TripInv, DecodeFixed
  PROVE  TripInv'
<1> DEFINE l == layout
           h == HeaderSize(layout)
<1>1. CodecsInv' /\ CodecsInv /\ WrittenInv /\ CarriedInv /\ ReadInv
  BY DecodeFixedStep DEF TripInv
<1>2. /\ l \in Layouts /\ wire \in Seq(Nat) /\ Len(wire) \in Nat /\ pc = "decode"
      /\ k = 1 /\ len \in Nat /\ len <= Len(wire)
      /\ UNCHANGED <<layout, sent, cap, dst, wire, len, k, strings>>
  BY <1>1 DEF CodecsInv, EncoderInv, DecoderInv, WithinBounds, IsText, DecodeFixed
<1>3. /\ h \in Nat /\ l.block \in Nat /\ FixedSize(l) = h + l.block /\ FixedSize(l) \in Nat
      /\ l.caps \in Seq(Nat \ {0}) /\ Len(l.caps) \in Nat
  BY <1>2, HeaderIsText, LayoutsAssumption
<1>4. pc' \in {"refused", "accepted", "string"}
  BY DEF DecodeFixed, Refuse
<1>5. WrittenInv' /\ CarriedInv' /\ (Whole' <=> Whole)
  BY <1>1, <1>2, <1>4 DEF WrittenInv, CarriedInv, Whole
<1>6. Whole => len = Len(wire) /\ ~ TooShort /\ HeaderFits
  <2> SUFFICES ASSUME Whole PROVE len = Len(wire) /\ ~ TooShort /\ HeaderFits
    OBVIOUS
  <2>1. len = Len(wire)
    BY <1>1, <1>2 DEF ReadInv
  <2>2. /\ HeaderFits /\ Len(wire) >= FixedSize(l)
        /\ l.caps # <<>> => Len(wire) > FixedSize(l)
    BY <1>2, WholeFitsHeader
  <2>3. ~ TooShort
    BY <1>2, <1>3, <2>1, <2>2 DEF TooShort
  <2> QED
    BY <2>1, <2>2, <2>3
<1>7. CASE TooShort \/ (layout.format = "sbe" /\ ~HeaderFits)
  <2>1. pc' = "refused" /\ ~ Whole
    BY <1>6, <1>7 DEF DecodeFixed, Refuse
  <2>2. ReadInv'
    BY <1>1, <1>2, <1>5, <2>1 DEF ReadInv
  <2> QED
    BY <1>1, <1>5, <2>2 DEF TripInv
<1>8. CASE ~ (TooShort \/ (layout.format = "sbe" /\ ~HeaderFits))
  <2>1. /\ pc' = IF ~HeaderFits THEN "refused" ELSE IF l.caps = <<>> THEN "accepted" ELSE "string"
        /\ offset' = FixedSize(l)
        /\ body' = SubSeq(wire, h + 1, FixedSize(l))
    BY <1>8 DEF DecodeFixed
  <2>2. FixedSize(l) <= Len(wire)
    BY <1>2, <1>3, <1>8 DEF TooShort
  <2>3. \A x \in h + 1 .. FixedSize(l) : wire[x] \in Nat
    BY <1>2, <1>3, <2>2
  <2>4. /\ body' \in Seq(Nat) /\ Len(body') = l.block
        /\ \A x \in 1 .. l.block : body'[x] = wire[h + x]
    <3> DEFINE a == h + 1
               b == FixedSize(l)
    <3>1. /\ a \in Int /\ b \in Int /\ \A x \in a .. b : wire[x] \in Nat
          /\ body' = SubSeq(wire, a, b)
      BY <1>3, <2>1, <2>3
    <3>2. b - a + 1 = l.block /\ (a <= b \/ l.block = 0)
      BY <1>3
    <3>3. \A x \in 1 .. l.block : a + x - 1 = h + x
      BY <1>3
    <3> HIDE DEF a, b, h
    <3>4. /\ SubSeq(wire, a, b) \in Seq(Nat)
          /\ Len(SubSeq(wire, a, b)) = IF a <= b THEN b - a + 1 ELSE 0
          /\ \A x \in 1 .. b - a + 1 : SubSeq(wire, a, b)[x] = wire[a + x - 1]
      BY <3>1, SubSeqProperties
    <3>5. Len(body') = l.block
      BY <3>1, <3>2, <3>4
    <3>6. \A x \in 1 .. l.block : body'[x] = wire[h + x]
      BY <3>1, <3>2, <3>3, <3>4
    <3> QED
      BY <3>1, <3>4, <3>5, <3>6
  <2> DEFINE m == Again'
  <2>5. IsMessage(l, m) /\ m.body = body' /\ m.strings = strings'
    <3>1. /\ strings' \in Seq(Seq(Nat)) /\ Len(strings') = Len(l.caps)
          /\ m = [body |-> body', strings |-> strings']
      BY <1>1, <1>2 DEF ReadInv, Again
    <3> QED
      BY <2>4, <3>1 DEF IsMessage
  <2> HIDE DEF m
  <2> DEFINE p == Prefixes(l, m)[0]
  <2>6. p = Header(l) \o m.body
    BY <1>2, <2>5, PrefixesEquation
  <2>7. /\ Len(p) = FixedSize(l)
        /\ \A x \in h + 1 .. FixedSize(l) : p[x] = m.body[x - h]
    BY <1>2, <2>5, <2>6, FirstPrefix
  <2>8. ASSUME NEW x \in h + 1 .. FixedSize(l) PROVE p[x] = wire[x]
    <3>1. x - h \in 1 .. l.block /\ h + (x - h) = x
      BY <1>3
    <3> QED
      BY <2>4, <2>5, <2>7, <3>1
  <2>9. HeaderFits => wire[2] = l.template
    BY DEF HeaderFits
  <2>10. sent # NoMessage => body' = sent.body
    <3> SUFFICES ASSUME sent # NoMessage PROVE body' = sent.body
      OBVIOUS
    <3>1. sent.body \in Seq(Nat) /\ Len(sent.body) = l.block
      BY SentIsMessage, MessageFacts
    <3>2. \A x \in 1 .. l.block : h + x <= Len(wire) => wire[h + x] = sent.body[x]
      BY <1>2, ArrivedHeader
    <3>3. \A x \in 1 .. l.block : h + x <= Len(wire)
      BY <1>2, <1>3, <2>2
    <3>4. \A x \in 1 .. l.block : body'[x] = sent.body[x]
      BY <2>4, <3>2, <3>3
    <3> QED
      BY <2>4, <3>1, <3>4
  <2>11. k' = 1 /\ k' - 1 = 0 /\ 1 \in 1 .. Len(l.caps) + 1 /\ (l.caps = <<>> => Len(l.caps) + 1 = 1)
    BY <1>2, <1>3
  <2>12. /\ pc' # "refused" => HeaderFits
         /\ pc' = "accepted" => l.caps = <<>>
         /\ Whole => pc' # "refused"
         /\ pc' # "decode"
    BY <1>6, <2>1
  <2>13. Len(p) = offset' /\ \A x \in h + 1 .. offset' : p[x] = wire[x]
    BY <2>1, <2>7, <2>8
  <2> HIDE DEF p
  <2>14. p = Prefixes(layout, Again)[k - 1]' /\ layout' = l /\ h' = h
    BY <1>2, <2>11 DEF p, m
  <2> DEFINE Good == /\ IsMessage(layout, Again)
                     /\ k \in 1 .. Len(layout.caps) + 1 /\ (pc = "accepted" => k = Len(layout.caps) + 1)
                     /\ wire[2] = layout.template
                     /\ Len(Prefixes(layout, Again)[k - 1]) = offset
                     /\ \A x \in HeaderSize(layout) + 1 .. offset : Prefixes(layout, Again)[k - 1][x] = wire[x]
                     /\ sent # NoMessage => body = sent.body /\ \A i \in 1 .. k - 1 : strings[i] = sent.strings[i]
  <2>15. pc' \in {"string", "accepted"} => Good'
    <3> SUFFICES ASSUME pc' \in {"string", "accepted"} PROVE Good'
      OBVIOUS
    <3>1. IsMessage(layout, Again)'
      BY <2>5, <2>14 DEF m
    <3>2. (k \in 1 .. Len(layout.caps) + 1 /\ (pc = "accepted" => k = Len(layout.caps) + 1))'
      BY <2>11, <2>12, <2>14
    <3>3. (wire[2] = layout.template)'
      BY <1>2, <2>9, <2>12
    <3>4. (/\ Len(Prefixes(layout, Again)[k - 1]) = offset
           /\ \A x \in HeaderSize(layout) + 1 .. offset : Prefixes(layout, Again)[k - 1][x] = wire[x])'
      BY <1>2, <2>13, <2>14
    <3>5. (sent # NoMessage => body = sent.body /\ \A i \in 1 .. k - 1 : strings[i] = sent.strings[i])'
      BY <1>2, <2>10, <2>11
    <3> QED
      BY <3>1, <3>2, <3>3, <3>4, <3>5
  <2>16. ReadInv'
    <3>1. (strings \in Seq(Seq(Nat)) /\ Len(strings) = Len(layout.caps))'
      BY <1>1, <1>2 DEF ReadInv
    <3>2. (Whole /\ pc \in {"decode", "string"} => len = Len(wire))'
      BY <1>2, <1>5, <1>6
    <3>3. ~ (Whole /\ pc = "refused")'
      BY <1>5, <2>12
    <3> QED
      BY <2>15, <3>1, <3>2, <3>3 DEF ReadInv
  <2> QED
    BY <1>1, <1>5, <2>16 DEF TripInv
<1> QED
  BY <1>7, <1>8

(* The string the decoder comes to is the one that was sent.               *)
LEMMA NextString ==
  ASSUME TripInv, pc = "string", sent # NoMessage
  PROVE  LET t == sent.strings[k]
         IN  /\ t \in Seq(Nat) /\ k \in DOMAIN sent.strings
             /\ offset + 1 + Len(t) <= Len(Encoding(layout, sent))
             /\ offset + 1 <= Len(wire) => wire[offset + 1] = Len(t)
             /\ \A x \in 1 .. Len(t) : offset + 1 + x <= Len(wire) => wire[offset + 1 + x] = t[x]
<1> DEFINE l == layout
           n == Len(layout.caps)
           t == sent.strings[k]
           p == Prefixes(layout, sent)
<1>1. /\ l \in Layouts /\ IsMessage(l, sent) /\ n \in Nat /\ Len(sent.strings) = n
  BY SentIsMessage
<1>2. /\ IsMessage(l, Again) /\ Len(Prefixes(l, Again)[k - 1]) = offset
      /\ body = sent.body /\ \A i \in 1 .. k - 1 : strings[i] = sent.strings[i]
  BY DEF TripInv, ReadInv
<1>3. k \in 1 .. n /\ offset \in Nat
  <2>1. k \in DOMAIN layout.caps /\ offset \in Nat
    BY DEF TripInv, CodecsInv, DecoderInv
  <2> QED
    BY <1>1, <2>1, MessageFacts
<1>4. k - 1 \in 0 .. n /\ k \in 0 .. n /\ k \in DOMAIN sent.strings
  BY <1>1, <1>3, MessageFacts
<1>5. Again.body = body /\ Again.strings = strings
  BY DEF Again
<1>6. Prefixes(l, Again)[k - 1] = p[k - 1]
  BY <1>1, <1>2, <1>4, <1>5, PrefixesAgree
<1>7. p \in [0 .. n -> Seq(Nat)] /\ p[k] = Follow(p[k - 1], t) /\ t \in Seq(Nat)
  BY <1>1, <1>3, PrefixesEquation, MessageFacts
<1>8. /\ Len(p[k]) <= Len(Encoding(l, sent)) /\ Len(wire) \in Nat
      /\ \A x \in 1 .. Len(p[k]) : x <= Len(wire) => wire[x] = p[k][x]
  BY <1>4, ArrivedIsPrefix
<1> HIDE DEF p, t
<1>9. Follows(p[k], p[k - 1], t) /\ Len(p[k - 1]) = offset /\ Len(t) \in Nat
  <2>1. p[k - 1] \in Seq(Nat)
    BY <1>4, <1>7
  <2>2. Follows(p[k], p[k - 1], t)
    BY <1>7, <2>1, FollowFacts
  <2> QED
    BY <1>2, <1>6, <1>7, <2>2
<1>10. /\ Len(p[k]) = offset + 1 + Len(t) /\ p[k][offset + 1] = Len(t)
       /\ \A x \in 1 .. Len(t) : p[k][offset + 1 + x] = t[x]
  BY <1>9 DEF Follows
<1>11. offset + 1 <= Len(wire) => wire[offset + 1] = Len(t)
  <2>1. offset + 1 \in 1 .. Len(p[k])
    <3>1. offset + 1 \in 1 .. offset + 1 + Len(t)
      BY <1>3, <1>9
    <3> QED
      BY <1>10, <3>1
  <2> QED
    BY <1>8, <1>10, <2>1
<1>12. \A x \in 1 .. Len(t) : offset + 1 + x <= Len(wire) => wire[offset + 1 + x] = t[x]
  <2>1. \A x \in 1 .. Len(t) : offset + 1 + x \in 1 .. Len(p[k])
    <3>1. \A x \in 1 .. Len(t) : offset + 1 + x \in 1 .. offset + 1 + Len(t)
      BY <1>3, <1>9
    <3> QED
      BY <1>10, <3>1
  <2> QED
    BY <1>8, <1>10, <2>1
<1> QED
  BY <1>4, <1>7, <1>8, <1>10, <1>11, <1>12 DEF t

(* One string more is read.                                                *)
ReadsOne(n) ==
  /\ pc = "string" /\ offset < len /\ n = wire[offset + 1] /\ ~ (offset + 1 + n > len)
  /\ strings' = [strings EXCEPT ![k] = SubSeq(wire, offset + 2, offset + 1 + n)]
  /\ offset' = offset + 1 + n
  /\ k' = k + 1
  /\ pc' = IF k = Len(layout.caps) THEN "accepted" ELSE "string"
  /\ UNCHANGED <<layout, sent, cap, dst, wire, len, body>>

LEMMA ReadingOne ==
  ASSUME TripInv, NEW n, ReadsOne(n)
  PROVE  ReadInv'
<1> DEFINE l == layout
           m == Again
           o == Again'
           t == strings'[k]
           p == Prefixes(layout, Again)[k - 1]
           q == Prefixes(layout, Again')[k]
<1>1. CodecsInv /\ ReadInv
  BY DEF TripInv
<1>2. /\ l \in Layouts /\ wire \in Seq(Nat) /\ Len(wire) \in Nat
      /\ len \in Nat /\ len <= Len(wire) /\ offset \in Nat /\ k \in DOMAIN l.caps
  BY <1>1 DEF CodecsInv, EncoderInv, DecoderInv, WithinBounds, IsText, ReadsOne
<1>3. /\ IsMessage(l, m) /\ wire[2] = l.template /\ Len(p) = offset
      /\ \A x \in HeaderSize(l) + 1 .. offset : p[x] = wire[x]
      /\ sent # NoMessage => body = sent.body /\ \A i \in 1 .. k - 1 : strings[i] = sent.strings[i]
  BY <1>1 DEF ReadInv, ReadsOne
<1>4. /\ Len(l.caps) \in Nat /\ DOMAIN l.caps = 1 .. Len(l.caps)
      /\ m.strings = strings /\ m.body = body /\ Len(strings) = Len(l.caps)
      /\ strings \in Seq(Seq(Nat))
  BY <1>1, <1>2, <1>3, MessageFacts DEF Again, ReadInv
<1>5. k \in 1 .. Len(l.caps) /\ k - 1 \in 0 .. Len(l.caps) /\ k \in 0 .. Len(l.caps)
  <2> DEFINE c == Len(l.caps)
  <2>1. k \in 1 .. c /\ c \in Nat
    BY <1>2, <1>4
  <2> HIDE DEF c
  <2>2. k - 1 \in 0 .. c /\ k \in 0 .. c
    BY <2>1
  <2> QED
    BY <2>1, <2>2 DEF c
<1>6. /\ offset + 1 \in 1 .. Len(wire) /\ n \in Nat /\ offset + 1 + n <= len
      /\ offset + 1 + n <= Len(wire)
  <2>1. offset + 1 \in 1 .. Len(wire)
    BY <1>2 DEF ReadsOne
  <2>2. n \in Nat
    BY <1>2, <2>1 DEF ReadsOne
  <2>3. ~ (offset + 1 + n > len)
    BY DEF ReadsOne
  <2> QED
    BY <1>2, <2>1, <2>2, <2>3
<1>7. /\ t \in Seq(Nat) /\ Len(t) = n
      /\ \A x \in 1 .. n : t[x] = wire[offset + 1 + x]
  <2> DEFINE a == offset + 2
             b == offset + 1 + n
  <2>1. t = SubSeq(wire, a, b)
    <3>1. k \in DOMAIN strings
      BY <1>4, <1>5
    <3> QED
      BY <3>1 DEF ReadsOne
  <2> HIDE DEF t
  <2>2. /\ a \in Int /\ b \in Int /\ b - a + 1 = n /\ (a <= b \/ n = 0)
        /\ \A x \in 1 .. n : a + x - 1 = offset + 1 + x
    BY <1>2, <1>6
  <2>3. \A x \in a .. b : wire[x] \in Nat
    <3>1. \A x \in a .. b : x \in 1 .. Len(wire)
      BY <1>2, <1>6
    <3> QED
      BY <1>2, <3>1
  <2> HIDE DEF a, b, t
  <2>4. /\ SubSeq(wire, a, b) \in Seq(Nat)
        /\ Len(SubSeq(wire, a, b)) = IF a <= b THEN b - a + 1 ELSE 0
        /\ \A x \in 1 .. b - a + 1 : SubSeq(wire, a, b)[x] = wire[a + x - 1]
    BY <2>2, <2>3, SubSeqProperties
  <2>5. Len(t) = n
    BY <1>6, <2>1, <2>2, <2>4
  <2>6. \A x \in 1 .. n : t[x] = wire[offset + 1 + x]
    BY <2>1, <2>2, <2>4
  <2> QED
    BY <2>1, <2>4, <2>5, <2>6
<1>8. /\ strings' \in Seq(Seq(Nat)) /\ Len(strings') = Len(l.caps)
      /\ \A i \in 1 .. k - 1 : strings'[i] = strings[i]
  <2> DEFINE new == SubSeq(wire, offset + 2, offset + 1 + n)
  <2>1. new \in Seq(Nat)
    <3>1. k \in DOMAIN strings
      BY <1>4, <1>5
    <3>2. new = t
      BY <3>1 DEF ReadsOne
    <3> HIDE DEF new, t
    <3> QED
      BY <1>7, <3>2
  <2> HIDE DEF new
  <2>2. strings' = [strings EXCEPT ![k] = new]
    BY DEF new, ReadsOne
  <2> QED
    BY <1>4, <1>5, <2>1, <2>2
<1>9. IsMessage(l, o) /\ o.strings = strings' /\ o.body = body
  <2>1. o = [body |-> body', strings |-> strings']
    BY DEF Again
  <2>2. body \in Seq(Nat) /\ Len(body) = l.block
    BY <1>2, <1>3, <1>4, MessageFacts
  <2>3. body' = body
    BY DEF ReadsOne
  <2> HIDE DEF o
  <2> QED
    BY <1>8, <2>1, <2>2, <2>3 DEF IsMessage
<1> HIDE DEF t, m, o
<1>10. p = Prefixes(l, o)[k - 1]
  <2>1. \A i \in 1 .. k - 1 : m.strings[i] = o.strings[i]
    BY <1>4, <1>8, <1>9
  <2>2. p = Prefixes(l, m)[k - 1]
    BY DEF m
  <2>3. m.body = o.body
    BY <1>4, <1>9
  <2> DEFINE j == k - 1
  <2>4. j \in 0 .. Len(l.caps) /\ \A i \in 1 .. j : m.strings[i] = o.strings[i]
    BY <1>5, <2>1
  <2>5. l \in Layouts /\ IsMessage(l, m) /\ IsMessage(l, o)
    BY <1>2, <1>3, <1>9 DEF m
  <2> HIDE DEF p, j, l
  <2>6. Prefixes(l, m)[j] = Prefixes(l, o)[j]
    BY <2>3, <2>4, <2>5, PrefixesAgree
  <2> QED
    BY <2>2, <2>6 DEF j
<1>11. Follows(q, p, t)
  <2>1. q = Prefixes(l, o)[k]
    BY DEF o
  <2>2. Len(o.strings) = Len(l.caps) /\ o.strings[k] = t
    BY <1>8, <1>9 DEF t
  <2> HIDE DEF p, q
  <2>3. q = Follow(p, t) /\ p \in Seq(Nat)
    BY <1>2, <1>5, <1>9, <1>10, <2>1, <2>2, PrefixesEquation
  <2> QED
    BY <1>7, <2>3, FollowFacts
<1> HIDE DEF p, q
<1>12. Len(q) = offset' /\ offset' = offset + 1 + n
  BY <1>3, <1>7, <1>11 DEF Follows, ReadsOne
<1>13. ASSUME NEW x \in HeaderSize(l) + 1 .. offset' PROVE q[x] = wire[x]
  <2>1. HeaderSize(l) \in Nat
    BY <1>2, HeaderIsText
  <2>2. CASE x <= offset
    <3>1. x \in HeaderSize(l) + 1 .. offset /\ x \in 1 .. offset
      BY <1>2, <1>6, <1>12, <2>1, <2>2
    <3>2. q[x] = p[x]
      BY <1>3, <1>11, <3>1 DEF Follows
    <3> QED
      BY <1>3, <3>1, <3>2
  <2>3. CASE x = offset + 1
    BY <1>3, <1>7, <1>11, <2>3 DEF Follows, ReadsOne
  <2>4. CASE x > offset + 1
    <3> DEFINE y == x - (offset + 1)
    <3>1. y \in 1 .. n /\ offset + 1 + y = x
      BY <1>2, <1>6, <1>12, <2>1, <2>4
    <3> HIDE DEF y
    <3>2. q[offset + 1 + y] = t[y]
      BY <1>3, <1>7, <1>11, <3>1 DEF Follows
    <3>3. t[y] = wire[offset + 1 + y]
      BY <1>7, <3>1
    <3> QED
      BY <3>1, <3>2, <3>3
  <2> QED
    BY <1>2, <1>6, <1>12, <2>1, <2>2, <2>3, <2>4
<1>14. ASSUME sent # NoMessage PROVE \A i \in 1 .. k : strings'[i] = sent.strings[i]
  <2> DEFINE s == sent.strings[k]
  <2>1. /\ s \in Seq(Nat) /\ (offset + 1 <= Len(wire) => wire[offset + 1] = Len(s))
        /\ \A x \in 1 .. Len(s) : offset + 1 + x <= Len(wire) => wire[offset + 1 + x] = s[x]
    BY <1>14, NextString DEF ReadsOne
  <2> HIDE DEF s
  <2>2. Len(s) = n
    BY <1>2, <1>6, <2>1 DEF ReadsOne
  <2>3. \A x \in 1 .. n : offset + 1 + x <= Len(wire)
    BY <1>2, <1>6
  <2>4. \A x \in 1 .. n : t[x] = s[x]
    BY <1>7, <2>1, <2>2, <2>3
  <2>5. t = s
    BY <1>7, <2>1, <2>2, <2>4
  <2>6. strings'[k] = sent.strings[k]
    BY <2>5 DEF s, t
  <2>7. \A i \in 1 .. k - 1 : strings'[i] = sent.strings[i]
    BY <1>3, <1>8, <1>14
  <2>8. \A i \in 1 .. k : i = k \/ i \in 1 .. k - 1
    BY <1>5
  <2> QED
    BY <2>6, <2>7, <2>8
<1>15. /\ k' - 1 = k /\ k' \in 1 .. Len(l.caps) + 1
       /\ pc' = "accepted" => k' = Len(l.caps) + 1
       /\ pc' \in {"string", "accepted"}
  <2> DEFINE c == Len(l.caps)
  <2>1. c \in Nat /\ k \in 1 .. c /\ k' = k + 1 /\ pc' = IF k = c THEN "accepted" ELSE "string"
    BY <1>4, <1>5 DEF ReadsOne
  <2> HIDE DEF c
  <2>2. k' - 1 = k /\ k' \in 1 .. c + 1 /\ (pc' = "accepted" => k' = c + 1)
    BY <2>1
  <2> QED
    BY <2>1, <2>2 DEF c
<1>16. (Whole /\ pc \in {"decode", "string"} => len = Len(wire))'
  BY <1>1 DEF ReadInv, Whole, ReadsOne
<1>17. /\ layout' = l /\ Prefixes(layout, Again)[k - 1]' = q
       /\ UNCHANGED <<sent, wire, body>>
  BY <1>15 DEF q, ReadsOne
<1>18. (IsMessage(layout, Again))'
  BY <1>9, <1>17 DEF o
<1>19. (/\ Len(Prefixes(layout, Again)[k - 1]) = offset
        /\ \A x \in HeaderSize(layout) + 1 .. offset : Prefixes(layout, Again)[k - 1][x] = wire[x])'
  BY <1>12, <1>13, <1>17
<1>20. (sent # NoMessage => body = sent.body /\ \A i \in 1 .. k - 1 : strings[i] = sent.strings[i])'
  BY <1>3, <1>14, <1>15, <1>17
<1> QED
  BY <1>3, <1>8, <1>15, <1>16, <1>17, <1>18, <1>19, <1>20 DEF ReadInv

LEMMA ReadingString ==
  ASSUME TripInv, ReadString
  PROVE  TripInv'
<1>1. CodecsInv' /\ CodecsInv /\ WrittenInv /\ CarriedInv /\ ReadInv
  BY ReadStringStep DEF TripInv
<1>2. /\ pc = "string" /\ pc' \in {"refused", "accepted", "string"}
      /\ UNCHANGED <<layout, sent, cap, dst, wire, len, body>>
  BY DEF ReadString, Refuse
<1>3. WrittenInv' /\ CarriedInv' /\ (Whole' <=> Whole)
  BY <1>1, <1>2 DEF WrittenInv, CarriedInv, Whole
<1>4. len \in Nat /\ offset \in Nat /\ k \in DOMAIN layout.caps /\ (Whole => len = Len(wire))
  BY <1>1, <1>2 DEF CodecsInv, DecoderInv, ReadInv
<1>5. ASSUME Whole
      PROVE  LET t == sent.strings[k]
             IN  /\ k \in DOMAIN sent.strings /\ Len(t) \in Nat /\ wire[offset + 1] = Len(t)
                 /\ offset + 1 + Len(t) <= len
  <2> DEFINE t == sent.strings[k]
  <2>1. sent # NoMessage
    BY <1>5 DEF Whole
  <2>2. /\ t \in Seq(Nat) /\ k \in DOMAIN sent.strings
        /\ offset + 1 + Len(t) <= Len(Encoding(layout, sent))
        /\ offset + 1 <= Len(wire) => wire[offset + 1] = Len(t)
    BY <1>2, <2>1, NextString
  <2>3. Len(wire) = Len(Encoding(layout, sent))
    BY <1>2, <1>5, <2>1, ArrivedIsPrefix
  <2> HIDE DEF t
  <2>4. Len(t) \in Nat
    BY <2>2
  <2>5. offset + 1 + Len(t) <= len /\ offset + 1 <= Len(wire)
    BY <1>4, <1>5, <2>2, <2>3, <2>4
  <2> QED
    BY <2>2, <2>4, <2>5 DEF t
<1>6. CASE offset >= len
  <2>1. ~ Whole
    <3> DEFINE n == Len(sent.strings[k])
    <3>1. Whole => n \in Nat /\ offset + 1 + n <= len
      BY <1>5
    <3> HIDE DEF n
    <3> QED
      BY <1>4, <1>6, <3>1
  <2>2. pc' = "refused" /\ UNCHANGED strings
    BY <1>6 DEF ReadString, Refuse
  <2>3. ReadInv'
    BY <1>1, <1>2, <1>3, <2>1, <2>2 DEF ReadInv
  <2> QED
    BY <1>1, <1>3, <2>3 DEF TripInv
<1>7. CASE ~ (offset >= len)
  <2> DEFINE n == wire[offset + 1]
  <2>1. IF StringTooLong(n)
          THEN pc' = "refused" /\ UNCHANGED strings
          ELSE /\ strings' = [strings EXCEPT ![k] = SubSeq(wire, offset + 2, offset + 1 + n)]
               /\ offset' = offset + 1 + n
               /\ k' = k + 1
               /\ pc' = IF k = Len(layout.caps) THEN "accepted" ELSE "string"
    BY <1>7 DEF ReadString, Refuse
  <2>2. CASE StringTooLong(n)
    <3>1. Whole => k \in DOMAIN sent.strings /\ Len(sent.strings[k]) >= layout.caps[k]
      <4> SUFFICES ASSUME Whole
          PROVE k \in DOMAIN sent.strings /\ Len(sent.strings[k]) >= layout.caps[k]
        OBVIOUS
      <4> DEFINE s == Len(sent.strings[k])
      <4>1. /\ k \in DOMAIN sent.strings /\ s \in Nat /\ n = s
            /\ offset + 1 + s <= len
        BY <1>5
      <4>2. offset + 1 + n > len \/ n >= layout.caps[k]
        BY <2>2 DEF StringTooLong
      <4> HIDE DEF s, n
      <4>3. s >= layout.caps[k]
        BY <1>4, <4>1, <4>2
      <4> QED
        BY <4>1, <4>3 DEF s
    <3>2. pc' = "refused" /\ UNCHANGED strings
      BY <2>1, <2>2
    <3>3. (Whole /\ pc = "refused" => \E i \in DOMAIN sent.strings : Len(sent.strings[i]) >= layout.caps[i])'
      BY <1>2, <1>3, <3>1
    <3>4. ReadInv'
      BY <1>1, <1>2, <1>3, <3>2, <3>3 DEF ReadInv
    <3> QED
      BY <1>1, <1>3, <3>4 DEF TripInv
  <2>3. CASE ~ StringTooLong(n)
    <3>1. offset < len /\ ~ (offset + 1 + n > len)
      BY <1>4, <1>7, <2>3 DEF StringTooLong
    <3>2. ReadsOne(n)
      BY <1>2, <2>1, <2>3, <3>1 DEF ReadsOne
    <3> HIDE DEF n
    <3>3. ReadInv'
      BY <3>2, ReadingOne
    <3> QED
      BY <1>1, <1>3, <3>3 DEF TripInv
  <2> QED
    BY <2>2, <2>3
<1> QED
  BY <1>6, <1>7

LEMMA TripStep == TripInv /\ [Next]_vars => TripInv'
<1> SUFFICES ASSUME TripInv, [Next]_vars PROVE TripInv'
  OBVIOUS
<1>1. CASE EncodeFixed \/ AppendString \/ Encoded \/ Send
  BY <1>1, EncodingStep
<1>2. CASE SplitFrame \/ Deliver
  BY <1>2, ArrivingStep
<1>3. CASE DecodeFixed
  BY <1>3, DecodingFixed
<1>4. CASE ReadString
  BY <1>4, ReadingString
<1>5. CASE UNCHANGED vars
  <2>1. CodecsInv'
    BY <1>5, CodecsStep DEF TripInv
  <2>2. WrittenInv'
    BY <1>5 DEF TripInv, WrittenInv, vars
  <2>3. CarriedInv'
    BY <1>5 DEF TripInv, CarriedInv, vars
  <2>4. ReadInv'
    BY <1>5 DEF TripInv, ReadInv, Whole, Again, vars
  <2> QED
    BY <2>1, <2>2, <2>3, <2>4 DEF TripInv
<1> QED
  BY <1>1, <1>2, <1>3, <1>4, <1>5 DEF Next

LEMMA TripAlways == Spec => []TripInv
<1>1. Init => TripInv
  BY TripInit
<1>2. TripInv /\ [Next]_vars => TripInv'
  BY TripStep
<1> QED
  BY <1>1, <1>2, PTL DEF Spec

-----------------------------------------------------------------------------
(* What the invariant gives.                                               *)

(* What is accepted encodes to what was read; and it is what was sent.     *)
LEMMA AcceptedIsEncoded ==
  ASSUME TripInv, pc = "accepted"
  PROVE  /\ layout \in Layouts /\ IsMessage(layout, Again)
         /\ Encoding(layout, Again) \in Seq(Nat) /\ offset \in Nat
         /\ Len(Encoding(layout, Again)) = offset /\ wire[2] = layout.template
         /\ \A x \in HeaderSize(layout) + 1 .. offset : Encoding(layout, Again)[x] = wire[x]
         /\ sent # NoMessage => Again = sent
<1> DEFINE l == layout
           n == Len(layout.caps)
           p == Prefixes(layout, Again)
<1>1. /\ l \in Layouts /\ IsMessage(l, Again) /\ k = n + 1 /\ offset \in Nat
      /\ wire[2] = layout.template /\ Len(p[k - 1]) = offset
      /\ \A x \in HeaderSize(layout) + 1 .. offset : p[k - 1][x] = wire[x]
      /\ sent # NoMessage => body = sent.body /\ \A i \in 1 .. k - 1 : strings[i] = sent.strings[i]
  BY DEF TripInv, CodecsInv, EncoderInv, DecoderInv, ReadInv
<1>2. Again.strings = strings /\ Again.body = body
  BY DEF Again
<1>3. Len(strings) = n /\ n \in Nat /\ DOMAIN strings = 1 .. n /\ p \in [0 .. n -> Seq(Nat)]
      /\ Encoding(l, Again) = p[n] /\ strings \in Seq(Seq(Nat))
  <2>1. Len(strings) = n /\ n \in Nat /\ DOMAIN strings = 1 .. n
    BY <1>1, <1>2, MessageFacts
  <2>2. p \in [0 .. n -> Seq(Nat)]
    BY <1>1, <1>2, <2>1, PrefixesEquation
  <2>3. Encoding(l, Again) = p[n]
    BY <1>2, <2>1 DEF Encoding
  <2>4. strings \in Seq(Seq(Nat))
    BY DEF TripInv, ReadInv
  <2> QED
    BY <2>1, <2>2, <2>3, <2>4
<1>4. k - 1 = n
  BY <1>1, <1>3
<1>5. sent # NoMessage => Again = sent
  <2> SUFFICES ASSUME sent # NoMessage PROVE Again = sent
    OBVIOUS
  <2>1. /\ Len(sent.strings) = n /\ sent = [body |-> sent.body, strings |-> sent.strings]
        /\ sent.strings \in Seq(Seq(Nat))
    <3>1. IsMessage(l, sent)
      BY SentIsMessage
    <3> QED
      BY <1>1, <3>1, MessageFacts DEF IsMessage
  <2>2. body = sent.body /\ \A i \in 1 .. n : strings[i] = sent.strings[i]
    BY <1>1, <1>4
  <2>3. strings = sent.strings
    <3> DEFINE t == sent.strings
    <3>1. t \in Seq(Seq(Nat)) /\ Len(t) = Len(strings) /\ \A i \in 1 .. Len(strings) : strings[i] = t[i]
      BY <1>3, <2>1, <2>2
    <3> HIDE DEF t
    <3> DEFINE c == Len(strings)
    <3>2. strings = [i \in 1 .. c |-> strings[i]] /\ t = [i \in 1 .. c |-> t[i]]
      BY <1>3, <3>1
    <3>3. strings = t
      BY <3>1, <3>2, Zenon
    <3> QED
      BY <3>3 DEF t
  <2> QED
    BY <2>1, <2>2, <2>3 DEF Again
<1>6. Encoding(l, Again) \in Seq(Nat)
  <2> HIDE DEF p
  <2>1. n \in 0 .. n
    BY <1>3
  <2> QED
    BY <1>3, <2>1
<1> QED
  BY <1>1, <1>3, <1>4, <1>5, <1>6

LEMMA AllOrNothingHolds == TripInv => AllOrNothing
<1> SUFFICES ASSUME TripInv PROVE AllOrNothing
  OBVIOUS
<1>1. WrittenInv /\ DecoderInv
  BY DEF TripInv, CodecsInv
<1>2. pc # "append" => dst \in {<<>>, Encoding(layout, sent)}
  BY <1>1 DEF WrittenInv
<1>3. Len(dst) <= cap
  BY <1>1 DEF WrittenInv
<1>4. ASSUME sent # NoMessage, pc = "accepted" PROVE ~ (Len(wire) < Len(Encoding(layout, sent)))
  <2>1. Len(Encoding(layout, sent)) = offset /\ offset \in Nat
    BY <1>4, AcceptedIsEncoded
  <2>2. offset <= len /\ len <= Len(wire) /\ len \in Nat /\ Len(wire) \in Nat
    BY <1>1 DEF DecoderInv, WithinBounds, TripInv, CodecsInv, EncoderInv, IsText
  <2> QED
    BY <2>1, <2>2
<1> QED
  BY <1>2, <1>3, <1>4 DEF AllOrNothing

LEMMA RoundTripHolds == TripInv => RoundTrip
<1> SUFFICES ASSUME TripInv PROVE RoundTrip
  OBVIOUS
<1> DEFINE Behind(w) == SubSeq(w, HeaderSize(layout) + 1, offset)
<1>1. ASSUME pc = "accepted"
      PROVE  /\ wire[2] = layout.template
             /\ Len(Encoding(layout, Again)) = offset
             /\ Behind(Encoding(layout, Again)) = Behind(wire)
  <2> DEFINE e == Encoding(layout, Again)
             a == HeaderSize(layout) + 1
  <2>1. /\ wire[2] = layout.template /\ e \in Seq(Nat) /\ Len(e) = offset /\ offset \in Nat
        /\ \A x \in a .. offset : e[x] = wire[x]
        /\ a \in Nat /\ a >= 1
    BY <1>1, AcceptedIsEncoded, HeaderIsText
  <2>2. wire \in Seq(Nat) /\ offset <= Len(wire)
    BY DEF TripInv, CodecsInv, EncoderInv, DecoderInv, WithinBounds, IsText
  <2> HIDE DEF e, a
  <2>3. \A x \in a .. offset : x \in 1 .. Len(e) /\ x \in 1 .. Len(wire)
    BY <2>1, <2>2
  <2>4. \A x \in a .. offset : e[x] \in Nat /\ wire[x] \in Nat
    BY <2>1, <2>2, <2>3
  <2>5. SubSeq(e, a, offset) = SubSeq(wire, a, offset)
    <3> DEFINE u == SubSeq(e, a, offset)
               v == SubSeq(wire, a, offset)
    <3>1. a \in Int /\ offset \in Int
      BY <2>1
    <3>2. /\ u \in Seq(Nat) /\ Len(u) = IF a <= offset THEN offset - a + 1 ELSE 0
          /\ \A x \in 1 .. offset - a + 1 : u[x] = e[a + x - 1]
      BY <2>4, <3>1, SubSeqProperties
    <3>3. /\ v \in Seq(Nat) /\ Len(v) = IF a <= offset THEN offset - a + 1 ELSE 0
          /\ \A x \in 1 .. offset - a + 1 : v[x] = wire[a + x - 1]
      BY <2>4, <3>1, SubSeqProperties
    <3>4. \A x \in 1 .. offset - a + 1 : e[a + x - 1] = wire[a + x - 1]
      <4>1. \A x \in 1 .. offset - a + 1 : a + x - 1 \in a .. offset
        BY <2>1
      <4> QED
        BY <2>1, <4>1
    <3> HIDE DEF u, v
    <3>5. \A x \in 1 .. Len(u) : u[x] = v[x]
      BY <2>1, <3>2, <3>3, <3>4
    <3>6. u = v
      BY <3>2, <3>3, <3>5
    <3> QED
      BY <3>6 DEF u, v
  <2> QED
    BY <2>1, <2>5 DEF e, a
<1>2. ASSUME sent # NoMessage, wire = dst, dst # <<>>
      PROVE  /\ pc = "accepted" => Again = sent
             /\ pc = "refused" => \E i \in DOMAIN sent.strings : Len(sent.strings[i]) >= layout.caps[i]
  <2>1. Whole
    BY <1>2 DEF Whole
  <2>2. pc = "accepted" => Again = sent
    BY <1>2, AcceptedIsEncoded
  <2>3. pc = "refused" => \E i \in DOMAIN sent.strings : Len(sent.strings[i]) >= layout.caps[i]
    BY <2>1 DEF TripInv, ReadInv
  <2> QED
    BY <2>2, <2>3
<1> QED
  BY <1>1, <1>2 DEF RoundTrip, Again

(* The encoders of sbe/decode.hpp and mcx/decode.hpp write the whole       *)
(* message or nothing, so that none of append_var_string8's silent         *)
(* omissions can happen; a message cut short on its way is not accepted.   *)
THEOREM EncodersWriteAllOrNothing == Spec => []AllOrNothing
<1>1. TripInv => AllOrNothing
  BY AllOrNothingHolds
<1> QED
  BY <1>1, TripAlways, PTL

(* A message that a decoder accepts encodes to the bytes it was read from; *)
(* one that arrives whole is accepted as it was sent, unless one of its    *)
(* strings leaves no room for the zero behind it in its field.             *)
THEOREM CodecsMakeTheRoundTrip == Spec => []RoundTrip
<1>1. TripInv => RoundTrip
  BY RoundTripHolds
<1> QED
  BY <1>1, TripAlways, PTL
=============================================================================
