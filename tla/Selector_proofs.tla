---------------------------- MODULE Selector_proofs ----------------------------
(***************************************************************************)
(* What holds of Selector for every site, root and typed selector.         *)
(***************************************************************************)
EXTENDS Selector, NaturalsInduction, WellFoundedInduction, FiniteSetTheorems,
        SequenceTheorems, TLAPS

-----------------------------------------------------------------------------
(* Following a path *)

\* Induction, over a set of numbers.
LEMMA SetInduction ==
  ASSUME NEW S, 0 \in S, \A i \in Nat : i \in S => i + 1 \in S
  PROVE  Nat \subseteq S
<1> DEFINE Below == {p \in Nat \X Nat : p[1] < p[2]}
           Missing == Nat \ S
<1> SUFFICES ASSUME Missing # {} PROVE FALSE
  OBVIOUS
<1>1. IsWellFoundedOn(Below, Nat)
  BY NatLessThanWellFounded DEF OpToRel
<1>2. Missing \subseteq Nat
  OBVIOUS
<1> HIDE DEF Below
<1>3. PICK i \in Missing : \A j \in Missing : ~(<<j, i>> \in Below)
  BY <1>1, <1>2, WFMin
<1>4. i \in Nat /\ i # 0 /\ i - 1 \in Nat /\ i - 1 < i
  BY <1>2, <1>3
<1>5. <<i - 1, i>> \in Below
  BY <1>4 DEF Below
<1>6. i - 1 \in S
  BY <1>3, <1>4, <1>5
<1>7. (i - 1) + 1 \in S
  BY <1>4, <1>6
<1> QED
  BY <1>3, <1>4, <1>7

\* The walk is the function its recursive definition describes.
LEMMA WalkIsRecursive ==
  ASSUME NEW n, NEW p, Len(p) \in Nat
  PROVE  Walk(n, p) = [i \in 0..Len(p) |->
           IF i = 0 THEN n ELSE Step(Walk(n, p)[i - 1], p[i])]
<1> DEFINE Is(f, k) == f = [i \in 0..k |-> IF i = 0 THEN n ELSE Step(f[i - 1], p[i])]
           Ends == {k \in Nat : \E f : Is(f, k)}
<1>1. 0 \in Ends
  <2> DEFINE f0 == [i \in 0..0 |-> n]
  <2>1. Is(f0, 0)
    OBVIOUS
  <2> QED
    BY <2>1
<1>2. ASSUME NEW k \in Nat, k \in Ends
      PROVE  k + 1 \in Ends
  <2>1. PICK f : Is(f, k)
    BY <1>2
  <2> DEFINE g == [i \in 0..(k + 1) |->
                     IF i \in 0..k THEN f[i] ELSE Step(f[k], p[k + 1])]
  <2>2. ASSUME NEW i \in 0..(k + 1)
        PROVE  g[i] = IF i = 0 THEN n ELSE Step(g[i - 1], p[i])
    <3>1. CASE i = 0
      BY <2>1, <3>1
    <3>2. CASE i \in 1..k
      <4>1. g[i] = f[i] /\ g[i - 1] = f[i - 1] /\ i \in 0..k /\ i # 0
        BY <3>2
      <4>2. f[i] = Step(f[i - 1], p[i])
        BY <2>1, <4>1
      <4> QED
        BY <4>1, <4>2
    <3>3. CASE i = k + 1
      <4>1. g[i] = Step(f[k], p[k + 1]) /\ g[i - 1] = f[k] /\ i # 0
        BY <3>3
      <4> QED
        BY <3>3, <4>1
    <3> QED
      BY <3>1, <3>2, <3>3
  <2>3. Is(g, k + 1)
    <3> DEFINE h == [i \in 0..(k + 1) |-> IF i = 0 THEN n ELSE Step(g[i - 1], p[i])]
    <3>1. DOMAIN g = 0..(k + 1) /\ DOMAIN h = 0..(k + 1)
      OBVIOUS
    <3>2. \A i \in 0..(k + 1) : g[i] = h[i]
      BY <2>2
    <3>3. g = [i \in 0..(k + 1) |-> g[i]] /\ h = [i \in 0..(k + 1) |-> h[i]]
      OBVIOUS
    <3> HIDE DEF g
    <3>4. g = h
      <4> HIDE DEF h
      <4> QED
        BY <3>2, <3>3
    <3> QED
      BY <3>4
  <2>4. \E h : Is(h, k + 1)
    <3> HIDE DEF Is, g
    <3> QED
      BY <2>3
  <2> HIDE DEF Is
  <2> QED
    BY <2>4
<1>3. Len(p) \in Ends
  <2> HIDE DEF Ends
  <2>1. Nat \subseteq Ends
    BY <1>1, <1>2, SetInduction
  <2> QED
    BY <2>1
<1>4. PICK f : Is(f, Len(p))
  BY <1>3
<1>5. Walk(n, p) = CHOOSE at : Is(at, Len(p))
  BY DEF Walk
<1>6. Is(CHOOSE at : Is(at, Len(p)), Len(p))
  <2> HIDE DEF Is
  <2> QED
    BY <1>4, Zenon
<1>7. Is(Walk(n, p), Len(p))
  <2> HIDE DEF Is
  <2> QED
    BY <1>5, <1>6
<1> QED
  BY <1>7

LEMMA WalkSteps ==
  ASSUME NEW n, NEW p, Len(p) \in Nat
  PROVE  /\ Walk(n, p)[0] = n
         /\ \A i \in 1..Len(p) : Walk(n, p)[i] = Step(Walk(n, p)[i - 1], p[i])
<1> DEFINE w == Walk(n, p)
<1>1. w = [i \in 0..Len(p) |-> IF i = 0 THEN n ELSE Step(w[i - 1], p[i])]
  BY WalkIsRecursive
<1> HIDE DEF w
<1>2. w[0] = n
  BY <1>1
<1>3. \A i \in 1..Len(p) : w[i] = Step(w[i - 1], p[i])
  BY <1>1
<1> QED
  BY <1>2, <1>3 DEF w

\* Two ways that begin at one node and agree in each step are one.
LEMMA SameSteps ==
  ASSUME NEW f, NEW g, NEW k \in Nat, f[0] = g[0],
         \A i \in 1..k : f[i - 1] = g[i - 1] => f[i] = g[i]
  PROVE  \A i \in 0..k : f[i] = g[i]
<1> DEFINE S == {i \in Nat : i <= k => f[i] = g[i]}
<1>1. 0 \in S
  OBVIOUS
<1>2. ASSUME NEW i \in Nat, i \in S
      PROVE  i + 1 \in S
  <2>1. CASE i + 1 <= k
    <3>1. i + 1 \in 1..k /\ f[i] = g[i] /\ (i + 1) - 1 = i
      BY <1>2, <2>1
    <3>2. f[i + 1] = g[i + 1]
      BY <3>1
    <3> QED
      BY <3>2
  <2>2. CASE ~(i + 1 <= k)
    BY <2>2
  <2> QED
    BY <2>1, <2>2
<1> HIDE DEF S
<1>3. Nat \subseteq S
  BY <1>1, <1>2, SetInduction
<1> QED
  BY <1>3 DEF S

LEMMA FollowNothing ==
  ASSUME NEW n
  PROVE  Follow(n, <<>>) = n
<1>1. Len(<<>>) = 0
  OBVIOUS
<1> QED
  BY <1>1, WalkSteps DEF Follow

\* A path put behind another is followed from where that one leads.
LEMMA FollowConcat ==
  ASSUME NEW n, NEW p \in Seq(Tokens), NEW q \in Seq(Tokens)
  PROVE  Follow(n, p \o q) = Follow(Follow(n, p), q)
<1> DEFINE pq == p \o q
           w == Walk(n, pq)
           v == Walk(n, p)
           u == Walk(Follow(n, p), q)
           wq == [i \in 0..Len(q) |-> w[Len(p) + i]]
<1>1. /\ pq \in Seq(Tokens) /\ Len(pq) = Len(p) + Len(q)
      /\ Len(p) \in Nat /\ Len(q) \in Nat /\ Len(pq) \in Nat
  OBVIOUS
<1>2. \A i \in 1..Len(p) : pq[i] = p[i]
  OBVIOUS
<1>3. \A i \in 1..Len(q) : pq[Len(p) + i] = q[i]
  OBVIOUS
<1> HIDE DEF pq
<1>4. w[0] = n /\ \A i \in 1..Len(pq) : w[i] = Step(w[i - 1], pq[i])
  BY <1>1, WalkSteps
<1>5. v[0] = n /\ \A i \in 1..Len(p) : v[i] = Step(v[i - 1], p[i])
  BY <1>1, WalkSteps
<1>6. u[0] = Follow(n, p) /\ \A i \in 1..Len(q) : u[i] = Step(u[i - 1], q[i])
  BY <1>1, WalkSteps
<1> HIDE DEF w, v, u
<1>7. \A i \in 0..Len(p) : w[i] = v[i]
  <2>1. \A i \in 1..Len(p) : w[i - 1] = v[i - 1] => w[i] = v[i]
    BY <1>1, <1>2, <1>4, <1>5
  <2>2. Len(p) \in Nat /\ w[0] = v[0]
    BY <1>1, <1>4, <1>5
  <2> QED
    BY <2>1, <2>2, SameSteps
<1>8. w[Len(p)] = Follow(n, p)
  BY <1>1, <1>7 DEF v, Follow
<1>9. wq[0] = u[0]
  <2>1. 0 \in 0..Len(q) /\ Len(p) + 0 = Len(p)
    BY <1>1
  <2> QED
    BY <1>6, <1>8, <2>1
<1>10. ASSUME NEW i \in 1..Len(q), wq[i - 1] = u[i - 1]
       PROVE  wq[i] = u[i]
  <2>1. /\ Len(p) + i \in 1..Len(pq) /\ i - 1 \in 0..Len(q) /\ i \in 0..Len(q)
        /\ Len(p) + (i - 1) = (Len(p) + i) - 1
    BY <1>1
  <2>2. w[Len(p) + i] = Step(w[(Len(p) + i) - 1], pq[Len(p) + i])
    BY <1>4, <2>1
  <2>3. wq[i] = w[Len(p) + i] /\ wq[i - 1] = w[(Len(p) + i) - 1]
    BY <2>1
  <2> HIDE DEF wq
  <2> QED
    BY <1>3, <1>6, <1>10, <2>2, <2>3
<1>11. wq[Len(q)] = u[Len(q)]
  <2> HIDE DEF wq
  <2>1. \A i \in 0..Len(q) : wq[i] = u[i]
    BY <1>1, <1>9, <1>10, SameSteps
  <2> QED
    BY <1>1, <2>1
<1>12. w[Len(pq)] = u[Len(q)]
  BY <1>1, <1>11
<1> QED
  BY <1>12 DEF Follow, w, u, pq

LEMMA FollowOne ==
  ASSUME NEW n, NEW t
  PROVE  Follow(n, <<t>>) = Step(n, t)
<1>1. Len(<<t>>) = 1 /\ <<t>>[1] = t
  OBVIOUS
<1>2. Walk(n, <<t>>)[1] = Step(Walk(n, <<t>>)[0], t)
  <2>1. 1 \in 1..Len(<<t>>) /\ 1 - 1 = 0
    BY <1>1
  <2> QED
    BY <1>1, <2>1, WalkSteps
<1>3. Walk(n, <<t>>)[0] = n
  BY <1>1, WalkSteps
<1> QED
  BY <1>1, <1>2, <1>3 DEF Follow

LEMMA FollowAppended ==
  ASSUME NEW n, NEW p \in Seq(Tokens), NEW t \in Tokens
  PROVE  /\ Follow(n, p \o <<t>>) = Step(Follow(n, p), t)
         /\ Follow(n, <<t>> \o p) = Follow(Step(n, t), p)
<1>1. <<t>> \in Seq(Tokens)
  OBVIOUS
<1>2. Follow(n, p \o <<t>>) = Follow(Follow(n, p), <<t>>)
  BY <1>1, FollowConcat
<1>3. Follow(n, <<t>> \o p) = Follow(Follow(n, <<t>>), p)
  BY <1>1, FollowConcat
<1> QED
  BY <1>2, <1>3, FollowOne

-----------------------------------------------------------------------------
(* The inductive invariant *)

IsDirectory(n) == n \in DOMAIN Site /\ Site[n] = "directory"

\* No two names of a path without a slash between them.
Alternates(p) == \A i \in 1..(Len(p) - 1) : p[i] = "/" \/ p[i + 1] = "/"

\* What the lines of a directory have in common: they lead to the entry they
\* were made for, its name comes last, and the root comes first.
Faithful(r, line) ==
  /\ line \in Lines
  /\ Alternates(line.selector)
  /\ line.selector # <<>> /\ Last(line.selector) = line.name
  /\ \E rest \in Seq(Tokens) : line.selector = WithSlash(r) \o rest
  /\ Lookup(line.selector) = line.node
  /\ line.node # <<>> /\ Last(line.node) = line.name
  /\ line.code \in GopherCodes(line.selector)

\* The entries that are not hidden have a line each, those left excepted.
ListedBut(rest, n, lines) ==
  /\ rest \subseteq Entries(n)
  /\ {lines[i].name : i \in 1..Len(lines)} = (Entries(n) \ Hidden) \ rest
  /\ \A i, j \in 1..Len(lines) : lines[i].name = lines[j].name => i = j

\* The answers of the handler, by what file_type and the shell say of the path.
Outcome(p, n, r) ==
  \/ /\ FileType(p) \notin {"FILES_NOT_EXIST", "FILES_NOT_PERMITTED"}
     /\ "none" \in GopherCodes(p)
     /\ r = "nothing"
  \/ /\ FileType(p) \in {"FILES_NOT_EXIST", "FILES_NOT_PERMITTED"}
     /\ r = "error"
  \/ /\ FileType(p) = "FILES_IS_UNMANAGED_FILE"
     /\ r = "nothing"
  \/ /\ FileType(p) = "FILES_IS_DIRECTORY" /\ Site[Lookup(p)] # "directory"
     /\ r = "nothing"
  \/ /\ FileType(p) = "FILES_IS_REG_FILE"
     /\ r = "file" /\ n = Lookup(p)
  \/ /\ FileType(p) = "FILES_IS_DIRECTORY" /\ Site[Lookup(p)] = "directory"
     /\ r = "listing" /\ n = Lookup(p)

\* What the client holds.
ClientInv ==
  /\ Alternates(selector)
  /\ asked # NoLine => Faithful(root, asked) /\ selector = asked.selector
  /\ \A i \in 1..Len(sent) : Faithful(root, sent[i])
  /\ pc = "idle" => asked = NoLine

\* How far the handler is.
HandlerInv ==
  /\ pc \in {"idle", "resolve", "serve", "send"} =>
       reply = "nothing" /\ served = NoNode
  /\ pc \in {"serve", "send", "list"} => path = Resolve(root, selector)
  /\ pc = "list" =>
       /\ reply = "nothing"
       /\ served = Lookup(path) /\ IsDirectory(served)
       /\ ListedBut(left, served, sent)
  /\ reply = "listing" => ListedBut({}, served, sent)
  /\ pc = "answered" =>
       \/ Len(selector) > MaxSelector /\ reply = "error"
       \/ Outcome(Resolve(root, selector), served, reply)

IInv == TypeOK /\ ClientInv /\ HandlerInv /\ LogIsNotServed

-----------------------------------------------------------------------------
(* Paths *)

LEMMA GivenPaths ==
  ASSUME NEW p \in Roots \cup Typed
  PROVE  p \in Seq(Tokens) /\ Alternates(p)
<1>1. IsPath(p)
  BY PathAssumption
<1>2. ToSet(p) \subseteq Tokens
  BY DEF Tokens
<1>3. \A S, T : S \subseteq T => Seq(S) \subseteq Seq(T)
  OBVIOUS
<1> HIDE DEF Tokens
<1>4. p \in Seq(Tokens)
  BY <1>1, <1>2, <1>3 DEF IsPath
<1> QED
  BY <1>1, <1>4 DEF IsPath, Alternates

\* Behind a slash any path may be put.
LEMMA BehindSlash ==
  ASSUME NEW p \in Seq(Tokens), NEW q \in Seq(Tokens),
         p # <<>>, Last(p) = "/", Alternates(p), Alternates(q)
  PROVE  /\ p \o q \in Seq(Tokens) /\ p \o q # <<>>
         /\ Alternates(p \o q)
         /\ (p \o q)[1] = p[1]
         /\ q # <<>> => Last(p \o q) = Last(q)
<1> DEFINE pq == p \o q
<1>1. /\ pq \in Seq(Tokens) /\ Len(pq) = Len(p) + Len(q)
      /\ Len(p) \in Nat \ {0} /\ Len(q) \in Nat
      /\ q # <<>> => Len(q) # 0
  OBVIOUS
<1>2. \A i \in 1..Len(p) : pq[i] = p[i]
  OBVIOUS
<1>3. \A i \in 1..Len(q) : pq[Len(p) + i] = q[i]
  OBVIOUS
<1> HIDE DEF pq
<1>4. ASSUME NEW i \in 1..(Len(pq) - 1)
      PROVE  pq[i] = "/" \/ pq[i + 1] = "/"
  <2>1. CASE i < Len(p)
    <3>1. i \in 1..(Len(p) - 1) /\ i \in 1..Len(p) /\ i + 1 \in 1..Len(p)
      BY <1>1, <2>1
    <3> QED
      BY <1>2, <3>1 DEF Alternates
  <2>2. CASE i = Len(p)
    BY <1>1, <1>2, <2>2 DEF Last
  <2>3. CASE i > Len(p)
    <3> DEFINE j == i - Len(p)
    <3>1. /\ j \in 1..(Len(q) - 1) /\ j \in 1..Len(q) /\ j + 1 \in 1..Len(q)
          /\ i = Len(p) + j /\ i + 1 = Len(p) + (j + 1)
      BY <1>1, <2>3
    <3>2. q[j] = "/" \/ q[j + 1] = "/"
      BY <3>1 DEF Alternates
    <3>3. pq[Len(p) + j] = q[j] /\ pq[Len(p) + (j + 1)] = q[j + 1]
      BY <1>3, <3>1
    <3> QED
      BY <3>1, <3>2, <3>3
  <2> QED
    BY <1>1, <2>1, <2>2, <2>3
<1>5. Alternates(pq)
  BY <1>4 DEF Alternates
<1>6. pq # <<>> /\ pq[1] = p[1]
  BY <1>1, <1>2
<1>7. q # <<>> => Last(pq) = Last(q)
  BY <1>1, <1>3 DEF Last
<1> QED
  BY <1>1, <1>5, <1>6, <1>7 DEF pq

LEMMA SlashBehind ==
  ASSUME NEW r \in Seq(Tokens), r # <<>>, Alternates(r)
  PROVE  LET w == Append(r, "/") IN
         /\ w \in Seq(Tokens) /\ w # <<>> /\ Last(w) = "/" /\ Alternates(w)
         /\ w[1] = r[1] /\ w = r \o <<"/">>
<1> DEFINE w == Append(r, "/")
<1>1. "/" \in Tokens
  BY DEF Tokens, Special
<1>2. /\ w \in Seq(Tokens) /\ Len(w) = Len(r) + 1 /\ Len(r) \in Nat \ {0}
      /\ \A i \in 1..Len(r) : w[i] = r[i]
      /\ w[Len(r) + 1] = "/"
      /\ w = r \o <<"/">>
  BY <1>1
<1> HIDE DEF w
<1>3. ASSUME NEW i \in 1..(Len(w) - 1)
      PROVE  w[i] = "/" \/ w[i + 1] = "/"
  <2>1. CASE i = Len(r)
    BY <1>2, <2>1
  <2>2. CASE i # Len(r)
    <3>1. i \in 1..(Len(r) - 1) /\ i \in 1..Len(r) /\ i + 1 \in 1..Len(r)
      BY <1>2, <2>2
    <3> QED
      BY <1>2, <3>1 DEF Alternates
  <2> QED
    BY <2>1, <2>2
<1>4. w # <<>> /\ Last(w) = "/" /\ w[1] = r[1]
  BY <1>2 DEF Last
<1> QED
  BY <1>2, <1>3, <1>4 DEF Alternates, w

LEMMA EndsInSlash ==
  ASSUME NEW r \in Seq(Tokens), r # <<>>, Alternates(r)
  PROVE  /\ WithSlash(r) \in Seq(Tokens) /\ WithSlash(r) # <<>>
         /\ Last(WithSlash(r)) = "/" /\ Alternates(WithSlash(r))
         /\ WithSlash(r)[1] = r[1]
  BY SlashBehind DEF WithSlash

LEMMA TailIsPath ==
  ASSUME NEW s \in Seq(Tokens), Alternates(s)
  PROVE  /\ WithoutSlash(s) \in Seq(Tokens) /\ Alternates(WithoutSlash(s))
         /\ s # <<>> /\ Last(s) # "/" =>
              WithoutSlash(s) # <<>> /\ Last(WithoutSlash(s)) = Last(s)
<1>1. CASE s # <<>> /\ s[1] = "/"
  <2> DEFINE t == Tail(s)
  <2>1. /\ t \in Seq(Tokens) /\ Len(t) = Len(s) - 1 /\ Len(s) \in Nat \ {0}
        /\ \A i \in 1..Len(t) : t[i] = s[i + 1]
    BY <1>1
  <2>2. WithoutSlash(s) = t
    BY <1>1 DEF WithoutSlash
  <2> HIDE DEF t
  <2>3. ASSUME NEW i \in 1..(Len(t) - 1)
        PROVE  t[i] = "/" \/ t[i + 1] = "/"
    <3>1. /\ i \in 1..Len(t) /\ i + 1 \in 1..Len(t)
          /\ i + 1 \in 1..(Len(s) - 1)
      BY <2>1
    <3>2. s[i + 1] = "/" \/ s[(i + 1) + 1] = "/"
      BY <3>1 DEF Alternates
    <3> QED
      BY <2>1, <3>1, <3>2
  <2>4. Last(s) # "/" => t # <<>> /\ Last(t) = Last(s)
    <3> SUFFICES ASSUME Last(s) # "/"
                 PROVE  t # <<>> /\ Last(t) = Last(s)
      OBVIOUS
    <3>1. Len(s) # 1
      BY <1>1 DEF Last
    <3>2. Len(t) \in 1..Len(t) /\ Len(t) + 1 = Len(s)
      BY <2>1, <3>1
    <3> QED
      BY <2>1, <3>2 DEF Last
  <2> QED
    BY <2>1, <2>2, <2>3, <2>4 DEF Alternates
<1>2. CASE ~(s # <<>> /\ s[1] = "/")
  BY <1>2 DEF WithoutSlash
<1> QED
  BY <1>1, <1>2

-----------------------------------------------------------------------------
(* The file system *)

Nodes == DOMAIN Site \cup {NoNode}

\* Every node but the top is a name in a directory.
LEMMA NodeOfName ==
  ASSUME NEW n \in DOMAIN Site, n # <<>>
  PROVE  /\ n = Append(Front(n), Last(n))
         /\ IsDirectory(Front(n))
         /\ Last(n) \in Names /\ Last(n) \notin Special
<1>1. n \in Seq(ToSet(n))
  BY SelectorAssumption
<1>2. n = Append(Front(n), Last(n))
  <2>1. \A S : \A s \in Seq(S) : s # <<>> => s = Append(SubSeq(s, 1, Len(s) - 1), s[Len(s)])
    OBVIOUS
  <2> QED
    BY <1>1, <2>1 DEF Front, Last
<1>3. Last(n) \in Names
  BY DEF Names
<1> QED
  BY <1>2, <1>3, SelectorAssumption DEF IsDirectory

LEMMA AppendedName ==
  ASSUME NEW n \in DOMAIN Site, NEW t
  PROVE  /\ Append(n, t) # <<>> /\ Append(n, t) # n
         /\ Last(Append(n, t)) = t /\ Front(Append(n, t)) = n
<1>1. n \in Seq(ToSet(n))
  BY SelectorAssumption
<1>2. n \in Seq(ToSet(n) \cup {t})
  <2>1. \A S, T : S \subseteq T => Seq(S) \subseteq Seq(T)
    OBVIOUS
  <2> QED
    BY <1>1, <2>1
<1>3. \A T : \A s \in Seq(T) : \A u \in T :
        LET a == Append(s, u) IN
        a # <<>> /\ a # s /\ a[Len(a)] = u /\ SubSeq(a, 1, Len(a) - 1) = s
  OBVIOUS
<1> QED
  BY <1>2, <1>3 DEF Front, Last

LEMMA TopIsDirectory == IsDirectory(<<>>) /\ IsDirectory(Cwd)
  BY SelectorAssumption DEF IsDirectory

LEMMA StepType ==
  ASSUME NEW n \in Nodes, NEW t
  PROVE  /\ Step(n, t) \in Nodes
         /\ t = "/" => Step(n, t) = NoNode \/ (IsDirectory(n) /\ Step(n, t) = n)
         /\ t \in {".", ".."} /\ IsDirectory(n) => IsDirectory(Step(n, t))
         /\ t \notin Special =>
              Step(n, t) = NoNode \/ (n # NoNode /\ Step(n, t) = Append(n, t))
<1>1. CASE n = NoNode
  <2>1. Step(n, t) = NoNode /\ ~IsDirectory(n)
    BY <1>1, SelectorAssumption DEF Step, IsDirectory
  <2> QED
    BY <2>1 DEF Nodes
<1>2. CASE n # NoNode
  <2>1. n \in DOMAIN Site
    BY <1>2 DEF Nodes
  <2>2. Parent(n) \in DOMAIN Site /\ (IsDirectory(n) => IsDirectory(Parent(n)))
    BY <2>1, NodeOfName DEF Parent, IsDirectory
  <2>3. CASE t = "/"
    <3>1. Step(n, t) = IF Site[n] = "directory" THEN n ELSE NoNode
      BY <1>2, <2>3 DEF Step
    <3> QED
      BY <2>1, <2>3, <3>1 DEF Nodes, IsDirectory, Special
  <2>4. CASE t = "."
    <3>1. Step(n, t) = n
      BY <1>2, <2>4 DEF Step
    <3> QED
      BY <2>1, <2>4, <3>1 DEF Nodes, IsDirectory, Special
  <2>5. CASE t = ".."
    <3>1. Step(n, t) = Parent(n)
      BY <1>2, <2>5 DEF Step
    <3> QED
      BY <2>2, <2>5, <3>1 DEF Nodes, IsDirectory, Special
  <2>6. CASE t \notin Special
    <3>1. Step(n, t) = IF Append(n, t) \in DOMAIN Site
                         THEN Append(n, t) ELSE NoNode
      BY <1>2, <2>6 DEF Step, Special
    <3> QED
      BY <1>2, <2>6, <3>1 DEF Nodes, Special
  <2> QED
    BY <2>3, <2>4, <2>5, <2>6 DEF Special
<1> QED
  BY <1>1, <1>2

LEMMA WalkType ==
  ASSUME NEW n \in Nodes, NEW p, Len(p) \in Nat
  PROVE  \A i \in 0..Len(p) : Walk(n, p)[i] \in Nodes
<1> DEFINE w == Walk(n, p)
           S == {i \in Nat : i <= Len(p) => w[i] \in Nodes}
<1>1. w[0] = n /\ \A i \in 1..Len(p) : w[i] = Step(w[i - 1], p[i])
  BY WalkSteps
<1> HIDE DEF w
<1>2. 0 \in S
  BY <1>1
<1>3. ASSUME NEW i \in Nat, i \in S
      PROVE  i + 1 \in S
  <2>1. CASE i + 1 <= Len(p)
    <3>1. i + 1 \in 1..Len(p) /\ (i + 1) - 1 = i /\ w[i] \in Nodes
      BY <1>3, <2>1
    <3>2. w[i + 1] = Step(w[i], p[i + 1])
      BY <1>1, <3>1
    <3> QED
      BY <3>1, <3>2, StepType
  <2>2. CASE ~(i + 1 <= Len(p))
    BY <2>2
  <2> QED
    BY <2>1, <2>2
<1> HIDE DEF S
<1>4. Nat \subseteq S
  BY <1>2, <1>3, SetInduction
<1> QED
  BY <1>4 DEF S, w

LEMMA LookupType ==
  ASSUME NEW p \in Seq(Tokens)
  PROVE  Lookup(p) \in Nodes
<1>1. Start(p) \in Nodes
  BY SelectorAssumption DEF Start, Nodes
<1>2. Len(p) \in Nat /\ Len(p) \in 0..Len(p)
  OBVIOUS
<1> QED
  BY <1>1, <1>2, WalkType DEF Lookup, Follow

\* From nowhere every path leads nowhere.
LEMMA FromNowhere ==
  ASSUME NEW p \in Seq(Tokens)
  PROVE  Follow(NoNode, p) = NoNode
<1> DEFINE w == Walk(NoNode, p)
           g == [i \in 0..Len(p) |-> NoNode]
<1>1. Len(p) \in Nat
  OBVIOUS
<1>2. w[0] = NoNode /\ \A i \in 1..Len(p) : w[i] = Step(w[i - 1], p[i])
  BY <1>1, WalkSteps
<1>3. g[0] = NoNode /\ \A i \in 0..Len(p) : g[i] = NoNode
  BY <1>1
<1> HIDE DEF w, g
<1>4. \A i \in 1..Len(p) : w[i - 1] = g[i - 1] => w[i] = g[i]
  <2>1. \A i \in 1..Len(p) : i \in 0..Len(p) /\ i - 1 \in 0..Len(p)
    BY <1>1
  <2> QED
    BY <1>2, <1>3, <2>1 DEF Step
<1>5. \A i \in 0..Len(p) : w[i] = g[i]
  <2>1. w[0] = g[0]
    BY <1>2, <1>3
  <2> QED
    BY <1>1, <1>4, <2>1, SameSteps
<1> QED
  BY <1>1, <1>3, <1>5 DEF Follow, w

\* What no directory is ends in its name, in whatever way it was reached.
LEMMA FileHasItsName ==
  ASSUME NEW p \in Seq(Tokens), p # <<>>, Alternates(p),
         Lookup(p) # NoNode, Site[Lookup(p)] # "directory"
  PROVE  Lookup(p) # <<>> /\ Last(Lookup(p)) = Last(p)
<1> DEFINE k == Len(p)
           w == Walk(Start(p), p)
<1>1. k \in Nat \ {0} /\ k \in 1..k /\ k - 1 \in 0..k
  OBVIOUS
<1>2. w[0] = Start(p) /\ \A i \in 1..k : w[i] = Step(w[i - 1], p[i])
  BY <1>1, WalkSteps
<1>3. IsDirectory(Start(p)) /\ Start(p) \in Nodes
  BY TopIsDirectory DEF Start, Nodes, IsDirectory
<1>4. \A i \in 0..k : w[i] \in Nodes
  BY <1>1, <1>3, WalkType
<1>5. Lookup(p) = w[k]
  BY DEF Lookup, Follow
<1> HIDE DEF k, w
<1>6. w[k] = Step(w[k - 1], p[k]) /\ w[k - 1] \in Nodes
  BY <1>1, <1>2, <1>4
<1>7. CASE p[k] = "/"
  BY <1>5, <1>6, <1>7, StepType DEF IsDirectory
<1>8. CASE p[k] \in {".", ".."}
  <2>1. w[k - 1] = NoNode \/ IsDirectory(w[k - 1])
    <3>1. CASE k = 1
      BY <1>2, <1>3, <3>1
    <3>2. CASE k # 1
      <4>1. k - 1 \in 1..k /\ k - 1 \in 1..(Len(p) - 1) /\ (k - 1) + 1 = k /\ (k - 1) - 1 \in 0..k
        <5>1. k = Len(p)
          BY DEF k
        <5> QED
          BY <1>1, <3>2, <5>1
      <4>2. p[k - 1] = "/"
        BY <1>8, <4>1 DEF Alternates
      <4>3. w[k - 1] = Step(w[(k - 1) - 1], "/") /\ w[(k - 1) - 1] \in Nodes
        BY <1>2, <1>4, <4>1, <4>2
      <4>4. \/ w[k - 1] = NoNode
            \/ IsDirectory(w[(k - 1) - 1]) /\ w[k - 1] = w[(k - 1) - 1]
        BY <4>3, StepType
      <4> QED
        BY <4>4
    <3> QED
      BY <3>1, <3>2
  <2>2. w[k - 1] # NoNode
    BY <1>5, <1>6 DEF Step
  <2> QED
    BY <1>5, <1>6, <1>8, <2>1, <2>2, StepType DEF IsDirectory
<1>9. CASE p[k] \notin Special
  <2>1. w[k] = Append(w[k - 1], p[k]) /\ w[k - 1] \in DOMAIN Site
    BY <1>5, <1>6, <1>9, StepType DEF Nodes
  <2> QED
    BY <1>5, <2>1, AppendedName DEF Last, k
<1> QED
  BY <1>7, <1>8, <1>9 DEF Special

-----------------------------------------------------------------------------
(* Entries, lines and what a selector leads to *)

LEMMA EntryNode ==
  ASSUME NEW n \in DOMAIN Site, NEW e \in Entries(n) \ Hidden
  PROVE  /\ Append(n, e) \in DOMAIN Site
         /\ e \in Names /\ e \in Tokens /\ e \notin Special
<1>1. PICK m \in DOMAIN Site \ {<<>>} : Front(m) = n /\ Last(m) = e
  BY DEF Entries, Hidden
<1>2. m = Append(n, e) /\ e \in Names /\ e \notin Special
  BY <1>1, NodeOfName
<1> QED
  BY <1>1, <1>2 DEF Tokens

LEMMA ResolvedPath ==
  ASSUME NEW r \in Roots, NEW s \in Seq(Tokens), Alternates(s)
  PROVE  /\ Resolve(r, s) \in Seq(Tokens) /\ Resolve(r, s) # <<>>
         /\ Alternates(Resolve(r, s))
         /\ Resolve(r, s)[1] = r[1]
         /\ s # <<>> /\ Last(s) # "/" => Last(Resolve(r, s)) = Last(s)
<1>1. r \in Seq(Tokens) /\ r # <<>> /\ Alternates(r)
  BY GivenPaths, PathAssumption
<1>2. /\ WithSlash(r) \in Seq(Tokens) /\ WithSlash(r) # <<>>
      /\ Last(WithSlash(r)) = "/" /\ Alternates(WithSlash(r))
      /\ WithSlash(r)[1] = r[1]
  BY <1>1, EndsInSlash
<1>3. /\ WithoutSlash(s) \in Seq(Tokens) /\ Alternates(WithoutSlash(s))
      /\ s # <<>> /\ Last(s) # "/" =>
           WithoutSlash(s) # <<>> /\ Last(WithoutSlash(s)) = Last(s)
  BY TailIsPath
<1> QED
  BY <1>2, <1>3, BehindSlash DEF Resolve

\* The selector of a line leads to the entry the line was made for.
LEMMA FullPathLeads ==
  ASSUME NEW p \in Seq(Tokens), p # <<>>, Alternates(p), IsDirectory(Lookup(p)),
         NEW e \in Entries(Lookup(p)) \ Hidden
  PROVE  /\ FullPath(p, e) \in Seq(Tokens) /\ FullPath(p, e) # <<>>
         /\ Alternates(FullPath(p, e)) /\ Last(FullPath(p, e)) = e
         /\ Lookup(FullPath(p, e)) = Append(Lookup(p), e)
<1> DEFINE w == Append(p, "/")
           f == FullPath(p, e)
<1>1. /\ Append(Lookup(p), e) \in DOMAIN Site
      /\ e \in Tokens /\ e \notin Special
  BY EntryNode DEF IsDirectory
<1>2. /\ w \in Seq(Tokens) /\ w # <<>> /\ Last(w) = "/" /\ Alternates(w)
      /\ w[1] = p[1] /\ w = p \o <<"/">>
  BY SlashBehind
<1>3. /\ <<e>> \in Seq(Tokens) /\ <<"/">> \in Seq(Tokens) /\ <<e>> # <<>>
      /\ Last(<<e>>) = e
      /\ Alternates(<<e>>)
  <2>1. "/" \in Tokens
    BY DEF Tokens, Special
  <2>2. Len(<<e>>) = 1 /\ <<e>>[1] = e
    OBVIOUS
  <2>3. 1..(1 - 1) = {}
    OBVIOUS
  <2>4. <<e>> \in Seq(Tokens) /\ <<"/">> \in Seq(Tokens) /\ <<e>> # <<>>
    BY <1>1, <2>1
  <2> QED
    BY <2>2, <2>3, <2>4 DEF Last, Alternates
<1>4. f = w \o <<e>>
  BY <1>1, <1>2 DEF FullPath
<1> HIDE DEF w, f
<1>5. /\ f \in Seq(Tokens) /\ f # <<>> /\ Alternates(f) /\ Last(f) = e
      /\ f[1] = p[1]
  BY <1>2, <1>3, <1>4, BehindSlash
<1>6. Lookup(f) = Step(Step(Lookup(p), "/"), e)
  <2>1. Start(f) = Start(p)
    BY <1>5 DEF Start
  <2>2. Follow(Start(p), f) = Step(Follow(Start(p), w), e)
    BY <1>1, <1>2, <1>4, FollowAppended
  <2>3. Follow(Start(p), w) = Step(Follow(Start(p), p), "/")
    <3>1. "/" \in Tokens
      BY DEF Tokens, Special
    <3> QED
      BY <1>2, <3>1, FollowAppended
  <2> QED
    BY <2>1, <2>2, <2>3 DEF Lookup
<1>7. Lookup(p) # NoNode
  BY SelectorAssumption DEF IsDirectory
<1>8. Step(Lookup(p), "/") = Lookup(p)
  BY <1>7 DEF Step, IsDirectory
<1>9. Step(Lookup(p), e) = Append(Lookup(p), e)
  BY <1>1, <1>7 DEF Step, Special
<1> QED
  BY <1>5, <1>6, <1>8, <1>9 DEF f

\* Behind a root that is neutral, a path that begins with the root leads where
\* it leads by itself.
LEMMA NeutralRoot ==
  ASSUME NEW r \in Roots, Follow(Lookup(r), r) = Lookup(r),
         NEW rest \in Seq(Tokens), NEW s, s = WithSlash(r) \o rest, Alternates(s)
  PROVE  Lookup(Resolve(r, s)) = Lookup(s)
<1> DEFINE R == WithSlash(r)
           B == Lookup(R)
           t == WithoutSlash(s)
<1>1. r \in Seq(Tokens) /\ r # <<>> /\ Alternates(r)
  BY GivenPaths, PathAssumption
<1>2. /\ R \in Seq(Tokens) /\ R # <<>> /\ Last(R) = "/" /\ R[1] = r[1]
  BY <1>1, EndsInSlash
<1>3. "/" \in Tokens /\ <<"/">> \in Seq(Tokens)
  <2>1. "/" \in Tokens
    BY DEF Tokens, Special
  <2> QED
    BY <2>1
<1>4. s \in Seq(Tokens) /\ s # <<>> /\ s[1] = R[1]
  <2>1. \A p \in Seq(Tokens), q \in Seq(Tokens) :
          p # <<>> => p \o q \in Seq(Tokens) /\ p \o q # <<>> /\ (p \o q)[1] = p[1]
    OBVIOUS
  <2> QED
    BY <1>2, <2>1
<1>5. t \in Seq(Tokens) /\ (s[1] = "/" => s = <<"/">> \o t) /\ (s[1] # "/" => s = t)
  <2>1. \A p \in Seq(Tokens) : p # <<>> =>
          Tail(p) \in Seq(Tokens) /\ p = <<p[1]>> \o Tail(p)
    OBVIOUS
  <2> QED
    BY <1>4, <2>1 DEF WithoutSlash
<1>6. /\ Start(R) = Start(r) /\ Start(s) = Start(r)
      /\ Start(Resolve(r, s)) = Start(r)
  BY <1>2, <1>4, ResolvedPath DEF Start
<1>7. \/ R = r
      \/ R = r \o <<"/">>
  BY <1>1, SlashBehind DEF WithSlash
<1>8. PICK p \in Seq(Tokens) : R = p \o <<"/">>
  <2>1. \A q \in Seq(Tokens) : q # <<>> =>
          SubSeq(q, 1, Len(q) - 1) \in Seq(Tokens)
          /\ q = SubSeq(q, 1, Len(q) - 1) \o <<q[Len(q)]>>
    OBVIOUS
  <2> QED
    BY <1>2, <2>1 DEF Last
<1> HIDE DEF R, t
<1>9. B = NoNode \/ IsDirectory(B)
  <2>1. Follow(Start(R), R) = Step(Follow(Start(R), p), "/")
    BY <1>3, <1>8, FollowAppended
  <2>2. Follow(Start(R), p) \in Nodes
    <3>1. Start(R) \in Nodes /\ Len(p) \in Nat /\ Len(p) \in 0..Len(p)
      BY SelectorAssumption DEF Start, Nodes
    <3> QED
      BY <3>1, WalkType DEF Follow
  <2>3. \/ B = NoNode
        \/ IsDirectory(Follow(Start(R), p)) /\ B = Follow(Start(R), p)
    BY <2>1, <2>2, StepType DEF Lookup
  <2> QED
    BY <2>3
<1>10. Step(B, "/") = B
  BY <1>9 DEF Step, IsDirectory
<1>11. Follow(B, R) = B
  <2>1. CASE B = NoNode
    BY <1>2, <2>1, FromNowhere
  <2>2. CASE R = r
    BY <2>2
  <2>3. CASE B # NoNode /\ R = r \o <<"/">>
    <3>1. B = Step(Lookup(r), "/")
      BY <1>1, <1>3, <1>6, <2>3, FollowAppended DEF Lookup
    <3>2. B = Lookup(r)
      <4>1. Lookup(r) \in Nodes
        BY <1>1, LookupType
      <4>2. \/ B = NoNode
            \/ IsDirectory(Lookup(r)) /\ B = Lookup(r)
        BY <3>1, <4>1, StepType
      <4> QED
        BY <2>3, <4>2
    <3>3. Follow(B, R) = Step(Follow(B, r), "/")
      BY <1>1, <1>3, <2>3, FollowAppended
    <3> QED
      BY <1>10, <3>2, <3>3
  <2> QED
    BY <1>7, <2>1, <2>2, <2>3
<1>12. Lookup(s) = Follow(B, rest)
  <2>1. s = R \o rest
    BY DEF R
  <2> QED
    BY <1>2, <1>6, <2>1, FollowConcat DEF Lookup
<1>13. Lookup(Resolve(r, s)) = Follow(B, t)
  <2>1. Resolve(r, s) = R \o t
    BY DEF Resolve, R, t
  <2> QED
    BY <1>2, <1>5, <1>6, <2>1, FollowConcat DEF Lookup
<1> HIDE DEF B
<1>14. Follow(B, t) = Follow(B, s)
  <2>1. CASE s[1] = "/"
    <3>1. Follow(B, <<"/">> \o t) = Follow(Step(B, "/"), t)
      BY <1>3, <1>5, FollowAppended
    <3> QED
      BY <1>5, <1>10, <2>1, <3>1
  <2>2. CASE s[1] # "/"
    BY <1>5, <2>2
  <2> QED
    BY <2>1, <2>2
<1>15. Follow(B, s) = Follow(B, rest)
  <2>1. s = R \o rest
    BY DEF R
  <2> QED
    BY <1>2, <1>11, <2>1, FollowConcat
<1> QED
  BY <1>12, <1>13, <1>14, <1>15

\* A type is one of the codes.  If no name on the way means something to the
\* shell there is one, and it is that of a directory for directories alone.
LEMMA CodeOfPath ==
  ASSUME NEW p \in Seq(Tokens)
  PROVE  /\ GopherCodes(p) \subseteq Codes
         /\ ~HasShellName(p) => "none" \notin GopherCodes(p)
         /\ Lookup(p) # NoNode /\ ~HasShellName(p) =>
              \A c \in GopherCodes(p) :
                c = "1" <=> Site[Lookup(p)] = "directory"
<1>1. CASE HasShellName(p)
  BY <1>1 DEF GopherCodes
<1>2. CASE ~HasShellName(p) /\ Lookup(p) = NoNode
  BY <1>2 DEF GopherCodes, Codes
<1>3. CASE ~HasShellName(p) /\ Lookup(p) # NoNode
  <2> DEFINE kind == Site[Lookup(p)]
  <2>1. kind \in Kinds
    BY <1>3, LookupType, SelectorAssumption DEF Nodes
  <2>2. GopherCodes(p) = {MimeCode(MimeType(kind))}
    BY <1>3 DEF GopherCodes
  <2> HIDE DEF kind
  <2>3. /\ MimeCode(MimeType(kind)) \in Codes \ {"none"}
        /\ MimeCode(MimeType(kind)) = "1" <=> kind = "directory"
    BY <2>1 DEF Kinds, MimeCode, MimeType, SubtypeCodes, TypeCodes, Codes
  <2> QED
    BY <1>3, <2>2, <2>3 DEF kind
<1> QED
  BY <1>1, <1>2, <1>3

-----------------------------------------------------------------------------
(* The invariant holds initially *)

LEMMA InitInv == Init => IInv
<1> SUFFICES ASSUME Init PROVE IInv
  OBVIOUS
<1> USE DEF Init
<1>1. TypeOK
  BY DEF TypeOK
<1>2. Alternates(<<>>)
  <2>1. Len(<<>>) = 0 /\ 1..(0 - 1) = {}
    OBVIOUS
  <2> QED
    BY <2>1 DEF Alternates
<1>3. 1..Len(sent) = {}
  OBVIOUS
<1>4. ClientInv
  BY <1>2, <1>3 DEF ClientInv
<1>5. HandlerInv
  BY DEF HandlerInv
<1>6. LogIsNotServed
  BY DEF LogIsNotServed
<1> QED
  BY <1>1, <1>4, <1>5, <1>6 DEF IInv

-----------------------------------------------------------------------------
(* The steps *)

\* The black list names the log and nothing else.
LEMMA BlackListedIsLog ==
  ASSUME NEW p \in Seq(Tokens), p # <<>>, Alternates(p),
         Lookup(p) # NoNode, Site[Lookup(p)] # "directory"
  PROVE  BlackListed(p) <=> Lookup(p) = LogNode
<1> DEFINE n == Lookup(p)
<1>1. n \in DOMAIN Site
  BY LookupType DEF Nodes
<1>2. n # <<>> /\ Last(n) = Last(p)
  BY FileHasItsName
<1>3. n = Append(Front(n), Last(n)) /\ Parent(n) = Front(n)
  BY <1>1, <1>2, NodeOfName DEF Parent
<1>4. Parent(Cwd) \in DOMAIN Site
  BY NodeOfName, SelectorAssumption DEF Parent, IsDirectory
<1>5. Last(LogNode) = LogName /\ Front(LogNode) = Parent(Cwd)
  BY <1>4, AppendedName DEF LogNode
<1> QED
  BY <1>2, <1>3, <1>5 DEF BlackListed, LogNode

\* What file_type says of a node.
LEMMA FileTypeOfNode ==
  ASSUME NEW p \in Seq(Tokens), p # <<>>, Alternates(p)
  PROVE  LET n == Lookup(p) IN
         /\ FileType(p) = "FILES_NOT_EXIST" <=> n = NoNode
         /\ n # NoNode =>
              /\ n \in DOMAIN Site /\ Site[n] \in Kinds
              /\ FileType(p) = "FILES_IS_DIRECTORY"
                   <=> Site[n] \in {"directory", "socket"}
              /\ FileType(p) = "FILES_IS_UNMANAGED_FILE" <=> Site[n] = "fifo"
              /\ FileType(p) = "FILES_NOT_PERMITTED"
                   <=> Site[n] \notin {"directory", "socket", "fifo"} /\ n = LogNode
              /\ FileType(p) = "FILES_IS_REG_FILE"
                   <=> Site[n] \notin {"directory", "socket", "fifo"} /\ n # LogNode
<1> DEFINE n == Lookup(p)
<1>1. CASE n = NoNode
  BY <1>1 DEF FileType
<1>2. CASE n # NoNode
  <2>1. n \in DOMAIN Site /\ Site[n] \in Kinds
    BY <1>2, LookupType, SelectorAssumption DEF Nodes
  <2>2. Site[n] # "directory" => (BlackListed(p) <=> n = LogNode)
    BY <1>2, BlackListedIsLog
  <2>3. FileType(p) =
          IF Site[n] \in {"directory", "socket"} THEN "FILES_IS_DIRECTORY"
          ELSE IF Site[n] = "fifo" THEN "FILES_IS_UNMANAGED_FILE"
          ELSE IF BlackListed(p) THEN "FILES_NOT_PERMITTED"
          ELSE "FILES_IS_REG_FILE"
    BY <1>2 DEF FileType
  <2> HIDE DEF n
  <2> QED
    BY <1>2, <2>1, <2>2, <2>3 DEF n
<1> QED
  BY <1>1, <1>2

\* One line more, one entry less.
LEMMA OneMore ==
  ASSUME NEW rest, NEW n, NEW lines \in Seq(Lines), ListedBut(rest, n, lines),
         NEW e \in rest \ Hidden, NEW line \in Lines, line.name = e
  PROVE  ListedBut(rest \ {e}, n, Append(lines, line))
<1> DEFINE more == Append(lines, line)
           k == Len(lines)
<1>1. /\ more \in Seq(Lines) /\ Len(more) = k + 1 /\ k \in Nat
      /\ \A i \in 1..k : more[i] = lines[i]
      /\ more[k + 1] = line
  OBVIOUS
<1> HIDE DEF more, k
<1>2. \A i \in 1..k : lines[i].name # e
  BY DEF ListedBut, k
<1>3. {more[i].name : i \in 1..Len(more)} = {lines[i].name : i \in 1..k} \cup {e}
  <2>1. 1..(k + 1) = 1..k \cup {k + 1}
    BY <1>1
  <2>2. \A i \in 1..(k + 1) : more[i].name \in {lines[j].name : j \in 1..k} \cup {e}
    BY <1>1, <2>1
  <2>3. \A i \in 1..k : lines[i].name = more[i].name
    BY <1>1
  <2> QED
    BY <1>1, <2>1, <2>2, <2>3
<1>4. {more[i].name : i \in 1..Len(more)} = (Entries(n) \ Hidden) \ (rest \ {e})
  BY <1>3 DEF ListedBut, k
<1>5. ASSUME NEW i \in 1..Len(more), NEW j \in 1..Len(more),
             more[i].name = more[j].name
      PROVE  i = j
  <2>1. \A m \in 1..Len(more) : m = k + 1 \/ (m \in 1..k /\ more[m] = lines[m])
    BY <1>1
  <2>2. \A m, l \in 1..k : lines[m].name = lines[l].name => m = l
    BY DEF ListedBut, k
  <2> QED
    BY <1>1, <1>2, <1>5, <2>1, <2>2
<1>6. rest \ {e} \subseteq Entries(n)
  BY DEF ListedBut
<1> QED
  BY <1>4, <1>5, <1>6 DEF ListedBut, more

LEMMA AskTypedInv == IInv /\ AskTyped => IInv'
<1> SUFFICES ASSUME IInv, AskTyped PROVE IInv'
  OBVIOUS
<1> USE DEF IInv, AskTyped
<1>1. selector' \in Seq(Tokens) /\ Alternates(selector')
  BY GivenPaths
<1>2. TypeOK'
  BY <1>1 DEF TypeOK
<1>3. ClientInv'
  BY <1>1 DEF ClientInv
<1>4. HandlerInv'
  BY DEF HandlerInv
<1>5. LogIsNotServed'
  BY DEF LogIsNotServed
<1> QED
  BY <1>2, <1>3, <1>4, <1>5

LEMMA AskListedInv == IInv /\ AskListed => IInv'
<1> SUFFICES ASSUME IInv, AskListed PROVE IInv'
  OBVIOUS
<1> USE DEF IInv, AskListed
<1>1. PICK i \in 1..Len(sent) : asked' = sent[i]
  BY DEF TypeOK, ToSet
<1>2. Faithful(root, asked')
  BY <1>1 DEF ClientInv
<1>3. asked' \in Lines /\ selector' \in Seq(Tokens) /\ Alternates(selector')
  BY <1>2 DEF Faithful, Lines
<1>4. TypeOK'
  BY <1>3 DEF TypeOK
<1>5. ClientInv'
  BY <1>2, <1>3 DEF ClientInv
<1>6. HandlerInv'
  BY DEF HandlerInv
<1>7. LogIsNotServed'
  BY DEF LogIsNotServed
<1> QED
  BY <1>4, <1>5, <1>6, <1>7

\* The steps of the handler before it lists a directory, and after.
LEMMA AnswerInv ==
  ASSUME IInv, \/ SendTooLong \/ ResolveSelector \/ SendError \/ GetCode
               \/ SendNothing \/ SendFile \/ CloseDirectory
  PROVE  IInv'
<1> USE DEF IInv
<1>1. root \in Roots /\ selector \in Seq(Tokens) /\ Alternates(selector)
  BY DEF TypeOK, ClientInv
<1>2. Resolve(root, selector) \in Seq(Tokens) /\ Resolve(root, selector) # <<>>
      /\ Alternates(Resolve(root, selector))
  BY <1>1, ResolvedPath
<1>3. /\ UNCHANGED <<root, asked, selector, sent>>
      /\ pc' \in {"serve", "send", "answered"}
  BY DEF SendTooLong, ResolveSelector, SendError, GetCode, SendNothing,
         SendFile, CloseDirectory
<1>4. ClientInv'
  BY <1>3 DEF ClientInv
<1>5. TypeOK' /\ HandlerInv' /\ LogIsNotServed'
  <2>1. CASE SendTooLong
    BY <2>1 DEF SendTooLong, TypeOK, HandlerInv, LogIsNotServed
  <2>2. CASE ResolveSelector
    BY <1>2, <2>2 DEF ResolveSelector, TypeOK, HandlerInv, LogIsNotServed
  <2>3. CASE SendError
    BY <2>3 DEF SendError, TypeOK, HandlerInv, LogIsNotServed, Outcome
  <2>4. CASE SendNothing
    BY <2>4 DEF SendNothing, TypeOK, HandlerInv, LogIsNotServed, Outcome
  <2>5. CASE SendFile
    <3>1. Lookup(path) \in DOMAIN Site /\ Lookup(path) # LogNode
      BY <1>2, <2>5, FileTypeOfNode DEF SendFile, HandlerInv
    <3> QED
      BY <2>5, <3>1 DEF SendFile, TypeOK, HandlerInv, LogIsNotServed, Outcome
  <2>6. CASE CloseDirectory
    <3>1. FileType(path) = "FILES_IS_DIRECTORY"
      BY <1>2, <2>6, FileTypeOfNode, SelectorAssumption
         DEF CloseDirectory, HandlerInv, IsDirectory
    <3> QED
      BY <2>6, <3>1
         DEF CloseDirectory, TypeOK, HandlerInv, LogIsNotServed, Outcome,
             IsDirectory
  <2>7. CASE GetCode
    <3>1. \/ pc' = "send"
          \/ pc' = "answered" /\ "none" \in GopherCodes(path)
      BY <2>7 DEF GetCode
    <3>2. TypeOK' /\ LogIsNotServed'
      BY <2>7, <3>1 DEF GetCode, TypeOK, LogIsNotServed
    <3>3. HandlerInv'
      BY <2>7, <3>1 DEF GetCode, HandlerInv, Outcome
    <3> QED
      BY <3>2, <3>3
  <2> QED
    BY <2>1, <2>2, <2>3, <2>4, <2>5, <2>6, <2>7
<1> QED
  BY <1>4, <1>5

LEMMA OpenDirectoryInv == IInv /\ OpenDirectory => IInv'
<1> SUFFICES ASSUME IInv, OpenDirectory PROVE IInv'
  OBVIOUS
<1> USE DEF IInv, OpenDirectory
<1>1. path \in Seq(Tokens) /\ path = Resolve(root, selector)
  BY DEF TypeOK, HandlerInv
<1>2. path # <<>> /\ Alternates(path)
  BY <1>1, ResolvedPath DEF TypeOK, ClientInv
<1>3. IsDirectory(Lookup(path))
  <2>1. Lookup(path) # NoNode
    BY <1>1, <1>2, FileTypeOfNode
  <2> QED
    BY <1>1, <2>1, LookupType DEF Nodes, IsDirectory
<1>4. Entries(Lookup(path)) \subseteq Names \cup {".", ".."}
  BY DEF Entries, Names
<1>5. ListedBut(left', served', sent')
  <2>1. 1..Len(sent') = {}
    OBVIOUS
  <2> QED
    BY <2>1 DEF ListedBut
<1>6. TypeOK'
  BY <1>3, <1>4 DEF TypeOK, IsDirectory
<1>7. ClientInv'
  BY DEF ClientInv
<1>8. HandlerInv'
  BY <1>3, <1>5 DEF HandlerInv
<1>9. LogIsNotServed'
  BY DEF LogIsNotServed, HandlerInv
<1> QED
  BY <1>6, <1>7, <1>8, <1>9

LEMMA SkipHiddenInv ==
  ASSUME IInv, NEW e \in left, SkipHidden(e)
  PROVE  IInv'
<1> USE DEF IInv, SkipHidden
<1>1. ListedBut(left', served', sent')
  BY DEF HandlerInv, ListedBut
<1>2. TypeOK'
  BY DEF TypeOK
<1>3. ClientInv'
  BY DEF ClientInv
<1>4. HandlerInv'
  BY <1>1 DEF HandlerInv
<1>5. LogIsNotServed'
  BY DEF LogIsNotServed
<1> QED
  BY <1>2, <1>3, <1>4, <1>5

LEMMA SendLineInv ==
  ASSUME IInv, NEW e \in left, SendLine(e)
  PROVE  IInv'
<1> DEFINE f == FullPath(path, e)
<1>0. PICK line \in ResponseLines(e, f, Append(served, e)) :
        sent' = Append(sent, line)
  BY DEF SendLine
<1> USE DEF IInv, SendLine
<1>1. /\ path \in Seq(Tokens) /\ path = Resolve(root, selector)
      /\ served = Lookup(path) /\ IsDirectory(served)
      /\ ListedBut(left, served, sent) /\ sent \in Seq(Lines)
  BY DEF TypeOK, HandlerInv
<1>2. path # <<>> /\ Alternates(path)
  BY <1>1, ResolvedPath DEF TypeOK, ClientInv
<1>3. e \in Entries(served) \ Hidden
  BY <1>1 DEF ListedBut
<1>4. /\ Append(served, e) \in DOMAIN Site /\ e \in Names
      /\ Append(served, e) # <<>> /\ Last(Append(served, e)) = e
  BY <1>1, <1>3, EntryNode, AppendedName DEF IsDirectory
<1>5. /\ f \in Seq(Tokens) /\ f # <<>> /\ Alternates(f) /\ Last(f) = e
      /\ Lookup(f) = Append(served, e)
  BY <1>1, <1>2, <1>3, FullPathLeads
<1>6. \E rest \in Seq(Tokens) : f = WithSlash(root) \o rest
  <2> DEFINE R == WithSlash(root)
             t == WithoutSlash(selector)
             rest == Append(Append(t, "/"), e)
  <2>1. R \in Seq(Tokens)
    BY GivenPaths, PathAssumption, EndsInSlash DEF TypeOK
  <2>2. t \in Seq(Tokens)
    BY TailIsPath DEF TypeOK, ClientInv
  <2>3. "/" \in Tokens /\ e \in Tokens
    BY <1>4 DEF Tokens, Special
  <2>4. path = R \o t
    BY <1>1 DEF Resolve
  <2> HIDE DEF R, t
  <2>5. ASSUME NEW p \in Seq(Tokens), NEW q \in Seq(Tokens), NEW u \in Tokens
        PROVE  Append(p \o q, u) = p \o Append(q, u)
    <3>1. p \o q \in Seq(Tokens) /\ <<u>> \in Seq(Tokens)
      OBVIOUS
    <3>2. Append(p \o q, u) = (p \o q) \o <<u>>
      BY <3>1, AppendIsConcat
    <3>3. Append(q, u) = q \o <<u>>
      BY AppendIsConcat
    <3>4. (p \o q) \o <<u>> = p \o (q \o <<u>>)
      BY <3>1, ConcatAssociative
    <3> QED
      BY <3>2, <3>3, <3>4
  <2>6. Append(t, "/") \in Seq(Tokens) /\ rest \in Seq(Tokens)
    BY <2>2, <2>3
  <2>7. f = R \o rest
    <3>1. Append(path, "/") = R \o Append(t, "/")
      BY <2>1, <2>2, <2>3, <2>4, <2>5
    <3>2. Append(R \o Append(t, "/"), e) = R \o rest
      BY <2>1, <2>3, <2>5, <2>6
    <3> QED
      BY <3>1, <3>2 DEF FullPath
  <2> QED
    BY <2>6, <2>7 DEF R
<1>7. GopherCodes(f) \subseteq Codes
  BY <1>5, CodeOfPath
<1> HIDE DEF f
<1>8. line \in Lines
  <2>1. PICK c \in GopherCodes(f) :
          line = [code |-> c, name |-> e, selector |-> f,
                  node |-> Append(served, e)]
    BY <1>0 DEF ResponseLines
  <2>2. /\ c \in Codes /\ e \in Names /\ f \in Seq(Tokens)
        /\ Append(served, e) \in DOMAIN Site
    BY <1>4, <1>5, <1>7, <2>1
  <2> QED
    BY <2>1, <2>2 DEF Lines
<1>9. Faithful(root, line)
  <2>1. /\ line.selector = f /\ line.name = e /\ line.node = Append(served, e)
        /\ line.code \in GopherCodes(f)
    BY <1>0 DEF ResponseLines
  <2> QED
    BY <1>4, <1>5, <1>6, <1>8, <2>1 DEF Faithful
<1>10. sent' = Append(sent, line) /\ left' = left \ {e} /\ line.name = e
  BY <1>0 DEF ResponseLines
<1>11. ListedBut(left', served', sent')
  BY <1>1, <1>8, <1>10, OneMore
<1>12. TypeOK'
  BY <1>8, <1>10 DEF TypeOK
<1>13. ClientInv'
  <2>1. \A i \in 1..Len(sent') : Faithful(root, sent'[i])
    <3>1. /\ Len(sent') = Len(sent) + 1 /\ Len(sent) \in Nat
          /\ \A i \in 1..Len(sent) : sent'[i] = sent[i]
          /\ sent'[Len(sent) + 1] = line
      BY <1>1, <1>8, <1>10
    <3>2. \A i \in 1..Len(sent') : i \in 1..Len(sent) \/ i = Len(sent) + 1
      BY <3>1
    <3> QED
      BY <1>9, <3>1, <3>2 DEF ClientInv
  <2> QED
    BY <2>1 DEF ClientInv
<1>14. HandlerInv'
  BY <1>11 DEF HandlerInv
<1>15. LogIsNotServed'
  BY DEF LogIsNotServed
<1> QED
  BY <1>12, <1>13, <1>14, <1>15

LEMMA NextInv == IInv /\ [Next]_vars => IInv'
<1> SUFFICES ASSUME IInv, [Next]_vars PROVE IInv'
  OBVIOUS
<1>1. CASE AskTyped
  BY <1>1, AskTypedInv
<1>2. CASE AskListed
  BY <1>2, AskListedInv
<1>3. CASE \/ SendTooLong \/ ResolveSelector \/ SendError \/ GetCode
           \/ SendNothing \/ SendFile \/ CloseDirectory
  BY <1>3, AnswerInv
<1>4. CASE OpenDirectory
  BY <1>4, OpenDirectoryInv
<1>5. ASSUME NEW e \in left, SkipHidden(e) PROVE IInv'
  BY <1>5, SkipHiddenInv
<1>6. ASSUME NEW e \in left, SendLine(e) PROVE IInv'
  BY <1>6, SendLineInv
<1>7. CASE UNCHANGED vars
  BY <1>7 DEF vars, IInv, TypeOK, ClientInv, HandlerInv, LogIsNotServed
<1> QED
  BY <1>1, <1>2, <1>3, <1>4, <1>5, <1>6, <1>7 DEF Next, HandlerStep

THEOREM Invariance == Spec => []IInv
<1>1. Init => IInv
  BY InitInv
<1>2. IInv /\ [Next]_vars => IInv'
  BY NextInv
<1> QED
  BY <1>1, <1>2, PTL DEF Spec

-----------------------------------------------------------------------------
(* The theorems *)

\* Every variable keeps its type, for every site, root and typed selector.
THEOREM TypeCorrect == Spec => []TypeOK
<1>1. IInv => TypeOK
  BY DEF IInv
<1> QED
  BY <1>1, Invariance, PTL

\* The selector of a listed entry leads to it again, behind a neutral root.
LEMMA LeadsToEntry ==
  ASSUME IInv, RootIsNeutral, asked # NoLine
  PROVE  /\ Resolve(root, selector) \in Seq(Tokens)
         /\ Resolve(root, selector) # <<>>
         /\ Alternates(Resolve(root, selector))
         /\ Lookup(Resolve(root, selector)) = asked.node
         /\ asked.node \in DOMAIN Site /\ asked.node # NoNode
<1>1. Faithful(root, asked) /\ selector = asked.selector
  BY DEF IInv, ClientInv
<1>2. /\ root \in Roots /\ selector \in Seq(Tokens) /\ Alternates(selector)
      /\ asked \in Lines
  BY <1>1 DEF IInv, TypeOK, Faithful
<1>3. PICK rest \in Seq(Tokens) : selector = WithSlash(root) \o rest
  BY <1>1 DEF Faithful
<1>4. Lookup(Resolve(root, selector)) = Lookup(selector)
  BY <1>2, <1>3, NeutralRoot DEF RootIsNeutral
<1>5. Lookup(selector) = asked.node /\ asked.node \in DOMAIN Site
  BY <1>1, <1>2 DEF Faithful, Lines
<1> QED
  BY <1>2, <1>4, <1>5, ResolvedPath, SelectorAssumption

\* What the root adds to the selector of a line means no more to the shell than
\* the selector, which begins with it.
LEMMA SameShellNames ==
  ASSUME IInv, asked # NoLine, ~HasShellName(selector)
  PROVE  ~HasShellName(Resolve(root, selector))
<1> DEFINE R == WithSlash(root)
           t == WithoutSlash(selector)
<1>1. /\ root \in Roots /\ selector \in Seq(Tokens) /\ Alternates(selector)
      /\ Faithful(root, asked) /\ selector = asked.selector
  BY DEF IInv, TypeOK, ClientInv
<1>2. R \in Seq(Tokens) /\ t \in Seq(Tokens)
  BY <1>1, GivenPaths, PathAssumption, EndsInSlash, TailIsPath
<1>3. PICK rest \in Seq(Tokens) : selector = R \o rest
  BY <1>1 DEF Faithful
<1>4. \A i \in 1..Len(t) : \E j \in 1..Len(selector) : t[i] = selector[j]
  <2>1. t = selector \/ (t = Tail(selector) /\ selector # <<>>)
    BY DEF WithoutSlash
  <2>2. CASE t = Tail(selector) /\ selector # <<>>
    <3>1. \A i \in 1..Len(t) : i + 1 \in 1..Len(selector) /\ t[i] = selector[i + 1]
      BY <1>1, <2>2
    <3> QED
      BY <3>1
  <2> QED
    BY <2>1, <2>2
<1> HIDE DEF R, t
<1>5. \A i \in 1..Len(R) : i \in 1..Len(selector) /\ R[i] = selector[i]
  BY <1>2, <1>3
<1>6. \A i \in 1..Len(R \o t) :
        \/ i \in 1..Len(R) /\ (R \o t)[i] = R[i]
        \/ i - Len(R) \in 1..Len(t) /\ (R \o t)[i] = t[i - Len(R)]
  BY <1>2
<1>7. ASSUME NEW x \in ToSet(R \o t)
      PROVE  x \in ToSet(selector)
  <2>1. PICK i \in 1..Len(R \o t) : x = (R \o t)[i]
    BY <1>7 DEF ToSet
  <2>2. \E j \in 1..Len(selector) : x = selector[j]
    BY <1>4, <1>5, <1>6, <2>1
  <2> QED
    BY <2>2 DEF ToSet
<1>8. Resolve(root, selector) = R \o t
  BY DEF Resolve, R, t
<1> QED
  BY <1>7, <1>8 DEF HasShellName

LEMMA ListedEntryIsServed ==
  ASSUME IInv, RootIsNeutral
  PROVE  EveryListedEntryIsServed
<1> SUFFICES ASSUME pc = "answered", asked # NoLine, ~HasShellName(selector),
                    ~(Len(selector) > MaxSelector /\ reply = "error")
             PROVE  Answers(asked.node, reply)
  BY DEF EveryListedEntryIsServed
<1> DEFINE p == Resolve(root, selector)
           n == asked.node
<1>1. /\ p \in Seq(Tokens) /\ p # <<>> /\ Alternates(p)
      /\ Lookup(p) = n /\ n \in DOMAIN Site /\ n # NoNode
  BY LeadsToEntry
<1>2. Outcome(p, served, reply)
  BY DEF IInv, HandlerInv
<1>0. "none" \notin GopherCodes(p)
  BY <1>1, SameShellNames, CodeOfPath DEF IInv, ClientInv
<1> HIDE DEF p, n
<1>3. /\ FileType(p) # "FILES_NOT_EXIST"
      /\ FileType(p) = "FILES_IS_DIRECTORY" <=> Site[n] \in {"directory", "socket"}
      /\ FileType(p) = "FILES_IS_UNMANAGED_FILE" <=> Site[n] = "fifo"
      /\ FileType(p) = "FILES_NOT_PERMITTED"
           <=> Site[n] \notin {"directory", "socket", "fifo"} /\ n = LogNode
      /\ FileType(p) = "FILES_IS_REG_FILE"
           <=> Site[n] \notin {"directory", "socket", "fifo"} /\ n # LogNode
  BY <1>1, FileTypeOfNode
<1>4. Answers(n, reply)
  BY <1>0, <1>1, <1>2, <1>3 DEF Outcome, Answers, Unservable
<1> QED
  BY <1>4 DEF n

\* However deep a client browses below a neutral root, in any site whose names on
\* the way mean nothing to the shell, the selector of a line is answered with the
\* entry the line was made for, unless it has become too long.
THEOREM ListedEntriesServed == Spec => []ListedEntriesAreServed
<1>1. IInv => ListedEntriesAreServed
  BY ListedEntryIsServed DEF ListedEntriesAreServed
<1> QED
  BY <1>1, Invariance, PTL

\* A client that trusts the types of the lines takes directories for
\* directories and nothing else for one, where no name on the way means something
\* to the shell.
THEOREM TypesFit == Spec => []AnnouncedTypeFits
<1>1. IInv => AnnouncedTypeFits
  <2> SUFFICES ASSUME IInv, pc = "answered", asked # NoLine, RootIsNeutral,
                      ~HasShellName(asked.selector)
               PROVE  IF asked.code = "1" THEN reply \in {"listing", "error"}
                      ELSE reply # "listing"
    BY DEF AnnouncedTypeFits
  <2>1. /\ asked.code \in GopherCodes(asked.selector)
        /\ asked.selector \in Seq(Tokens) /\ selector = asked.selector
        /\ Lookup(asked.selector) = asked.node
    BY DEF IInv, ClientInv, Faithful, Lines
  <2>2. asked.node \in DOMAIN Site /\ asked.node # NoNode
    BY LeadsToEntry
  <2>3. asked.code = "1" <=> Site[asked.node] = "directory"
    BY <2>1, <2>2, CodeOfPath
  <2>4. \/ reply = "error"
        \/ Answers(asked.node, reply)
    BY <2>1, ListedEntryIsServed DEF EveryListedEntryIsServed
  <2> QED
    BY <2>2, <2>3, <2>4, SelectorAssumption DEF Answers, Unservable, Kinds
<1> QED
  BY <1>1, Invariance, PTL

\* A directory of any size is listed whole, each entry on one line.
THEOREM ListingIsComplete == Spec => []ListingComplete
<1>1. IInv => ListingComplete
  <2> SUFFICES ASSUME IInv, reply = "listing"
               PROVE  /\ {sent[i].name : i \in 1..Len(sent)} = Entries(served) \ Hidden
                      /\ Len(sent) = Cardinality(Entries(served) \ Hidden)
    BY DEF ListingComplete
  <2> DEFINE k == Len(sent)
             S == Entries(served) \ Hidden
             f == [i \in 1..k |-> sent[i].name]
  <2>1. k \in Nat
    BY DEF IInv, TypeOK
  <2>2. /\ {sent[i].name : i \in 1..k} = S
        /\ \A i, j \in 1..k : sent[i].name = sent[j].name => i = j
    BY DEF IInv, HandlerInv, ListedBut
  <2> HIDE DEF k, S
  <2>3. f \in Bijection(1..k, S)
    <3>1. f \in [1..k -> S]
      BY <2>2
    <3>2. \A i, j \in 1..k : f[i] = f[j] => i = j
      BY <2>2
    <3>3. \A e \in S : \E i \in 1..k : f[i] = e
      BY <2>2
    <3> HIDE DEF f
    <3> QED
      BY <3>1, <3>2, <3>3 DEF Bijection, Injection, Surjection, IsInjective
  <2>4. Cardinality(S) = k
    <3>1. ExistsBijection(1..k, S)
      BY <2>3 DEF ExistsBijection
    <3> QED
      BY <2>1, <3>1, FS_CountingElements
  <2> QED
    BY <2>2, <2>4 DEF k, S
<1> QED
  BY <1>1, Invariance, PTL

\* No path, root or selector gets the access log sent as a file.
THEOREM LogNotServed == Spec => []LogIsNotServed
<1>1. IInv => LogIsNotServed
  BY DEF IInv
<1> QED
  BY <1>1, Invariance, PTL

====================
