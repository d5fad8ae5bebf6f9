--------------------------- MODULE SimulatorProofs ---------------------------
(***************************************************************************)
(* Proofs about the switch simulator, for any number of pages, ports,      *)
(* steps of wire and frames, and any choice of forwardings.  TypeCorrect,  *)
(* OrderlyKept, LinesKept, IdsDiffer and BothKept are, one on the other,   *)
(* the parts of the inductive invariant; the theorems follow from them.    *)
(* What AtPositions returns is proved by induction, over sets of naturals. *)
(***************************************************************************)
EXTENDS Simulator, SequenceTheorems, WellFoundedInduction, TLAPS

----------------------------------------------------------------------------
(* Induction over the naturals, for sets of them.                          *)

LEMMA LeastOf ==
  ASSUME NEW T \in SUBSET Nat, T # {}
  PROVE  \E m \in T : \A n \in T : m <= n
<1> DEFINE R == OpToRel(<, Nat)
<1>1. IsWellFoundedOn(R, Nat)
  BY NatLessThanWellFounded
<1>2. \A m, n \in Nat : m < n => <<m, n>> \in R
  BY DEF OpToRel
<1> HIDE DEF R
<1>3. PICK m \in T : \A n \in T : ~(<<n, m>> \in R)
  BY <1>1, WFMin
<1>4. ASSUME NEW n \in T PROVE m <= n
  <2>1. m \in Nat /\ n \in Nat /\ ~(n < m)
    BY <1>2, <1>3
  <2> QED
    BY <2>1
<1> QED
  BY <1>4

LEMMA Induction ==
  ASSUME NEW S, 0 \in S, \A n \in Nat : n \in S => n + 1 \in S
  PROVE  Nat \subseteq S
<1> DEFINE T == Nat \ S
<1>1. SUFFICES ASSUME T # {} PROVE FALSE
  OBVIOUS
<1>2. PICK m \in T : \A n \in T : m <= n
  BY <1>1, LeastOf
<1>3. m - 1 \in Nat /\ m - 1 \notin T
  BY <1>2
<1> QED
  BY <1>2, <1>3

----------------------------------------------------------------------------
(* What AtPositions computes                                               *)

(* The function it defines, of s at the positions T up to m. *)
Selects(g, s, T, m) ==
  g = [n \in 0 .. m |->
         IF n = 0 THEN << >>
         ELSE IF n \in T THEN Append(g[n - 1], s[n]) ELSE g[n - 1]]

LEMMA SelectsOnce ==
  ASSUME NEW s, NEW T, NEW m \in Nat, NEW g, Selects(g, s, T, m),
         NEW h, Selects(h, s, T, m)
  PROVE  g = h
<1> DEFINE S == {n \in Nat : n <= m => g[n] = h[n]}
<1>1. 0 \in S
  BY DEF Selects
<1>2. ASSUME NEW n \in Nat, n \in S PROVE n + 1 \in S
  <2>1. SUFFICES ASSUME n + 1 <= m PROVE g[n + 1] = h[n + 1]
    OBVIOUS
  <2>2. n + 1 \in 0 .. m /\ n + 1 # 0 /\ (n + 1) - 1 = n /\ g[n] = h[n]
    BY <1>2, <2>1
  <2>3. ASSUME NEW f, Selects(f, s, T, m)
        PROVE  f[n + 1] = IF n + 1 \in T THEN Append(f[n], s[n + 1]) ELSE f[n]
    BY <2>2, <2>3 DEF Selects
  <2> QED
    BY <2>2, <2>3
<1>3. \A n \in 0 .. m : g[n] = h[n]
  <2> HIDE DEF S
  <2>1. Nat \subseteq S
    BY <1>1, <1>2, Induction
  <2> QED
    BY <2>1 DEF S
<1>4. /\ g = [n \in 0 .. m |-> g[n]]
      /\ h = [n \in 0 .. m |-> h[n]]
  BY DEF Selects
<1> QED
  BY <1>3, <1>4

LEMMA SelectsSome ==
  ASSUME NEW s, NEW T, NEW l \in Nat
  PROVE  \E g : Selects(g, s, T, l)
<1> DEFINE S == {m \in Nat : \E g : Selects(g, s, T, m)}
<1>1. 0 \in S
  <2> DEFINE g == [n \in 0 .. 0 |-> << >>]
  <2>1. Selects(g, s, T, 0)
    BY DEF Selects
  <2> QED
    BY <2>1
<1>2. ASSUME NEW m \in Nat, m \in S PROVE m + 1 \in S
  <2>1. PICK g : Selects(g, s, T, m)
    BY <1>2
  <2> DEFINE h == [n \in 0 .. m + 1 |->
                     IF n <= m THEN g[n]
                     ELSE IF m + 1 \in T THEN Append(g[m], s[m + 1]) ELSE g[m]]
  <2>2. ASSUME NEW n \in 0 .. m + 1
        PROVE  h[n] = IF n = 0 THEN << >>
                      ELSE IF n \in T THEN Append(h[n - 1], s[n]) ELSE h[n - 1]
    <3>1. CASE n <= m
      <4>1. n \in 0 .. m /\ (n # 0 => h[n - 1] = g[n - 1]) /\ h[n] = g[n]
        BY <2>2, <3>1
      <4> QED
        BY <2>1, <4>1 DEF Selects
    <3>2. CASE n = m + 1
      <4>1. n # 0 /\ n - 1 = m /\ h[m] = g[m]
        BY <3>2
      <4> QED
        BY <3>2, <4>1
    <3> QED
      BY <2>2, <3>1, <3>2
  <2>3. Selects(h, s, T, m + 1)
    BY <2>2 DEF Selects
  <2> QED
    BY <2>3
<1> HIDE DEF S
<1>3. Nat \subseteq S
  BY <1>1, <1>2, Induction
<1> QED
  BY <1>3 DEF S

(* Any function that selects gives the result. *)
LEMMA AtPositionsIs ==
  ASSUME NEW s, Len(s) \in Nat, NEW T, NEW g, Selects(g, s, T, Len(s))
  PROVE  AtPositions(s, T) = g[Len(s)]
<1> DEFINE h == CHOOSE f : Selects(f, s, T, Len(s))
<1>1. Selects(h, s, T, Len(s))
  OBVIOUS
<1>2. AtPositions(s, T) = h[Len(s)]
  BY DEF AtPositions, Selects
<1> HIDE DEF h
<1>3. h = g
  BY <1>1, SelectsOnce
<1> QED
  BY <1>2, <1>3

LEMMA SelectsHas ==
  ASSUME NEW s, NEW T, NEW m \in Nat, NEW g, Selects(g, s, T, m)
  PROVE  /\ g[0] = << >>
         /\ \A n \in 1 .. m :
              g[n] = IF n \in T THEN Append(g[n - 1], s[n]) ELSE g[n - 1]
<1>1. 0 \in 0 .. m /\ \A n \in 1 .. m : n \in 0 .. m /\ n # 0
  OBVIOUS
<1> QED
  BY <1>1 DEF Selects

LEMMA SelectsWhen ==
  ASSUME NEW s, NEW T, NEW m \in Nat, NEW g, g = [n \in 0 .. m |-> g[n]],
         g[0] = << >>,
         \A n \in 1 .. m :
           g[n] = IF n \in T THEN Append(g[n - 1], s[n]) ELSE g[n - 1]
  PROVE  Selects(g, s, T, m)
<1> DEFINE e(n) == IF n = 0 THEN << >>
                   ELSE IF n \in T THEN Append(g[n - 1], s[n]) ELSE g[n - 1]
<1>1. ASSUME NEW n \in 0 .. m PROVE g[n] = e(n)
  <2>1. CASE n = 0
    BY <2>1
  <2>2. CASE n \in 1 .. m
    BY <2>2
  <2>3. n = 0 \/ n \in 1 .. m
    OBVIOUS
  <2> QED
    BY <2>1, <2>2, <2>3
<1> HIDE DEF e
<1>2. g = [n \in 0 .. m |-> e(n)]
  BY <1>1
<1> QED
  BY <1>2 DEF Selects, e

(* None of the positions, all, all but the first, or one. *)
LEMMA PositionsNone ==
  ASSUME NEW s, Len(s) \in Nat, NEW T, \A n \in 1 .. Len(s) : n \notin T
  PROVE  AtPositions(s, T) = << >>
<1> DEFINE g == [n \in 0 .. Len(s) |-> << >>]
<1>1. /\ g = [n \in 0 .. Len(s) |-> g[n]] /\ g[0] = << >>
      /\ g[Len(s)] = << >>
      /\ \A n \in 1 .. Len(s) : g[n] = << >> /\ g[n - 1] = << >>
  OBVIOUS
<1> HIDE DEF g
<1>2. Selects(g, s, T, Len(s))
  BY <1>1, SelectsWhen
<1> QED
  BY <1>1, <1>2, AtPositionsIs

LEMMA PositionsAll ==
  ASSUME NEW X, NEW s \in Seq(X), NEW T, \A n \in 1 .. Len(s) : n \in T
  PROVE  AtPositions(s, T) = s
<1> DEFINE g == [n \in 0 .. Len(s) |-> SubSeq(s, 1, n)]
<1>1. \A n \in 1 .. Len(s) : SubSeq(s, 1, n) = Append(SubSeq(s, 1, n - 1), s[n])
  OBVIOUS
<1>2. Len(s) \in Nat /\ SubSeq(s, 1, 0) = << >> /\ SubSeq(s, 1, Len(s)) = s
  OBVIOUS
<1>3. /\ g = [n \in 0 .. Len(s) |-> g[n]] /\ g[0] = << >> /\ g[Len(s)] = s
      /\ \A n \in 1 .. Len(s) : g[n] = Append(g[n - 1], s[n])
  <2>1. g = [n \in 0 .. Len(s) |-> g[n]]
    OBVIOUS
  <2>2. g[0] = << >> /\ g[Len(s)] = s
    BY <1>2
  <2>3. ASSUME NEW n \in 1 .. Len(s) PROVE g[n] = Append(g[n - 1], s[n])
    <3>1. n \in 0 .. Len(s) /\ n - 1 \in 0 .. Len(s)
      BY <1>2
    <3> QED
      BY <1>1, <3>1
  <2> HIDE DEF g
  <2> QED
    BY <2>1, <2>2, <2>3
<1> HIDE DEF g
<1>4. Selects(g, s, T, Len(s))
  BY <1>2, <1>3, SelectsWhen
<1> QED
  BY <1>2, <1>3, <1>4, AtPositionsIs

LEMMA PositionsTail ==
  ASSUME NEW X, NEW s \in Seq(X), s # << >>, NEW T, 1 \notin T,
         \A n \in 2 .. Len(s) : n \in T
  PROVE  AtPositions(s, T) = Tail(s)
<1> DEFINE g == [n \in 0 .. Len(s) |-> SubSeq(s, 2, n)]
<1>1. \A n \in 2 .. Len(s) : SubSeq(s, 2, n) = Append(SubSeq(s, 2, n - 1), s[n])
  OBVIOUS
<1>2. /\ Len(s) \in Nat /\ SubSeq(s, 2, Len(s)) = Tail(s)
      /\ SubSeq(s, 2, 0) = << >> /\ SubSeq(s, 2, 1) = << >>
  OBVIOUS
<1>3. /\ g = [n \in 0 .. Len(s) |-> g[n]] /\ g[0] = << >> /\ g[Len(s)] = Tail(s)
  BY <1>2
<1>4. Len(s) >= 1
  OBVIOUS
<1>5. 1 \in 0 .. Len(s) /\ g[1] = << >>
  BY <1>2, <1>4
<1>6. ASSUME NEW n \in 2 .. Len(s) PROVE g[n] = Append(g[n - 1], s[n])
  <2>1. n \in 0 .. Len(s) /\ n - 1 \in 0 .. Len(s)
    BY <1>2
  <2> QED
    BY <1>1, <2>1
<1> HIDE DEF g
<1>7. ASSUME NEW n \in 1 .. Len(s)
      PROVE  g[n] = IF n \in T THEN Append(g[n - 1], s[n]) ELSE g[n - 1]
  <2>1. CASE n = 1
    <3>1. n - 1 = 0
      BY <2>1
    <3> QED
      BY <1>3, <1>5, <2>1, <3>1
  <2>2. CASE n # 1
    <3>1. n \in 2 .. Len(s)
      BY <1>2, <2>2
    <3>2. n \in T
      BY <3>1
    <3> QED
      BY <1>6, <3>1, <3>2
  <2> QED
    BY <2>1, <2>2
<1>8. Selects(g, s, T, Len(s))
  BY <1>2, <1>3, <1>7, SelectsWhen
<1> QED
  BY <1>2, <1>3, <1>8, AtPositionsIs

LEMMA PositionsOne ==
  ASSUME NEW s, Len(s) \in Nat, NEW T, NEW m \in 1 .. Len(s),
         \A n \in 1 .. Len(s) : n \in T <=> n = m
  PROVE  AtPositions(s, T) = <<s[m]>>
<1> DEFINE g == [n \in 0 .. Len(s) |-> IF n < m THEN << >> ELSE <<s[m]>>]
<1>1. Append(<< >>, s[m]) = <<s[m]>>
  OBVIOUS
<1>2. /\ g = [n \in 0 .. Len(s) |-> g[n]] /\ g[0] = << >>
      /\ g[Len(s)] = <<s[m]>>
  OBVIOUS
<1>3. ASSUME NEW n \in 1 .. Len(s)
      PROVE  g[n] = IF n \in T THEN Append(g[n - 1], s[n]) ELSE g[n - 1]
  <2>1. CASE n = m
    <3>1. n \in T /\ g[n] = <<s[n]>> /\ g[n - 1] = << >>
      BY <2>1
    <3> QED
      BY <1>1, <2>1, <3>1
  <2>2. CASE n # m
    BY <2>2
  <2> QED
    BY <2>1, <2>2
<1> HIDE DEF g
<1>4. Selects(g, s, T, Len(s))
  BY <1>2, <1>3, SelectsWhen
<1> QED
  BY <1>2, <1>4, AtPositionsIs

(* The elements stay of their set, and new ones come at the end. *)
LEMMA PositionsType ==
  ASSUME NEW X, NEW s, Len(s) \in Nat, NEW T, \A n \in 1 .. Len(s) : n \in T => s[n] \in X
  PROVE  AtPositions(s, T) \in Seq(X)
<1>1. PICK g : Selects(g, s, T, Len(s))
  BY SelectsSome
<1> DEFINE S == {n \in Nat : n <= Len(s) => g[n] \in Seq(X)}
<1>2. 0 \in S
  <2>1. g[0] = << >>
    BY <1>1, SelectsHas
  <2>2. g[0] \in Seq(X)
    BY <2>1
  <2> QED
    BY <2>2
<1>3. ASSUME NEW n \in Nat, n \in S PROVE n + 1 \in S
  <2>1. SUFFICES ASSUME n + 1 <= Len(s) PROVE g[n + 1] \in Seq(X)
    OBVIOUS
  <2>2. g[n] \in Seq(X) /\ n + 1 \in 1 .. Len(s) /\ (n + 1) - 1 = n
    BY <1>3, <2>1
  <2>3. g[n + 1] = IF n + 1 \in T THEN Append(g[n], s[n + 1]) ELSE g[n]
    BY <1>1, <2>2, SelectsHas
  <2> QED
    BY <2>2, <2>3
<1> HIDE DEF S
<1>4. Nat \subseteq S
  BY <1>2, <1>3, Induction
<1> QED
  BY <1>1, <1>4, AtPositionsIs DEF S

LEMMA PositionsAppend ==
  ASSUME NEW X, NEW s \in Seq(X), NEW x \in X, NEW T, NEW U,
         \A n \in 1 .. Len(s) : n \in T <=> n \in U
  PROVE  AtPositions(Append(s, x), T) =
           IF Len(s) + 1 \in T THEN Append(AtPositions(s, U), x)
           ELSE AtPositions(s, U)
<1> DEFINE l == Len(s)
           a == Append(s, x)
<1>1. l \in Nat /\ Len(a) = l + 1 /\ a[l + 1] = x /\ \A n \in 1 .. l : a[n] = s[n]
  OBVIOUS
<1> HIDE DEF l, a
<1>2. PICK h : Selects(h, a, T, l + 1)
  <2>1. l + 1 \in Nat
    BY <1>1
  <2> QED
    BY <2>1, SelectsSome
<1>3. AtPositions(a, T) = h[l + 1]
  BY <1>1, <1>2, AtPositionsIs
<1>4. /\ h[0] = << >>
      /\ \A n \in 1 .. l + 1 : h[n] = IF n \in T THEN Append(h[n - 1], a[n]) ELSE h[n - 1]
  BY <1>1, <1>2, SelectsHas
<1> DEFINE g == [n \in 0 .. l |-> h[n]]
<1>5. Selects(g, s, U, l)
  <2>1. ASSUME NEW n \in 1 .. l
        PROVE  g[n] = IF n \in U THEN Append(g[n - 1], s[n]) ELSE g[n - 1]
    <3>1. /\ n \in 1 .. l + 1 /\ g[n] = h[n] /\ g[n - 1] = h[n - 1]
          /\ a[n] = s[n] /\ (n \in T <=> n \in U)
      BY <1>1, <2>1 DEF l
    <3> QED
      BY <1>4, <3>1
  <2>2. g = [n \in 0 .. l |-> g[n]] /\ g[0] = << >>
    BY <1>1, <1>4
  <2> QED
    BY <1>1, <2>1, <2>2, SelectsWhen
<1>6. AtPositions(s, U) = h[l]
  <2>1. g[l] = h[l]
    BY <1>1
  <2> QED
    BY <1>1, <1>5, <2>1, AtPositionsIs DEF l
<1>7. h[l + 1] = IF l + 1 \in T THEN Append(h[l], x) ELSE h[l]
  BY <1>1, <1>4
<1> QED
  BY <1>3, <1>6, <1>7 DEF l, a

----------------------------------------------------------------------------
(* The inductive invariant                                                 *)

Phases == {"unopened", "helo", "ready", "tick", "error", "silent", "closed"}

(* Frames of users are numbered from 1, those of scripts are 0. *)
User == Nat \ {0}
Wire(F, S) == Seq([frame : F, step : S])
Switch == [id : Nat, recv : [Port -> Seq(Nat)], send : [Port -> Seq(Nat)]]
Reply == {[status |-> 412], [status |-> 400]}
         \cup [status : {200}, frames : [Port -> Nat \cup {NoFrame}]]
Exchange == {None, HeloRequest} \cup [kind : {"hello"}, id : Nat]
  \cup [kind : {"tick"}, id : Nat, body : [Port -> User \cup {NoFrame}]]
  \cup [kind : {"tock"}, answer : Reply]

TypeOK ==
  /\ lastId \in Nat /\ sw \in Switch /\ up \in BOOLEAN
  /\ phase \in [Page -> Phases]
  /\ switchId \in [Page -> Nat]
  /\ sendQueue \in [Page -> [Port -> Seq(User)]]
  /\ out \in [Page -> [Port -> Wire(User, 1 .. STEPS)]]
  /\ in \in [Page -> [Port -> Wire(Nat, 0 .. STEPS)]]
  /\ chan \in [Page -> Exchange]
  /\ clicks \in Nat /\ scripts \in Nat /\ stops \in Nat
  /\ taken \in [Port -> Seq(Nat)] /\ queued \in [Port -> Seq(Nat)]
  /\ put \in [Page -> [Port -> Seq(Nat)]]
  /\ got \in [Page -> [Port -> Seq(Nat)]]

(* What a page may have under way in each phase. *)
Orderly(p) ==
  /\ phase[p] \in {"unopened", "ready", "error", "silent"} => chan[p] = None
  /\ phase[p] = "helo" => chan[p].kind \in {"helo", "hello"}
  /\ phase[p] = "tick" =>
       \/ chan[p].kind = "tick" /\ chan[p].id = switchId[p]
       \/ chan[p].kind = "tock"
  /\ phase[p] = "closed" => chan[p].kind \in {"none", "helo", "tick"}
  /\ phase[p] \in {"unopened", "helo"} =>
       out[p] = Empty /\ in[p] = Empty /\ put[p] = Empty /\ got[p] = Empty
Discipline == \A p \in Page : Orderly(p)

(* The oldest frame of a wire is the first and farthest along. *)
Falling(w) == \A m, n \in 1 .. Len(w) : m < n => w[n].step < w[m].step
Rising(w)  == \A m, n \in 1 .. Len(w) : m < n => w[m].step < w[n].step
InLine(p, k) ==
  /\ Falling(out[p][k]) /\ Rising(in[p][k])
  /\ phase[p] = "tick" => \A n \in 1 .. Len(in[p][k]) : in[p][k][n].step < STEPS
WiresInv == \A p \in Page, k \in Port : InLine(p, k)

(* The switch a page drives, or the one its exchange is about. *)
HasId(p) == Ticking(p) \/ chan[p].kind \in {"hello", "tick"}
IdOf(p) == IF chan[p].kind \in {"hello", "tick"} THEN chan[p].id
           ELSE switchId[p]
IdsInv ==
  /\ sw.id = lastId
  /\ stops = 0 =>
       /\ \A p \in Page : HasId(p) => IdOf(p) \in 1 .. lastId
       /\ \A p, q \in Page : HasId(p) /\ HasId(q) /\ IdOf(p) = IdOf(q)
                             => p = q

(* The current page, from the answer to its /helo on. *)
Owns(p) == \/ Owner(p)
           \/ phase[p] = "helo" /\ chan[p].kind = "hello" /\ chan[p].id = sw.id
UpKept(p, k) ==
  put[p][k] = OfPages(taken[k] \o sw.recv[k])
              \o InRequest(p, k) \o Frames(out[p][k])
DownKept(p, k) ==
  queued[k] = got[p][k] \o Frames(Off(in[p][k], 0))
              \o InAnswer(p, k) \o sw.send[k]
UpInv ==
  stops = 0 => \A p \in Page, k \in Port : Owns(p) => UpKept(p, k)
DownInv ==
  stops = 0 => \A p \in Page, k \in Port : Owns(p) => DownKept(p, k)

----------------------------------------------------------------------------
(* Wires                                                                   *)

LEMMA WireIs ==
  ASSUME NEW F, NEW S, NEW w \in Wire(F, S)
  PROVE  /\ w \in Seq([frame : F, step : S])
         /\ Len(w) \in Nat /\ DOMAIN w = 1 .. Len(w)
         /\ \A n \in 1 .. Len(w) :
              /\ w[n] \in [frame : F, step : S]
              /\ w[n].frame \in F /\ w[n].step \in S
<1>1. w \in Seq([frame : F, step : S])
  BY DEF Wire
<1>2. Len(w) \in Nat /\ DOMAIN w = 1 .. Len(w)
  BY <1>1
<1>3. ASSUME NEW n \in 1 .. Len(w)
      PROVE  w[n] \in [frame : F, step : S] /\ w[n].frame \in F /\ w[n].step \in S
  <2>1. w[n] \in [frame : F, step : S]
    BY <1>1, ElementOfSeq
  <2> QED
    BY <2>1
<1> QED
  BY <1>1, <1>2, <1>3

LEMMA FramesOf ==
  ASSUME NEW F, NEW S, NEW w \in Wire(F, S)
  PROVE  /\ Frames(w) \in Seq(F) /\ Len(Frames(w)) = Len(w)
         /\ \A n \in 1 .. Len(w) : Frames(w)[n] = w[n].frame
<1>1. Len(w) \in Nat /\ DOMAIN w = 1 .. Len(w)
      /\ \A n \in 1 .. Len(w) : w[n].frame \in F
  BY WireIs
<1>2. Frames(w) = [n \in 1 .. Len(w) |-> w[n].frame]
  BY <1>1 DEF Frames
<1>3. [n \in 1 .. Len(w) |-> w[n].frame] \in Seq(F)
  BY <1>1
<1> QED
  BY <1>1, <1>2, <1>3

LEMMA FramesConcat ==
  ASSUME NEW F, NEW S, NEW v \in Wire(F, S), NEW w \in Wire(F, S)
  PROVE  Frames(v \o w) = Frames(v) \o Frames(w)
<1>1. /\ v \o w \in Wire(F, S) /\ Len(v) \in Nat /\ Len(w) \in Nat
      /\ Len(v \o w) = Len(v) + Len(w)
      /\ \A n \in 1 .. Len(v) + Len(w) :
           (v \o w)[n] = IF n <= Len(v) THEN v[n] ELSE w[n - Len(v)]
  BY DEF Wire
<1>2. /\ Frames(v) \in Seq(F) /\ Frames(w) \in Seq(F)
      /\ Frames(v \o w) \in Seq(F)
      /\ Len(Frames(v)) = Len(v) /\ Len(Frames(w)) = Len(w)
      /\ Len(Frames(v \o w)) = Len(v) + Len(w)
  BY <1>1, FramesOf
<1>3. ASSUME NEW n \in 1 .. Len(v) + Len(w)
      PROVE  Frames(v \o w)[n] = (Frames(v) \o Frames(w))[n]
  <2>1. Frames(v \o w)[n] = (v \o w)[n].frame
    BY <1>1, FramesOf
  <2>2. (Frames(v) \o Frames(w))[n]
          = IF n <= Len(v) THEN Frames(v)[n] ELSE Frames(w)[n - Len(v)]
    BY <1>1, <1>2
  <2>3. CASE n <= Len(v)
    <3>1. n \in 1 .. Len(v)
      BY <1>1, <2>3
    <3>2. Frames(v)[n] = v[n].frame
      BY <3>1, FramesOf
    <3> QED
      BY <1>1, <2>1, <2>2, <2>3, <3>2
  <2>4. CASE ~(n <= Len(v))
    <3>1. n - Len(v) \in 1 .. Len(w)
      BY <1>1, <2>4
    <3>2. Frames(w)[n - Len(v)] = w[n - Len(v)].frame
      BY <3>1, FramesOf
    <3> QED
      BY <1>1, <2>1, <2>2, <2>4, <3>2
  <2> QED
    BY <2>3, <2>4
<1>4. Frames(v) \o Frames(w) \in Seq(F)
      /\ Len(Frames(v) \o Frames(w)) = Len(v) + Len(w)
  BY <1>2
<1> QED
  BY <1>2, <1>3, <1>4, SeqEqual

LEMMA FramesAppend ==
  ASSUME NEW F, NEW S, NEW w \in Wire(F, S), NEW x \in [frame : F, step : S]
  PROVE  Frames(Append(w, x)) = Frames(w) \o <<x.frame>>
<1>1. <<x>> \in Wire(F, S) /\ Append(w, x) = w \o <<x>>
  BY DEF Wire
<1>2. Frames(<<x>>) = <<x.frame>>
  <2>1. Frames(<<x>>) \in Seq(F) /\ Len(Frames(<<x>>)) = 1
        /\ Frames(<<x>>)[1] = x.frame
    BY <1>1, FramesOf
  <2> QED
    BY <2>1
<1>3. \A v \in Wire(F, S) : Frames(w \o v) = Frames(w) \o Frames(v)
  BY FramesConcat
<1> QED
  BY <1>1, <1>2, <1>3

(* What leaves a wire, and what stays on it, when only its first frame can *)
(* be at step i.                                                           *)
LEMMA OnOff ==
  ASSUME NEW F, NEW S, NEW w \in Wire(F, S), NEW i,
         \A n \in 2 .. Len(w) : w[n].step # i
  PROVE  \/ /\ w # << >> /\ w[1].step = i
            /\ On(w, i) = <<w[1]>> /\ Off(w, i) = Tail(w)
         \/ /\ w = << >> \/ w[1].step # i
            /\ On(w, i) = << >> /\ Off(w, i) = w
<1> DEFINE at == {n \in DOMAIN w : w[n].step = i}
           other == {n \in DOMAIN w : w[n].step # i}
<1>1. /\ w \in Seq([frame : F, step : S])
      /\ Len(w) \in Nat /\ DOMAIN w = 1 .. Len(w)
      /\ w # << >> => 1 \in 1 .. Len(w)
      /\ w = << >> => Len(w) = 0
  <2>1. w \in Seq([frame : F, step : S])
    BY WireIs
  <2> QED
    BY <2>1
<1>2. CASE w # << >> /\ w[1].step = i
  <2>1. \A n \in 1 .. Len(w) : n \in at <=> n = 1
    BY <1>1, <1>2
  <2>2. 1 \notin other /\ \A n \in 2 .. Len(w) : n \in other
    BY <1>1, <1>2
  <2> HIDE DEF at, other
  <2>3. AtPositions(w, at) = <<w[1]>>
    BY <1>1, <1>2, <2>1, PositionsOne
  <2>4. AtPositions(w, other) = Tail(w)
    BY <1>1, <1>2, <2>2, PositionsTail
  <2> QED
    BY <1>2, <2>3, <2>4 DEF On, Off, at, other
<1>3. CASE w = << >> \/ w[1].step # i
  <2>1. \A n \in 1 .. Len(w) : n \notin at /\ n \in other
    <3>1. SUFFICES ASSUME NEW n \in 1 .. Len(w) PROVE w[n].step # i
      BY <1>1
    <3>2. n = 1 \/ n \in 2 .. Len(w)
      BY <1>1
    <3>3. w # << >>
      BY <1>1
    <3> QED
      BY <1>3, <3>2, <3>3
  <2> HIDE DEF at, other
  <2>2. AtPositions(w, at) = << >>
    BY <1>1, <2>1, PositionsNone
  <2>3. AtPositions(w, other) = w
    BY <1>1, <2>1, PositionsAll
  <2> QED
    BY <1>3, <2>2, <2>3 DEF On, Off, at, other
<1> QED
  BY <1>2, <1>3

LEMMA OnOffType ==
  ASSUME NEW F, NEW S, NEW w \in Wire(F, S), NEW i
  PROVE  On(w, i) \in Wire(F, S) /\ Off(w, i) \in Wire(F, S \ {i})
<1>1. Len(w) \in Nat /\ DOMAIN w = 1 .. Len(w)
      /\ \A n \in 1 .. Len(w) : w[n] \in [frame : F, step : S]
  BY WireIs
<1>2. On(w, i) \in Seq([frame : F, step : S])
  BY <1>1, PositionsType DEF On
<1>3. Off(w, i) \in Seq([frame : F, step : S \ {i}])
  <2> DEFINE other == {n \in DOMAIN w : w[n].step # i}
  <2>1. \A n \in 1 .. Len(w) : n \in other => w[n] \in [frame : F, step : S \ {i}]
    BY <1>1
  <2> HIDE DEF other
  <2>2. AtPositions(w, other) \in Seq([frame : F, step : S \ {i}])
    BY <1>1, <2>1, PositionsType
  <2> QED
    BY <2>2 DEF Off, other
<1> QED
  BY <1>2, <1>3 DEF Wire

----------------------------------------------------------------------------
(* The switch                                                              *)

Body == [Port -> Nat \cup {NoFrame, Malformed}]

LEMMA PortsAre == Port \subseteq Nat /\ NUM_PORTS \in Nat \ {0} /\ 0 \in Port
BY ServerAssumption DEF Port

LEMMA StuffType ==
  ASSUME NEW s \in Switch, NEW body \in Body
  PROVE  /\ StuffRecvQueue(s, body) \in Switch
         /\ StuffRecvQueue(s, body).id = s.id
         /\ StuffRecvQueue(s, body).send = s.send
         /\ \A k \in Port :
              StuffRecvQueue(s, body).recv[k] =
                IF k \in ParsedPorts(body) /\ body[k] # NoFrame
                THEN Append(s.recv[k], body[k]) ELSE s.recv[k]
<1> DEFINE q(k) == IF k \in ParsedPorts(body) /\ body[k] # NoFrame
                   THEN Append(s.recv[k], body[k]) ELSE s.recv[k]
<1>1. ASSUME NEW k \in Port PROVE q(k) \in Seq(Nat)
  <2>1. s.recv[k] \in Seq(Nat)
    BY DEF Switch
  <2>2. k \in ParsedPorts(body) => body[k] # Malformed
    <3>1. k \in 0 .. k
      BY PortsAre
    <3> QED
      BY <3>1 DEF ParsedPorts
  <2>3. CASE k \in ParsedPorts(body) /\ body[k] # NoFrame
    <3>1. body[k] \in Nat
      BY <2>2, <2>3 DEF Body
    <3> QED
      BY <2>1, <2>3, <3>1
  <2> QED
    BY <2>1, <2>3
<1>2. StuffRecvQueue(s, body) = [s EXCEPT !.recv = [k \in Port |-> q(k)]]
  BY DEF StuffRecvQueue
<1> HIDE DEF q
<1>3. [k \in Port |-> q(k)] \in [Port -> Seq(Nat)]
  BY <1>1
<1>4. [s EXCEPT !.recv = [k \in Port |-> q(k)]] \in Switch
      /\ [s EXCEPT !.recv = [k \in Port |-> q(k)]].id = s.id
      /\ [s EXCEPT !.recv = [k \in Port |-> q(k)]].send = s.send
      /\ [s EXCEPT !.recv = [k \in Port |-> q(k)]].recv = [k \in Port |-> q(k)]
  BY <1>3 DEF Switch
<1> QED
  BY <1>2, <1>4 DEF q

LEMMA QueuedType ==
  ASSUME NEW s \in Switch, NEW fw, NEW k
  PROVE  QueuedFor(s, fw, k) \in Seq(Nat)
<1> DEFINE ports == [n \in 1 .. NUM_PORTS |-> n - 1]
           here == {n \in 1 .. NUM_PORTS : n - 1 \in TakenFrom(s) /\ k \in fw[n - 1]}
           from == AtPositions(ports, here)
<1>1. Len(ports) = NUM_PORTS /\ \A n \in 1 .. NUM_PORTS : ports[n] = n - 1
  BY PortsAre
<1>2. from \in Seq(TakenFrom(s))
  <2>1. \A n \in 1 .. Len(ports) : n \in here => ports[n] \in TakenFrom(s)
    BY <1>1
  <2>2. Len(ports) \in Nat
    BY <1>1, PortsAre
  <2> HIDE DEF ports, here
  <2> QED
    BY <2>1, <2>2, PositionsType
<1>3. QueuedFor(s, fw, k) = [n \in DOMAIN from |-> Head(s.recv[from[n]])]
  BY DEF QueuedFor
<1> HIDE DEF from
<1>4. Len(from) \in Nat /\ DOMAIN from = 1 .. Len(from)
  BY <1>2
<1>5. ASSUME NEW n \in 1 .. Len(from) PROVE Head(s.recv[from[n]]) \in Nat
  <2>1. from[n] \in TakenFrom(s)
    BY <1>2, ElementOfSeq
  <2>2. s.recv[from[n]] \in Seq(Nat) /\ s.recv[from[n]] # << >>
    BY <2>1 DEF TakenFrom, Switch
  <2> QED
    BY <2>2, HeadTailProperties
<1>6. [n \in 1 .. Len(from) |-> Head(s.recv[from[n]])] \in Seq(Nat)
  BY <1>4, <1>5
<1> QED
  BY <1>3, <1>4, <1>6

LEMMA ProcessType ==
  ASSUME NEW s \in Switch, NEW fw
  PROVE  /\ ProcessFrames(s, fw) \in Switch
         /\ ProcessFrames(s, fw).id = s.id
         /\ \A k \in Port :
              /\ ProcessFrames(s, fw).recv[k] =
                   IF s.recv[k] = << >> THEN << >> ELSE Tail(s.recv[k])
              /\ ProcessFrames(s, fw).send[k] = s.send[k] \o QueuedFor(s, fw, k)
<1> DEFINE r == [p \in Port |-> IF p \in TakenFrom(s)
                                THEN Tail(s.recv[p]) ELSE s.recv[p]]
           q == [k \in Port |-> s.send[k] \o QueuedFor(s, fw, k)]
<1>1. \A k \in Port : s.recv[k] \in Seq(Nat) /\ s.send[k] \in Seq(Nat)
  BY DEF Switch
<1>2. ASSUME NEW p \in Port
      PROVE  /\ r[p] = IF s.recv[p] = << >> THEN << >> ELSE Tail(s.recv[p])
             /\ r[p] \in Seq(Nat)
  BY <1>1 DEF TakenFrom
<1>3. ASSUME NEW k \in Port
      PROVE  q[k] = s.send[k] \o QueuedFor(s, fw, k) /\ q[k] \in Seq(Nat)
  <2>1. QueuedFor(s, fw, k) \in Seq(Nat)
    BY QueuedType
  <2> QED
    BY <1>1, <2>1
<1>4. r \in [Port -> Seq(Nat)] /\ q \in [Port -> Seq(Nat)]
  BY <1>2, <1>3
<1>5. ProcessFrames(s, fw) = [s EXCEPT !.recv = r, !.send = q]
  BY DEF ProcessFrames
<1> HIDE DEF r, q
<1>6. /\ [s EXCEPT !.recv = r, !.send = q] \in Switch
      /\ [s EXCEPT !.recv = r, !.send = q].id = s.id
      /\ [s EXCEPT !.recv = r, !.send = q].recv = r
      /\ [s EXCEPT !.recv = r, !.send = q].send = q
  BY <1>4 DEF Switch
<1> QED
  BY <1>2, <1>3, <1>5, <1>6

LEMMA PopType ==
  ASSUME NEW s \in Switch
  PROVE  /\ PopSendQueues(s) \in Switch
         /\ PopSendQueues(s).id = s.id
         /\ PopSendQueues(s).recv = s.recv
         /\ Popped(s) \in [Port -> Nat \cup {NoFrame}]
         /\ \A k \in Port :
              s.send[k] = (IF Popped(s)[k] = NoFrame THEN << >> ELSE <<Popped(s)[k]>>)
                          \o PopSendQueues(s).send[k]
<1> DEFINE q == [k \in Port |-> IF s.send[k] = << >> THEN << >>
                                ELSE Tail(s.send[k])]
<1>1. \A k \in Port : s.send[k] \in Seq(Nat)
  BY DEF Switch
<1>2. PopSendQueues(s) = [s EXCEPT !.send = q]
  BY DEF PopSendQueues
<1>3. ASSUME NEW k \in Port
      PROVE  /\ q[k] \in Seq(Nat) /\ Popped(s)[k] \in Nat \cup {NoFrame}
             /\ s.send[k] = (IF Popped(s)[k] = NoFrame THEN << >>
                             ELSE <<Popped(s)[k]>>) \o q[k]
  <2>1. CASE s.send[k] = << >>
    <3>1. q[k] = << >> /\ Popped(s)[k] = NoFrame
      BY <2>1 DEF Popped
    <3> QED
      BY <2>1, <3>1
  <2>2. CASE s.send[k] # << >>
    <3>1. q[k] = Tail(s.send[k]) /\ Popped(s)[k] = Head(s.send[k])
      BY <2>2 DEF Popped
    <3>2. /\ Head(s.send[k]) \in Nat /\ Tail(s.send[k]) \in Seq(Nat)
          /\ s.send[k] = <<Head(s.send[k])>> \o Tail(s.send[k])
      BY <1>1, <2>2
    <3> QED
      BY <3>1, <3>2, SimulatorAssumption
  <2> QED
    BY <2>1, <2>2
<1>4. q \in [Port -> Seq(Nat)] /\ Popped(s) \in [Port -> Nat \cup {NoFrame}]
  <2>1. Popped(s) = [k \in Port |-> Popped(s)[k]]
    BY DEF Popped
  <2> QED
    BY <1>3, <2>1
<1> HIDE DEF q
<1>5. /\ [s EXCEPT !.send = q] \in Switch
      /\ [s EXCEPT !.send = q].id = s.id
      /\ [s EXCEPT !.send = q].recv = s.recv
      /\ [s EXCEPT !.send = q].send = q
  BY <1>4 DEF Switch
<1> QED
  BY <1>2, <1>3, <1>4, <1>5

LEMMA TickType ==
  ASSUME NEW i, NEW body \in Body, NEW fw, sw \in Switch, Tick(i, body, fw)
  PROVE  sw' \in Switch /\ sw'.id = sw.id /\ TickAnswer(i, body, fw) \in Reply
<1> DEFINE stuffed == StuffRecvQueue(sw, body)
           served == ProcessFrames(stuffed, fw)
<1>1. stuffed \in Switch /\ stuffed.id = sw.id
  BY StuffType
<1> HIDE DEF stuffed
<1>2. served \in Switch /\ served.id = sw.id
  BY <1>1, ProcessType
<1>3. served = Served(body, fw)
  BY DEF Served, stuffed
<1> HIDE DEF served
<1>4. /\ PopSendQueues(served) \in Switch /\ PopSendQueues(served).id = sw.id
      /\ Popped(served) \in [Port -> Nat \cup {NoFrame}]
  BY <1>2, PopType
<1>5. sw' \in Switch /\ sw'.id = sw.id
  BY <1>1, <1>3, <1>4 DEF Tick, stuffed
<1>6. TickAnswer(i, body, fw) \in Reply
  BY <1>3, <1>4 DEF TickAnswer, Reply
<1> QED
  BY <1>5, <1>6

LEMMA ExchangeKinds ==
  ASSUME NEW c \in Exchange
  PROVE  /\ c.kind \in {"none", "helo", "hello", "tick", "tock"}
         /\ c.kind = "hello" => c.id \in Nat /\ c = HeloAnswer(c.id)
         /\ c.kind = "tick" => /\ c.id \in Nat
                               /\ c.body \in [Port -> User \cup {NoFrame}]
         /\ c.kind = "tock" => c.answer \in Reply
BY DEF Exchange, None, HeloRequest, HeloAnswer

LEMMA ExchangeHas ==
  /\ None \in Exchange /\ HeloRequest \in Exchange
  /\ \A i \in Nat : HeloAnswer(i) \in Exchange
  /\ \A i \in Nat, body \in [Port -> User \cup {NoFrame}] :
       TickRequest(i, body) \in Exchange
  /\ \A a \in Reply : TickReply(a) \in Exchange
BY DEF Exchange, HeloAnswer, TickRequest, TickReply

LEMMA FreshType ==
  ASSUME NEW i \in Nat
  PROVE  FreshSwitch(i) \in Switch /\ FreshSwitch(i).id = i
BY DEF FreshSwitch, Switch

(* A tick of a page is never malformed. *)
LEMMA PagesParse ==
  ASSUME NEW body \in [Port -> User \cup {NoFrame}]
  PROVE  body \in Body /\ Parses(body) /\ ParsedPorts(body) = Port
<1>1. body \in Body
  BY DEF Body, User
<1>2. \A j \in Port : body[j] # Malformed
  BY SimulatorAssumption DEF User
<1>3. \A k \in Port : \A j \in 0 .. k : j \in Port
  BY PortsAre DEF Port
<1> QED
  BY <1>1, <1>2, <1>3 DEF Parses, ParsedPorts

LEMMA ScriptBody ==
  ASSUME NEW k \in Port
  PROVE  LET body == [j \in Port |-> IF j < k THEN 0 ELSE Malformed]
         IN  body \in Body /\ ~Parses(body)
<1> DEFINE body == [j \in Port |-> IF j < k THEN 0 ELSE Malformed]
<1>1. body \in Body
  BY DEF Body
<1>2. k \in 0 .. k /\ body[k] = Malformed
  BY PortsAre
<1> QED
  BY <1>1, <1>2 DEF Parses, ParsedPorts

(* The pieces of a tick of the update loop. *)
LEMMA MovedType ==
  ASSUME TypeOK, NEW p \in Page, NEW k \in Port
  PROVE  /\ NextFrame(p, k) \in Wire(User, 1 .. STEPS)
         /\ MovedOut(p, k) \in Wire(User, 1 .. STEPS)
         /\ MovedIn(p, k) \in Wire(Nat, 0 .. STEPS)
         /\ Impacting(p, k) \in User \cup {NoFrame}
         /\ Arriving(p, k) \in Seq(Nat)
         /\ AfterPop(sendQueue[p][k]) \in Seq(User)
<1>1. /\ out[p][k] \in Wire(User, 1 .. STEPS)
      /\ in[p][k] \in Wire(Nat, 0 .. STEPS)
      /\ sendQueue[p][k] \in Seq(User)
      /\ STEPS \in Nat \ {0}
  BY SimulatorAssumption DEF TypeOK
<1>2. NextFrame(p, k) \in Wire(User, 1 .. STEPS)
  <2>1. sendQueue[p][k] # << >> => Last(sendQueue[p][k]) \in User
    BY <1>1 DEF Last
  <2> DEFINE X == [frame : User, step : 1 .. STEPS]
             x == [frame |-> Last(sendQueue[p][k]), step |-> 1]
  <2>2. sendQueue[p][k] # << >> => x \in X
    BY <1>1, <2>1
  <2>3. NextFrame(p, k) = IF sendQueue[p][k] = << >> THEN << >> ELSE <<x>>
    BY DEF NextFrame
  <2> HIDE DEF X, x
  <2>4. NextFrame(p, k) \in Seq(X)
    BY <2>2, <2>3
  <2> QED
    BY <2>4 DEF X, Wire
<1>3. MovedOut(p, k) \in Wire(User, 1 .. STEPS)
  <2> DEFINE on == Off(out[p][k], STEPS)
             moved == [n \in DOMAIN on |-> [on[n] EXCEPT !.step = @ + 1]]
  <2>1. on \in Wire(User, (1 .. STEPS) \ {STEPS})
    BY <1>1, OnOffType
  <2>2. MovedOut(p, k) = moved \o NextFrame(p, k)
    BY DEF MovedOut
  <2> HIDE DEF on
  <2>3. /\ Len(on) \in Nat /\ DOMAIN on = 1 .. Len(on)
        /\ \A n \in 1 .. Len(on) :
             /\ on[n] \in [frame : User, step : (1 .. STEPS) \ {STEPS}]
             /\ on[n].step \in (1 .. STEPS) \ {STEPS}
    <3> DEFINE S == (1 .. STEPS) \ {STEPS}
    <3> HIDE DEF S
    <3>1. on \in Wire(User, S)
      BY <2>1 DEF S
    <3>2. /\ Len(on) \in Nat /\ DOMAIN on = 1 .. Len(on)
          /\ \A n \in 1 .. Len(on) :
               on[n] \in [frame : User, step : S] /\ on[n].step \in S
      BY <3>1, WireIs
    <3> QED
      BY <3>2 DEF S
  <2>4. ASSUME NEW n \in 1 .. Len(on)
        PROVE  [on[n] EXCEPT !.step = @ + 1] \in [frame : User, step : 1 .. STEPS]
    <3>1. on[n].step + 1 \in 1 .. STEPS
      BY <1>1, <2>3
    <3> QED
      BY <2>3, <3>1
  <2>5. moved \in Seq([frame : User, step : 1 .. STEPS])
    BY <2>3, <2>4
  <2> HIDE DEF moved
  <2> QED
    BY <1>2, <2>2, <2>5, ConcatProperties DEF Wire
<1>4. MovedIn(p, k) \in Wire(Nat, 0 .. STEPS)
  <2> DEFINE on == Off(in[p][k], 0)
  <2>1. on \in Wire(Nat, (0 .. STEPS) \ {0})
    BY <1>1, OnOffType
  <2>2. MovedIn(p, k) = [n \in DOMAIN on |-> [on[n] EXCEPT !.step = @ - 1]]
    BY DEF MovedIn
  <2> HIDE DEF on
  <2>3. /\ Len(on) \in Nat /\ DOMAIN on = 1 .. Len(on)
        /\ \A n \in 1 .. Len(on) :
             /\ on[n] \in [frame : Nat, step : (0 .. STEPS) \ {0}]
             /\ on[n].step \in (0 .. STEPS) \ {0}
    <3> DEFINE S == (0 .. STEPS) \ {0}
    <3> HIDE DEF S
    <3>1. on \in Wire(Nat, S)
      BY <2>1 DEF S
    <3>2. /\ Len(on) \in Nat /\ DOMAIN on = 1 .. Len(on)
          /\ \A n \in 1 .. Len(on) :
               on[n] \in [frame : Nat, step : S] /\ on[n].step \in S
      BY <3>1, WireIs
    <3> QED
      BY <3>2 DEF S
  <2>4. ASSUME NEW n \in 1 .. Len(on)
        PROVE  [on[n] EXCEPT !.step = @ - 1] \in [frame : Nat, step : 0 .. STEPS]
    <3>1. on[n].step - 1 \in 0 .. STEPS
      BY <1>1, <2>3
    <3> QED
      BY <2>3, <3>1
  <2> QED
    BY <2>2, <2>3, <2>4 DEF Wire
<1>5. Impacting(p, k) \in User \cup {NoFrame}
  <2> DEFINE there == On(out[p][k], STEPS)
  <2>1. there \in Wire(User, 1 .. STEPS)
    BY <1>1, OnOffType
  <2>2. Impacting(p, k) = IF there = << >> THEN NoFrame ELSE Last(there).frame
    BY DEF Impacting
  <2> HIDE DEF there
  <2>3. there # << >> => Len(there) \in 1 .. Len(there)
    BY <2>1 DEF Wire
  <2>4. there # << >> => Last(there).frame \in User
    BY <2>1, <2>3, WireIs DEF Last
  <2> QED
    BY <2>2, <2>4
<1>6. Arriving(p, k) \in Seq(Nat)
  <2>1. On(in[p][k], 1) \in Wire(Nat, 0 .. STEPS)
    BY <1>1, OnOffType
  <2> QED
    BY <2>1, FramesOf DEF Arriving
<1>7. AfterPop(sendQueue[p][k]) \in Seq(User)
  BY <1>1 DEF AfterPop, Front
<1> QED
  BY <1>2, <1>3, <1>4, <1>5, <1>6, <1>7

----------------------------------------------------------------------------
(* Types                                                                   *)

LEMMA EmptyType == Empty \in [Port -> Seq(Nat)] /\ \A F, S : Empty \in [Port -> Wire(F, S)]
BY DEF Empty, Wire

LEMMA PhasesAre ==
  {"unopened", "helo", "ready", "tick", "error", "silent", "closed"}
    \subseteq Phases
BY DEF Phases

LEMMA AnswerType ==
  ASSUME TypeOK, NEW p \in Page, NEW a \in Exchange, Answer(p, a)
  PROVE  chan' \in [Page -> Exchange]
BY ExchangeHas DEF Answer, TypeOK

LEMMA SendTickType ==
  ASSUME TypeOK, NEW p \in Page, SendTick(p)
  PROVE  TypeOK'
<1>1. ASSUME NEW k \in Port
      PROVE  /\ MovedOut(p, k) \in Wire(User, 1 .. STEPS)
             /\ MovedIn(p, k) \in Wire(Nat, 0 .. STEPS)
             /\ AfterPop(sendQueue[p][k]) \in Seq(User)
             /\ Impacting(p, k) \in User \cup {NoFrame}
             /\ put[p][k] \o Frames(NextFrame(p, k)) \in Seq(Nat)
             /\ got[p][k] \o Arriving(p, k) \in Seq(Nat)
  <2>1. /\ NextFrame(p, k) \in Wire(User, 1 .. STEPS)
        /\ MovedOut(p, k) \in Wire(User, 1 .. STEPS)
        /\ MovedIn(p, k) \in Wire(Nat, 0 .. STEPS)
        /\ Impacting(p, k) \in User \cup {NoFrame}
        /\ Arriving(p, k) \in Seq(Nat)
        /\ AfterPop(sendQueue[p][k]) \in Seq(User)
    BY MovedType
  <2>2. Frames(NextFrame(p, k)) \in Seq(User)
    BY <2>1, FramesOf
  <2>3. Frames(NextFrame(p, k)) \in Seq(Nat)
    BY <2>2, SeqMonotonic DEF User
  <2>4. put[p][k] \in Seq(Nat) /\ got[p][k] \in Seq(Nat)
    BY DEF TypeOK
  <2>5. put[p][k] \o Frames(NextFrame(p, k)) \in Seq(Nat)
        /\ got[p][k] \o Arriving(p, k) \in Seq(Nat)
    BY <2>1, <2>3, <2>4
  <2> QED
    BY <2>1, <2>5
<1>2. /\ out' \in [Page -> [Port -> Wire(User, 1 .. STEPS)]]
      /\ in' \in [Page -> [Port -> Wire(Nat, 0 .. STEPS)]]
  BY <1>1 DEF SendTick, TypeOK
<1>3. /\ sendQueue' \in [Page -> [Port -> Seq(User)]]
      /\ put' \in [Page -> [Port -> Seq(Nat)]]
      /\ got' \in [Page -> [Port -> Seq(Nat)]]
  BY <1>1 DEF SendTick, TypeOK
<1>4. chan' \in [Page -> Exchange]
  <2>1. [k \in Port |-> Impacting(p, k)] \in [Port -> User \cup {NoFrame}]
    BY <1>1
  <2>2. switchId[p] \in Nat
    BY DEF TypeOK
  <2>3. TickRequest(switchId[p], [k \in Port |-> Impacting(p, k)]) \in Exchange
    BY <2>1, <2>2, ExchangeHas
  <2> QED
    BY <2>3 DEF SendTick, TypeOK
<1>5. phase' \in [Page -> Phases]
  <2>1. \/ phase' = [phase EXCEPT ![p] = "tick"]
        \/ phase' = [phase EXCEPT ![p] = "error"]
    BY DEF SendTick
  <2> QED
    BY <2>1, PhasesAre DEF TypeOK
<1> QED
  BY <1>2, <1>3, <1>4, <1>5 DEF SendTick, TypeOK

LEMMA OpenType ==
  ASSUME TypeOK, NEW p \in Page, Open(p)
  PROVE  TypeOK'
BY ExchangeHas, PhasesAre DEF Open, TypeOK, history

LEMMA StartedType ==
  ASSUME TypeOK, NEW p \in Page, Started(p)
  PROVE  TypeOK'
<1>1. chan[p].id \in Nat
  <2>1. chan[p] \in Exchange /\ chan[p].kind = "hello"
    BY DEF Started, TypeOK
  <2> QED
    BY <2>1, ExchangeKinds
<1> QED
  BY <1>1, ExchangeHas, PhasesAre DEF Started, TypeOK, history

LEMMA ReceiveType ==
  ASSUME TypeOK, NEW p \in Page, Receive(p)
  PROVE  TypeOK'
<1> DEFINE a == chan[p].answer
           Added(k) == IF a.frames[k] = NoFrame THEN in[p][k]
                       ELSE Append(in[p][k],
                                   [frame |-> a.frames[k], step |-> STEPS])
<1>1. a \in Reply
  <2>1. chan[p] \in Exchange /\ chan[p].kind = "tock"
    BY DEF Receive, TypeOK
  <2> QED
    BY <2>1, ExchangeKinds
<1>2. ASSUME a.status = 200, NEW k \in Port
      PROVE  Added(k) \in Wire(Nat, 0 .. STEPS)
  <2>1. a.frames[k] \in Nat \cup {NoFrame}
    BY <1>1, <1>2 DEF Reply
  <2>2. in[p][k] \in Seq([frame : Nat, step : 0 .. STEPS])
    BY DEF TypeOK, Wire
  <2>3. a.frames[k] # NoFrame =>
          [frame |-> a.frames[k], step |-> STEPS] \in [frame : Nat, step : 0 .. STEPS]
    BY <2>1, SimulatorAssumption
  <2> DEFINE X == [frame : Nat, step : 0 .. STEPS]
             x == [frame |-> a.frames[k], step |-> STEPS]
  <2>4. in[p][k] \in Seq(X) /\ (a.frames[k] # NoFrame => x \in X)
    BY <2>2, <2>3
  <2>5. Added(k) = IF a.frames[k] = NoFrame THEN in[p][k] ELSE Append(in[p][k], x)
    OBVIOUS
  <2> HIDE DEF X, x, Added
  <2>6. Added(k) \in Seq(X)
    BY <2>4, <2>5
  <2> QED
    BY <2>6 DEF X, Wire
<1>3. in' \in [Page -> [Port -> Wire(Nat, 0 .. STEPS)]]
  <2>1. CASE a.status = 200
    <3>1. in' = [in EXCEPT ![p] = [k \in Port |-> Added(k)]]
      BY <2>1 DEF Receive
    <3>2. [k \in Port |-> Added(k)] \in [Port -> Wire(Nat, 0 .. STEPS)]
      BY <1>2, <2>1
    <3> HIDE DEF Added
    <3> QED
      BY <3>1, <3>2 DEF TypeOK
  <2>2. CASE a.status # 200
    <3>1. in' = in
      BY <2>2 DEF Receive
    <3> QED
      BY <3>1 DEF TypeOK
  <2> QED
    BY <2>1, <2>2
<1>4. phase' \in [Page -> Phases]
  <2>1. \/ phase' = [phase EXCEPT ![p] = "ready"]
        \/ phase' = [phase EXCEPT ![p] = "error"]
    BY DEF Receive
  <2> QED
    BY <2>1, PhasesAre DEF TypeOK
<1>5. chan' \in [Page -> Exchange]
  BY ExchangeHas DEF Receive, TypeOK
<1> QED
  BY <1>3, <1>4, <1>5 DEF Receive, TypeOK, history

LEMMA SendPacketType ==
  ASSUME TypeOK, NEW p \in Page, NEW k \in Port, SendPacket(p, k)
  PROVE  TypeOK'
<1>1. sendQueue' \in [Page -> [Port -> Seq(User)]]
  <2>1. sendQueue[p][k] \in Seq(User) /\ clicks + 1 \in User
    BY DEF TypeOK, User
  <2>2. Append(sendQueue[p][k], clicks + 1) \in Seq(User)
    BY <2>1
  <2>3. sendQueue' = [sendQueue EXCEPT ![p] =
          [sendQueue[p] EXCEPT ![k] = Append(sendQueue[p][k], clicks + 1)]]
    BY DEF SendPacket, TypeOK
  <2>4. [sendQueue[p] EXCEPT ![k] = Append(sendQueue[p][k], clicks + 1)]
          \in [Port -> Seq(User)]
    BY <2>2 DEF TypeOK
  <2> QED
    BY <2>3, <2>4 DEF TypeOK
<1> QED
  BY <1>1 DEF SendPacket, TypeOK, history

LEMMA CloseType ==
  ASSUME TypeOK, NEW p \in Page, Close(p)
  PROVE  TypeOK'
<1>1. /\ out' \in [Page -> [Port -> Wire(User, 1 .. STEPS)]]
      /\ in' \in [Page -> [Port -> Wire(Nat, 0 .. STEPS)]]
  <2>1. /\ Empty \in [Port -> Wire(User, 1 .. STEPS)]
        /\ Empty \in [Port -> Wire(Nat, 0 .. STEPS)]
    BY EmptyType
  <2> QED
    BY <2>1 DEF Close, TypeOK
<1>2. /\ sendQueue' \in [Page -> [Port -> Seq(User)]]
      /\ put' \in [Page -> [Port -> Seq(Nat)]]
      /\ got' \in [Page -> [Port -> Seq(Nat)]]
  <2>1. Empty \in [Port -> Seq(Nat)] /\ Empty \in [Port -> Seq(User)]
    BY EmptyType DEF Empty
  <2> QED
    BY <2>1 DEF Close, TypeOK
<1>3. chan' \in [Page -> Exchange]
  BY ExchangeHas DEF Close, TypeOK
<1> QED
  BY <1>1, <1>2, <1>3, PhasesAre DEF Close, TypeOK

LEMMA HandleHeloType ==
  ASSUME TypeOK, NEW p \in Page, HandleHelo(p)
  PROVE  TypeOK'
<1>1. sw' \in Switch /\ sw'.id \in Nat /\ lastId' \in Nat
  BY FreshType DEF HandleHelo, Helo, TypeOK
<1>2. chan' \in [Page -> Exchange]
  <2>1. HeloAnswer(sw'.id) \in Exchange
    BY <1>1, ExchangeHas
  <2> QED
    BY <2>1, AnswerType DEF HandleHelo
<1> QED
  BY <1>1, <1>2, EmptyType DEF HandleHelo, TypeOK, pageVars

LEMMA HandleTickType ==
  ASSUME TypeOK, NEW p \in Page, HandleTick(p)
  PROVE  TypeOK'
<1> DEFINE i == chan[p].id
           body == chan[p].body
           s == StuffRecvQueue(sw, body)
           served == Current(i) /\ Parses(body)
<1>1. PICK fw \in [Port -> Forwardings] :
        /\ Tick(i, body, fw)
        /\ Answer(p, TickReply(TickAnswer(i, body, fw)))
        /\ taken' = [k \in Port |-> IF served /\ k \in TakenFrom(s)
                                    THEN Append(taken[k], Head(s.recv[k]))
                                    ELSE taken[k]]
        /\ queued' = [k \in Port |-> IF served
                                     THEN queued[k] \o QueuedFor(s, fw, k)
                                     ELSE queued[k]]
  BY DEF HandleTick
<1>2. sw \in Switch /\ body \in [Port -> User \cup {NoFrame}]
  <2>1. chan[p] \in Exchange /\ chan[p].kind = "tick"
    BY DEF HandleTick, TypeOK
  <2> QED
    BY <2>1, ExchangeKinds DEF TypeOK
<1>3. body \in Body
  BY <1>2, PagesParse
<1>4. s \in Switch
  BY <1>2, <1>3, StuffType
<1> HIDE DEF body, s
<1>5. sw' \in Switch /\ TickAnswer(i, body, fw) \in Reply
  BY <1>1, <1>2, <1>3, TickType
<1>6. chan' \in [Page -> Exchange]
  <2>1. TickReply(TickAnswer(i, body, fw)) \in Exchange
    BY <1>5, ExchangeHas
  <2> QED
    BY <1>1, <2>1, AnswerType
<1>7. taken' \in [Port -> Seq(Nat)]
  <2>1. ASSUME NEW k \in Port, k \in TakenFrom(s)
        PROVE  Append(taken[k], Head(s.recv[k])) \in Seq(Nat)
    <3>1. s.recv[k] \in Seq(Nat) /\ s.recv[k] # << >> /\ taken[k] \in Seq(Nat)
      BY <1>4, <2>1 DEF Switch, TakenFrom, TypeOK
    <3> QED
      BY <3>1
  <2> QED
    BY <1>1, <2>1 DEF TypeOK
<1>8. queued' \in [Port -> Seq(Nat)]
  <2>1. ASSUME NEW k \in Port PROVE queued[k] \o QueuedFor(s, fw, k) \in Seq(Nat)
    <3>1. QueuedFor(s, fw, k) \in Seq(Nat) /\ queued[k] \in Seq(Nat)
      BY <1>4, QueuedType DEF TypeOK
    <3> QED
      BY <3>1
  <2> QED
    BY <1>1, <2>1 DEF TypeOK
<1> QED
  BY <1>1, <1>5, <1>6, <1>7, <1>8 DEF HandleTick, TypeOK, pageVars, Tick

LEMMA HandleScriptType ==
  ASSUME TypeOK, NEW k \in Port, HandleScript(k)
  PROVE  TypeOK'
<1> DEFINE body == [j \in Port |-> IF j < k THEN 0 ELSE Malformed]
<1>1. body \in Body
  BY ScriptBody
<1>2. Tick(sw.id, body, [j \in Port |-> {}])
  BY DEF HandleScript
<1> HIDE DEF body
<1>3. sw' \in Switch /\ lastId' = lastId
  BY <1>1, <1>2, TickType DEF TypeOK, Tick
<1> QED
  BY <1>3 DEF HandleScript, TypeOK, pageVars, history

LEMMA StopType ==
  ASSUME TypeOK, Stop
  PROVE  TypeOK'
<1>1. NoSwitch \in Switch
  BY FreshType DEF NoSwitch
<1>2. phase' \in [Page -> Phases] /\ chan' \in [Page -> Exchange]
  BY ExchangeHas, PhasesAre DEF Stop, TypeOK
<1>3. /\ lastId' = 0 /\ sw' = NoSwitch /\ up' = FALSE /\ stops' = stops + 1
      /\ taken' = Empty /\ queued' = Empty
      /\ UNCHANGED <<switchId, sendQueue, out, in, clicks, scripts, put, got>>
  BY DEF Stop
<1>4. taken' \in [Port -> Seq(Nat)] /\ queued' \in [Port -> Seq(Nat)]
  BY <1>3, EmptyType
<1>5. sw' \in Switch /\ lastId' \in Nat
  BY <1>1, <1>3
<1>6. up' \in BOOLEAN
  BY DEF Stop
<1>7. stops' \in Nat
  BY <1>3 DEF TypeOK
<1> QED
  BY <1>2, <1>3, <1>4, <1>5, <1>6, <1>7 DEF TypeOK

LEMMA TypeCorrect == Spec => []TypeOK
<1>1. Init => TypeOK
  <2>1. NoSwitch \in Switch
    BY FreshType DEF NoSwitch
  <2>2. /\ Empty \in [Port -> Wire(User, 1 .. STEPS)]
        /\ Empty \in [Port -> Wire(Nat, 0 .. STEPS)]
        /\ Empty \in [Port -> Seq(Nat)] /\ Empty \in [Port -> Seq(User)]
    BY EmptyType DEF Empty
  <2> QED
    BY <2>1, <2>2, ExchangeHas, PhasesAre DEF Init, TypeOK
<1>2. TypeOK /\ [Next]_vars => TypeOK'
  <2> SUFFICES ASSUME TypeOK, [Next]_vars PROVE TypeOK'
    OBVIOUS
  <2>1. ASSUME NEW p \in Page, Open(p) PROVE TypeOK'
    BY <2>1, OpenType
  <2>2. ASSUME NEW p \in Page, Started(p) PROVE TypeOK'
    BY <2>2, StartedType
  <2>3. ASSUME NEW p \in Page, SendTick(p) PROVE TypeOK'
    BY <2>3, SendTickType
  <2>4. ASSUME NEW p \in Page, Receive(p) PROVE TypeOK'
    BY <2>4, ReceiveType
  <2>5. ASSUME NEW p \in Page, HandleHelo(p) PROVE TypeOK'
    BY <2>5, HandleHeloType
  <2>6. ASSUME NEW p \in Page, HandleTick(p) PROVE TypeOK'
    BY <2>6, HandleTickType
  <2>7. ASSUME NEW p \in Page, Close(p) PROVE TypeOK'
    BY <2>7, CloseType
  <2>8. ASSUME NEW p \in Page, NEW k \in Port, SendPacket(p, k) PROVE TypeOK'
    BY <2>8, SendPacketType
  <2>9. ASSUME NEW k \in Port, HandleScript(k) PROVE TypeOK'
    BY <2>9, HandleScriptType
  <2>10. ASSUME Stop PROVE TypeOK'
    BY <2>10, StopType
  <2>11. ASSUME Start PROVE TypeOK'
    BY <2>11 DEF Start, TypeOK, pageVars, history
  <2>12. ASSUME UNCHANGED vars PROVE TypeOK'
    BY <2>12 DEF vars, TypeOK, pageVars, history
  <2> QED
    BY <2>1, <2>2, <2>3, <2>4, <2>5, <2>6, <2>7, <2>8, <2>9, <2>10, <2>11,
       <2>12 DEF Next
<1> QED
  BY <1>1, <1>2, PTL DEF Spec

----------------------------------------------------------------------------
(* Exchanges                                                               *)

(* What an action leaves alone of a page keeps its order. *)
Apart(q) ==
  /\ phase'[q] = phase[q] /\ chan'[q] = chan[q] /\ switchId'[q] = switchId[q]
  /\ out'[q] = out[q] /\ in'[q] = in[q]
  /\ put'[q] = put[q] /\ got'[q] = got[q]

LEMMA OrderlyApart ==
  ASSUME NEW q \in Page, Orderly(q), Apart(q)
  PROVE  Orderly(q)'
BY DEF Orderly, Apart, Empty, None

(* The steps of a page, and the answers of the server to it, leave the     *)
(* others alone.                                                           *)
LEMMA OthersApart ==
  ASSUME TypeOK, NEW p \in Page, NEW q \in Page, p # q,
         \/ Open(p) \/ Started(p) \/ SendTick(p) \/ Receive(p) \/ Close(p)
         \/ HandleHelo(p) \/ HandleTick(p)
  PROVE  Apart(q)
<1>1. CASE Open(p) \/ Started(p)
  BY <1>1 DEF Open, Started, Apart, TypeOK, history
<1>2. CASE SendTick(p)
  BY <1>2 DEF SendTick, Apart, TypeOK
<1>3. CASE Receive(p)
  <2>1. UNCHANGED <<switchId, out, put, got>>
    BY <1>3 DEF Receive, history
  <2>2. /\ phase'[q] = phase[q] /\ chan'[q] = chan[q] /\ in'[q] = in[q]
    BY <1>3 DEF Receive, TypeOK
  <2> QED
    BY <2>1, <2>2 DEF Apart
<1>4. CASE Close(p)
  BY <1>4 DEF Close, Apart, TypeOK
<1>5. CASE HandleHelo(p)
  BY <1>5 DEF HandleHelo, Answer, Apart, TypeOK, pageVars
<1>6. CASE HandleTick(p)
  BY <1>6 DEF HandleTick, Answer, Apart, TypeOK, pageVars
<1> QED
  BY <1>1, <1>2, <1>3, <1>4, <1>5, <1>6

(* The steps that touch no page but its queue of frames to send. *)
LEMMA AllApart ==
  ASSUME NEW q,
         \/ \E p \in Page, k \in Port : SendPacket(p, k)
         \/ \E k \in Port : HandleScript(k)
         \/ Start \/ UNCHANGED vars
  PROVE  Apart(q)
BY DEF SendPacket, HandleScript, Start, vars, pageVars, history, Apart

(* What a step is to one page. *)
LEMMA StepOf ==
  ASSUME TypeOK, [Next]_vars, NEW q \in Page
  PROVE  \/ Apart(q) \/ Stop
         \/ Open(q) \/ Started(q) \/ SendTick(q) \/ Receive(q) \/ Close(q)
         \/ HandleHelo(q) \/ HandleTick(q)
<1>1. ASSUME NEW p \in Page, p # q,
             \/ Open(p) \/ Started(p) \/ SendTick(p) \/ Receive(p)
             \/ Close(p) \/ HandleHelo(p) \/ HandleTick(p)
      PROVE  Apart(q)
  BY <1>1, OthersApart
<1>2. CASE \/ \E p \in Page, j \in Port : SendPacket(p, j)
           \/ \E j \in Port : HandleScript(j)
           \/ Start \/ UNCHANGED vars
  BY <1>2, AllApart
<1> QED
  BY <1>1, <1>2 DEF Next

LEMMA OrderlyKept == Spec => []Discipline
<1>1. Init => Discipline
  BY DEF Init, Discipline, Orderly
<1>2. TypeOK /\ Discipline /\ [Next]_vars => Discipline'
  <2> SUFFICES ASSUME TypeOK, Discipline, [Next]_vars, NEW q \in Page
               PROVE  Orderly(q)'
    BY DEF Discipline
  <2>0. Orderly(q) /\ chan[q] \in Exchange /\ phase[q] \in Phases
    BY DEF Discipline, TypeOK
  <2>1. CASE Apart(q)
    BY <2>0, <2>1, OrderlyApart
  <2>2. CASE Open(q)
    BY <2>0, <2>2 DEF Open, Orderly, HeloRequest, TypeOK, history
  <2>3. CASE Started(q)
    BY <2>3 DEF Started, Orderly, TypeOK
  <2>4. CASE SendTick(q)
    <3>1. chan[q] = None
      BY <2>0, <2>4 DEF SendTick, Orderly
    <3>2. CASE up
      <4>1. phase'[q] = "tick" /\ switchId'[q] = switchId[q]
        BY <2>4, <3>2 DEF SendTick, TypeOK
      <4>2. chan'[q].kind = "tick" /\ chan'[q].id = switchId[q]
        BY <2>4, <3>2 DEF SendTick, TypeOK, TickRequest
      <4> QED
        BY <4>1, <4>2 DEF Orderly
    <3>3. CASE ~up
      BY <2>4, <3>1, <3>3 DEF SendTick, Orderly, TypeOK
    <3> QED
      BY <3>2, <3>3
  <2>5. CASE Receive(q)
    <3>1. phase'[q] \in {"ready", "error"} /\ chan'[q] = None
      BY <2>5 DEF Receive, TypeOK
    <3> QED
      BY <3>1 DEF Orderly
  <2>6. CASE Close(q)
    <3>1. phase'[q] = "closed"
      BY <2>6 DEF Close, TypeOK
    <3>2. chan'[q].kind \in {"none", "helo", "tick"}
      BY <2>6 DEF Close, TypeOK, None
    <3> QED
      BY <3>1, <3>2 DEF Orderly
  <2>7. CASE HandleHelo(q) \/ HandleTick(q)
    <3>1. UNCHANGED <<phase, switchId, out, in, put, got>>
      BY <2>7 DEF HandleHelo, HandleTick, pageVars
    <3>2. CASE phase[q] = "closed"
      <4>1. chan'[q] = None
        BY <2>7, <3>2 DEF HandleHelo, HandleTick, Answer, TypeOK
      <4> QED
        BY <3>1, <3>2, <4>1 DEF Orderly, None
    <3>3. CASE phase[q] # "closed" /\ HandleHelo(q)
      <4>1. chan'[q].kind = "hello"
        BY <3>3 DEF HandleHelo, Answer, HeloAnswer, TypeOK
      <4>2. phase[q] = "helo"
        BY <2>0, <3>3 DEF HandleHelo, Orderly, Phases, None
      <4> QED
        BY <2>0, <3>1, <4>1, <4>2 DEF Orderly
    <3>4. CASE phase[q] # "closed" /\ HandleTick(q)
      <4>1. chan'[q].kind = "tock"
        BY <3>4 DEF HandleTick, Answer, TickReply, TypeOK
      <4>2. phase[q] = "tick"
        BY <2>0, <3>4 DEF HandleTick, Orderly, Phases, None
      <4> QED
        BY <3>1, <4>1, <4>2 DEF Orderly
    <3> QED
      BY <2>7, <3>2, <3>3, <3>4
  <2>8. CASE Stop
    <3>1. /\ chan'[q] = None /\ UNCHANGED <<out, in>>
          /\ phase'[q] = IF phase[q] = "helo" THEN "silent"
                         ELSE IF phase[q] = "tick" THEN "error" ELSE phase[q]
      BY <2>8 DEF Stop
    <3>2. UNCHANGED <<put, got>>
      BY <2>8 DEF Stop
    <3> QED
      BY <2>0, <3>1, <3>2 DEF Orderly, None
  <2> QED
    BY <2>1, <2>2, <2>3, <2>4, <2>5, <2>6, <2>7, <2>8, StepOf
<1> QED
  BY <1>1, <1>2, TypeCorrect, PTL DEF Spec

----------------------------------------------------------------------------
(* One tick along the wires                                                *)

LEMMA FramesFirst ==
  ASSUME NEW F, NEW S, NEW w \in Wire(F, S), w # << >>
  PROVE  /\ Frames(w) = <<w[1].frame>> \o Frames(Tail(w))
         /\ Frames(<<w[1]>>) = <<w[1].frame>>
<1> DEFINE X == [frame : F, step : S]
<1>1. w \in Seq(X)
  BY WireIs
<1>2. w[1] \in X
  <2>1. 1 \in 1 .. Len(w)
    BY <1>1
  <2> QED
    BY <2>1, WireIs
<1> HIDE DEF X
<1>3. <<w[1]>> \in Seq(X) /\ Tail(w) \in Seq(X) /\ w = <<w[1]>> \o Tail(w)
  BY <1>1, <1>2
<1>4. /\ <<w[1]>> \in Wire(F, S) /\ Tail(w) \in Wire(F, S)
      /\ << >> \in Wire(F, S)
  BY <1>3 DEF Wire, X
<1>5. Frames(<<w[1]>> \o Tail(w)) = Frames(<<w[1]>>) \o Frames(Tail(w))
  <2>1. \A u, v \in Wire(F, S) : Frames(u \o v) = Frames(u) \o Frames(v)
    BY FramesConcat
  <2> QED
    BY <1>4, <2>1
<1>6. Frames(Append(<< >>, w[1])) = Frames(<< >>) \o <<w[1].frame>>
  <2>1. \A v \in Wire(F, S), x \in X : Frames(Append(v, x)) = Frames(v) \o <<x.frame>>
    BY FramesAppend DEF X
  <2> QED
    BY <1>2, <1>4, <2>1
<1>7. Append(<< >>, w[1]) = <<w[1]>> /\ Frames(<< >>) = << >>
  BY DEF Frames
<1>8. Frames(<<w[1]>>) = <<w[1].frame>>
  BY <1>6, <1>7
<1> QED
  BY <1>3, <1>5, <1>8

LEMMA SameFrames ==
  ASSUME NEW F, NEW S, NEW v \in Wire(F, S), NEW U, NEW w \in Wire(F, U),
         Len(v) = Len(w), \A n \in 1 .. Len(w) : v[n].frame = w[n].frame
  PROVE  Frames(v) = Frames(w)
<1>1. DOMAIN v = 1 .. Len(w) /\ DOMAIN w = 1 .. Len(w)
  BY WireIs
<1> QED
  BY <1>1 DEF Frames

(* Of a host's wire, the frame at the last step goes to the switch. *)
LEMMA OutGoing ==
  ASSUME TypeOK, NEW p \in Page, NEW k \in Port, Falling(out[p][k])
  PROVE  /\ Falling(MovedOut(p, k))
         /\ Frames(out[p][k]) \o Frames(NextFrame(p, k)) =
              (IF Impacting(p, k) = NoFrame THEN << >> ELSE <<Impacting(p, k)>>)
              \o Frames(MovedOut(p, k))
<1> DEFINE w == out[p][k]
           on == Off(w, STEPS)
           moved == [n \in DOMAIN on |-> [on[n] EXCEPT !.step = @ + 1]]
           S == 1 .. STEPS
           there == On(w, STEPS)
<1>1. w \in Wire(User, S) /\ Falling(w) /\ STEPS \in Nat \ {0}
  BY SimulatorAssumption DEF TypeOK
<1>2. /\ MovedOut(p, k) = moved \o NextFrame(p, k)
      /\ Impacting(p, k) = IF there = << >> THEN NoFrame ELSE Last(there).frame
      /\ NextFrame(p, k) \in Wire(User, S)
  BY MovedType DEF MovedOut, Impacting
<1> HIDE DEF w
<1>3. /\ Len(w) \in Nat
      /\ \A n \in 1 .. Len(w) : w[n].step \in 1 .. STEPS /\ w[n].frame \in User
  BY <1>1, WireIs
<1>4. \A n \in 2 .. Len(w) : w[n].step # STEPS
  <2>1. SUFFICES ASSUME NEW n \in 2 .. Len(w) PROVE w[n].step # STEPS
    OBVIOUS
  <2>2. 1 \in 1 .. Len(w) /\ n \in 1 .. Len(w) /\ 1 < n
    BY <1>3
  <2>3. w[n].step < w[1].step
    BY <1>1, <2>2 DEF Falling
  <2> QED
    BY <1>1, <1>3, <2>2, <2>3
<1>5. \/ /\ w # << >> /\ w[1].step = STEPS
         /\ there = <<w[1]>> /\ on = Tail(w)
      \/ /\ w = << >> \/ w[1].step # STEPS
         /\ there = << >> /\ on = w
  BY <1>1, <1>4, OnOff
<1>6. on \in Wire(User, S) /\ on \in Wire(User, (1 .. STEPS) \ {STEPS})
  <2>1. on \in Wire(User, (1 .. STEPS) \ {STEPS})
    BY <1>1, OnOffType
  <2>2. on \in Wire(User, S)
    BY <1>1, <1>5 DEF Wire
  <2> QED
    BY <2>1, <2>2
<1>7. /\ Falling(on)
      /\ Frames(w) = (IF Impacting(p, k) = NoFrame THEN << >>
                      ELSE <<Impacting(p, k)>>) \o Frames(on)
  <2>1. CASE w # << >> /\ w[1].step = STEPS /\ there = <<w[1]>> /\ on = Tail(w)
    <3>1. Impacting(p, k) = w[1].frame
      BY <1>2, <2>1 DEF Last
    <3>2. w[1].frame \in User
      BY <1>1, <1>3, <2>1 DEF Wire
    <3>3. Impacting(p, k) # NoFrame
      BY <3>1, <3>2, SimulatorAssumption DEF User
    <3>4. Frames(w) = <<w[1].frame>> \o Frames(Tail(w))
      BY <1>1, <2>1, FramesFirst
    <3>5. Falling(Tail(w))
      <4> DEFINE X == [frame : User, step : S]
      <4>1. w \in Seq(X)
        BY <1>1 DEF Wire
      <4> HIDE DEF X, S
      <4>2. /\ Len(Tail(w)) = Len(w) - 1
            /\ \A n \in 1 .. Len(Tail(w)) : Tail(w)[n] = w[n + 1]
        BY <2>1, <4>1, HeadTailProperties
      <4>3. SUFFICES ASSUME NEW m \in 1 .. Len(Tail(w)),
                            NEW n \in 1 .. Len(Tail(w)), m < n
                     PROVE  w[n + 1].step < w[m + 1].step
        BY <4>2 DEF Falling
      <4>4. m + 1 \in 1 .. Len(w) /\ n + 1 \in 1 .. Len(w) /\ m + 1 < n + 1
        BY <1>3, <4>2, <4>3
      <4> QED
        BY <1>1, <4>4 DEF Falling
    <3> QED
      BY <2>1, <3>1, <3>3, <3>4, <3>5
  <2>2. CASE there = << >> /\ on = w
    <3>1. Impacting(p, k) = NoFrame
      BY <1>2, <2>2
    <3>2. Frames(w) \in Seq(User)
      BY <1>1, FramesOf
    <3> QED
      BY <1>1, <2>2, <3>1, <3>2
  <2> QED
    BY <1>5, <2>1, <2>2
<1> HIDE DEF on, there
<1>8. /\ Len(on) \in Nat /\ DOMAIN on = 1 .. Len(on)
      /\ \A n \in 1 .. Len(on) :
           /\ on[n] \in [frame : User, step : S]
           /\ on[n].step \in 1 .. STEPS - 1
  <2>1. /\ Len(on) \in Nat /\ DOMAIN on = 1 .. Len(on)
        /\ \A n \in 1 .. Len(on) : on[n] \in [frame : User, step : S]
    BY <1>6, WireIs
  <2>2. ASSUME NEW n \in 1 .. Len(on) PROVE on[n].step \in 1 .. STEPS - 1
    <3> DEFINE U == (1 .. STEPS) \ {STEPS}
    <3> HIDE DEF U
    <3>1. on \in Wire(User, U)
      BY <1>6 DEF U
    <3>2. on[n].step \in U
      BY <3>1, WireIs
    <3> QED
      BY <1>1, <3>2 DEF U
  <2> QED
    BY <2>1, <2>2
<1>9. /\ moved \in Wire(User, S) /\ Len(moved) = Len(on)
      /\ \A n \in 1 .. Len(on) :
           moved[n].step = on[n].step + 1 /\ moved[n].frame = on[n].frame
  <2>1. ASSUME NEW n \in 1 .. Len(on)
        PROVE  /\ [on[n] EXCEPT !.step = @ + 1] \in [frame : User, step : S]
               /\ [on[n] EXCEPT !.step = @ + 1].step = on[n].step + 1
               /\ [on[n] EXCEPT !.step = @ + 1].frame = on[n].frame
    <3>1. on[n].step + 1 \in S
      BY <1>1, <1>8
    <3> QED
      BY <1>8, <3>1
  <2> DEFINE X == [frame : User, step : S]
             e(n) == [on[n] EXCEPT !.step = @ + 1]
  <2>2. moved = [n \in 1 .. Len(on) |-> e(n)]
    BY <1>8
  <2>3. \A n \in 1 .. Len(on) :
          e(n) \in X /\ e(n).step = on[n].step + 1 /\ e(n).frame = on[n].frame
    BY <2>1
  <2> HIDE DEF X, e, moved
  <2>4. moved \in Seq(X) /\ Len(moved) = Len(on)
    BY <1>8, <2>2, <2>3
  <2>5. \A n \in 1 .. Len(on) : moved[n] = e(n)
    BY <2>2
  <2> QED
    BY <2>3, <2>4, <2>5 DEF Wire, X
<1> HIDE DEF moved
<1>10. Frames(moved) = Frames(on)
  BY <1>6, <1>9, SameFrames
<1>11. Frames(MovedOut(p, k)) = Frames(on) \o Frames(NextFrame(p, k))
  BY <1>2, <1>9, <1>10, FramesConcat
<1>12. Falling(MovedOut(p, k))
  <2> DEFINE next == NextFrame(p, k)
  <2>1. /\ Len(next) \in {0, 1}
        /\ Len(next) = 1 => next[1].step = 1
    BY DEF NextFrame
  <2> DEFINE X == [frame : User, step : S]
  <2>2. moved \in Seq(X) /\ next \in Seq(X)
    BY <1>2, <1>9 DEF Wire
  <2> HIDE DEF X, next, S
  <2>3. /\ Len(moved \o next) = Len(moved) + Len(next)
        /\ \A n \in 1 .. Len(moved) + Len(next) :
             (moved \o next)[n] =
               IF n <= Len(moved) THEN moved[n] ELSE next[n - Len(moved)]
    BY <2>2, ConcatProperties
  <2>4. SUFFICES ASSUME NEW m \in 1 .. Len(moved) + Len(next),
                        NEW n \in 1 .. Len(moved) + Len(next), m < n
                 PROVE  (moved \o next)[n].step < (moved \o next)[m].step
    BY <1>2, <2>3 DEF Falling, next
  <2>5. Len(next) = 0 \/ Len(next) = 1
    BY <2>1
  <2>6. Len(moved) = Len(on) /\ Len(on) \in Nat
    BY <1>8, <1>9
  <2>7. m \in Int /\ n \in Int /\ 1 <= m /\ n <= Len(moved) + Len(next) /\ 1 <= n
    BY <2>1, <2>6
  <2>8. \A l \in Nat, c \in 0 .. 1, i, j \in Int :
           1 <= i /\ i < j /\ j <= l + c =>
             i \in 1 .. l /\ (j \notin 1 .. l => j - l = 1 /\ ~(j <= l) /\ c = 1)
    OBVIOUS
  <2>9. Len(moved) \in Nat /\ Len(next) \in 0 .. 1
    BY <2>6, <2>5
  <2>10. /\ m \in 1 .. Len(moved)
         /\ n \notin 1 .. Len(moved) =>
              n - Len(moved) = 1 /\ ~(n <= Len(moved)) /\ Len(next) = 1
    BY <2>4, <2>7, <2>8, <2>9
  <2>11. m \in 1 .. Len(on)
    BY <2>6, <2>10
  <2>12. (moved \o next)[m].step = on[m].step + 1
    BY <1>8, <1>9, <2>3, <2>11
  <2>13. CASE n \in 1 .. Len(on)
    <3>1. (moved \o next)[n].step = on[n].step + 1
      BY <1>8, <1>9, <2>3, <2>13
    <3>2. on[n].step < on[m].step
      BY <1>7, <2>4, <2>11, <2>13 DEF Falling
    <3> QED
      BY <1>8, <2>11, <2>12, <2>13, <3>1, <3>2
  <2>14. CASE n \notin 1 .. Len(on)
    <3>1. n - Len(moved) = 1 /\ ~(n <= Len(moved)) /\ Len(next) = 1
      BY <2>14, <2>6, <2>10
    <3>2. (moved \o next)[n].step = 1
      BY <2>1, <2>3, <3>1
    <3> QED
      BY <1>8, <2>11, <2>12, <3>2
  <2> QED
    BY <2>13, <2>14
<1>13. (Frames(w) \o Frames(NextFrame(p, k))) =
         (IF Impacting(p, k) = NoFrame THEN << >> ELSE <<Impacting(p, k)>>)
         \o Frames(MovedOut(p, k))
  <2> DEFINE a == IF Impacting(p, k) = NoFrame THEN << >>
                  ELSE <<Impacting(p, k)>>
  <2>1. a \in Seq(User)
    BY MovedType
  <2>2. Frames(on) \in Seq(User) /\ Frames(NextFrame(p, k)) \in Seq(User)
    BY <1>2, <1>6, FramesOf
  <2>3. Frames(w) = a \o Frames(on)
    BY <1>7
  <2> HIDE DEF a
  <2>4. (a \o Frames(on)) \o Frames(NextFrame(p, k))
          = a \o (Frames(on) \o Frames(NextFrame(p, k)))
    BY <2>1, <2>2, ConcatAssociative
  <2> QED
    BY <1>11, <2>3, <2>4 DEF a
<1> QED
  BY <1>12, <1>13 DEF w

(* Of a switch's wire, the frame at the first step goes to the host. *)
LEMMA InComing ==
  ASSUME TypeOK, NEW p \in Page, NEW k \in Port, Rising(in[p][k])
  PROVE  /\ Rising(MovedIn(p, k))
         /\ \A n \in 1 .. Len(MovedIn(p, k)) : MovedIn(p, k)[n].step < STEPS
         /\ Frames(Off(in[p][k], 0)) =
              Arriving(p, k) \o Frames(Off(MovedIn(p, k), 0))
<1> DEFINE w == in[p][k]
           on == Off(w, 0)
           S == 0 .. STEPS
<1>1. w \in Wire(Nat, S) /\ Rising(w) /\ STEPS \in Nat \ {0}
  BY SimulatorAssumption DEF TypeOK
<1>2. /\ MovedIn(p, k) = [n \in DOMAIN on |-> [on[n] EXCEPT !.step = @ - 1]]
      /\ MovedIn(p, k) \in Wire(Nat, S)
      /\ Arriving(p, k) = Frames(On(w, 1))
  BY MovedType DEF MovedIn, Arriving
<1> HIDE DEF w
<1>3. /\ Len(w) \in Nat /\ w \in Seq([frame : Nat, step : S])
      /\ \A n \in 1 .. Len(w) : w[n].step \in 0 .. STEPS /\ w[n].frame \in Nat
  BY <1>1, WireIs
<1>4. \A n \in 2 .. Len(w) : w[n].step # 0
  <2>1. SUFFICES ASSUME NEW n \in 2 .. Len(w) PROVE w[n].step # 0
    OBVIOUS
  <2>2. 1 \in 1 .. Len(w) /\ n \in 1 .. Len(w) /\ 1 < n
    BY <1>3
  <2>3. w[1].step < w[n].step
    BY <1>1, <2>2 DEF Rising
  <2> QED
    BY <1>1, <1>3, <2>2, <2>3
<1>5. \/ w # << >> /\ w[1].step = 0 /\ on = Tail(w)
      \/ (w = << >> \/ w[1].step # 0) /\ on = w
  BY <1>1, <1>4, OnOff
<1> HIDE DEF on
(* on is w without its first d frames. *)
<1>6. PICK d \in {0, 1} :
        /\ Len(on) = Len(w) - d
        /\ \A n \in 1 .. Len(on) : n + d \in 1 .. Len(w) /\ on[n] = w[n + d]
        /\ \A n \in 1 .. Len(w) : n <= d => w[n].step = 0
  <2>1. CASE w # << >> /\ w[1].step = 0 /\ on = Tail(w)
    <3> DEFINE X == [frame : Nat, step : S]
    <3>1. w \in Seq(X)
      BY <1>3
    <3> HIDE DEF X
    <3>2. /\ Len(on) = Len(w) - 1
          /\ \A n \in 1 .. Len(on) : on[n] = w[n + 1]
      BY <2>1, <3>1, HeadTailProperties
    <3>3. \A n \in 1 .. Len(on) : n + 1 \in 1 .. Len(w)
      BY <1>3, <3>2
    <3>4. \A n \in 1 .. Len(w) : n <= 1 => n = 1
      BY <1>3
    <3> QED
      BY <2>1, <3>2, <3>3, <3>4
  <2>2. CASE on = w
    <3>1. /\ Len(on) = Len(w) - 0
          /\ \A n \in 1 .. Len(on) : n + 0 \in 1 .. Len(w) /\ on[n] = w[n + 0]
          /\ \A n \in 1 .. Len(w) : n <= 0 => w[n].step = 0
      BY <1>3, <2>2
    <3> QED
      BY <3>1
  <2> QED
    BY <1>5, <2>1, <2>2
<1>7. Rising(on)
  <2>1. SUFFICES ASSUME NEW m \in 1 .. Len(on), NEW n \in 1 .. Len(on), m < n
                 PROVE  on[m].step < on[n].step
    BY DEF Rising
  <2>2. m + d \in 1 .. Len(w) /\ n + d \in 1 .. Len(w) /\ m + d < n + d
    BY <1>6, <2>1
  <2> QED
    BY <1>1, <1>6, <2>2 DEF Rising
<1>8. /\ on \in Wire(Nat, S) /\ Len(on) \in Nat /\ DOMAIN on = 1 .. Len(on)
      /\ \A n \in 1 .. Len(on) :
           /\ on[n] \in [frame : Nat, step : S]
           /\ on[n].step \in 1 .. STEPS
  <2>1. on \in Wire(Nat, (0 .. STEPS) \ {0})
    BY <1>1, OnOffType DEF on
  <2>2. on \in Wire(Nat, S)
    <3> DEFINE X == [frame : Nat, step : S]
    <3>1. w \in Seq(X)
      BY <1>3
    <3> HIDE DEF X
    <3>2. w # << >> => Tail(w) \in Seq(X)
      BY <3>1, HeadTailProperties
    <3>3. on \in Seq(X)
      BY <1>5, <3>1, <3>2
    <3> QED
      BY <3>3 DEF X, Wire
  <2>3. /\ Len(on) \in Nat /\ DOMAIN on = 1 .. Len(on)
        /\ \A n \in 1 .. Len(on) : on[n] \in [frame : Nat, step : S]
    BY <2>2, WireIs
  <2>4. ASSUME NEW n \in 1 .. Len(on) PROVE on[n].step \in 1 .. STEPS
    <3> DEFINE U == (0 .. STEPS) \ {0}
    <3> HIDE DEF U
    <3>1. on \in Wire(Nat, U)
      BY <2>1 DEF U
    <3>2. on[n].step \in U
      BY <3>1, WireIs
    <3> QED
      BY <1>1, <3>2 DEF U
  <2> QED
    BY <2>2, <2>3, <2>4
<1> DEFINE v == MovedIn(p, k)
<1>9. /\ v \in Wire(Nat, S) /\ Len(v) = Len(on)
      /\ \A n \in 1 .. Len(on) :
           v[n].step = on[n].step - 1 /\ v[n].frame = on[n].frame
  <2> DEFINE e(n) == [on[n] EXCEPT !.step = @ - 1]
  <2>1. v = [n \in 1 .. Len(on) |-> e(n)]
    BY <1>2, <1>8
  <2>2. \A n \in 1 .. Len(on) :
          e(n).step = on[n].step - 1 /\ e(n).frame = on[n].frame
    BY <1>8
  <2> HIDE DEF e, v
  <2>3. \A n \in 1 .. Len(on) : v[n] = e(n)
    BY <2>1
  <2>4. Len(v) = Len(on)
    BY <1>8, <2>1
  <2>5. v \in Wire(Nat, S)
    BY <1>2 DEF v
  <2> QED
    BY <2>2, <2>3, <2>4, <2>5
<1>10. Rising(v) /\ \A n \in 1 .. Len(v) : v[n].step < STEPS
  <2> HIDE DEF v
  <2>1. ASSUME NEW n \in 1 .. Len(v) PROVE v[n].step < STEPS
    <3>1. n \in 1 .. Len(on)
      BY <1>9
    <3>2. on[n].step \in 1 .. STEPS /\ v[n].step = on[n].step - 1
      BY <1>8, <1>9, <3>1
    <3> QED
      BY <1>1, <3>2
  <2>2. ASSUME NEW m \in 1 .. Len(v), NEW n \in 1 .. Len(v), m < n
        PROVE  v[m].step < v[n].step
    <3>1. m \in 1 .. Len(on) /\ n \in 1 .. Len(on)
      BY <1>9
    <3>2. on[m].step < on[n].step
      BY <1>7, <2>2, <3>1 DEF Rising
    <3>3. /\ on[m].step \in 1 .. STEPS /\ v[m].step = on[m].step - 1
          /\ on[n].step \in 1 .. STEPS /\ v[n].step = on[n].step - 1
      BY <1>8, <1>9, <3>1
    <3> QED
      BY <1>1, <3>2, <3>3
  <2> QED
    BY <2>1, <2>2 DEF Rising
<1>11. Frames(on) = Frames(v)
  BY <1>8, <1>9, SameFrames
(* The frame at step 1 is the first of on. *)
<1>12. On(w, 1) = IF on # << >> /\ on[1].step = 1 THEN <<on[1]>> ELSE << >>
  <2> DEFINE at == {n \in DOMAIN w : w[n].step = 1}
  <2>1. On(w, 1) = AtPositions(w, at) /\ DOMAIN w = 1 .. Len(w)
    BY <1>3 DEF On
  <2>2. \A n \in 1 .. Len(w) : n \in at <=> w[n].step = 1
    BY <2>1
  <2> HIDE DEF at
  <2>3. on # << >> => Len(on) >= 1 /\ 1 \in 1 .. Len(on)
    <3>1. on \in Seq([frame : Nat, step : S])
      BY <1>8, WireIs
    <3> QED
      BY <3>1
  <2>4. ASSUME NEW n \in 1 .. Len(w), w[n].step = 1
        PROVE  n = 1 + d /\ on # << >> /\ on[1].step = 1
    <3>1. ~(n <= d)
      BY <1>6, <2>4
    <3>2. n - d \in 1 .. Len(on) /\ (n - d) + d = n
      BY <1>3, <1>6, <3>1
    <3>3. on[n - d] = w[n]
      BY <1>6, <3>2
    <3>4. on # << >> /\ 1 \in 1 .. Len(on)
      BY <1>8, <3>2
    <3>5. n - d = 1
      <4>1. SUFFICES ASSUME 1 < n - d PROVE FALSE
        BY <3>2
      <4>2. on[1].step < on[n - d].step
        BY <1>7, <3>2, <3>4, <4>1 DEF Rising
      <4>3. on[1].step \in 1 .. STEPS
        BY <1>8, <3>4
      <4> QED
        BY <1>1, <2>4, <3>3, <4>2, <4>3
    <3> QED
      BY <2>4, <3>3, <3>4, <3>5, <1>6
  <2>5. CASE on # << >> /\ on[1].step = 1
    <3>1. 1 + d \in 1 .. Len(w) /\ on[1] = w[1 + d]
      BY <1>6, <2>3, <2>5
    <3>2. \A n \in 1 .. Len(w) : n \in at <=> n = 1 + d
      BY <2>2, <2>4, <2>5, <3>1
    <3> DEFINE c == 1 + d
    <3>3. c \in 1 .. Len(w) /\ (\A n \in 1 .. Len(w) : n \in at <=> n = c)
          /\ Len(w) \in Nat
      BY <1>3, <3>1, <3>2
    <3> HIDE DEF c
    <3>4. AtPositions(w, at) = <<w[c]>>
      BY <3>3, PositionsOne
    <3> QED
      BY <2>1, <2>5, <3>1, <3>4 DEF c
  <2>6. CASE ~(on # << >> /\ on[1].step = 1)
    <3>1. \A n \in 1 .. Len(w) : n \notin at
      BY <2>2, <2>4, <2>6
    <3>2. AtPositions(w, at) = << >>
      BY <1>3, <3>1, PositionsNone
    <3> QED
      BY <2>1, <2>6, <3>2
  <2> QED
    BY <2>5, <2>6
<1>13. Frames(on) = Arriving(p, k) \o Frames(Off(v, 0))
  <2> HIDE DEF v
  <2>1. \A n \in 2 .. Len(v) : v[n].step # 0
    <3>1. SUFFICES ASSUME NEW n \in 2 .. Len(v) PROVE v[n].step # 0
      OBVIOUS
    <3>2. n \in 1 .. Len(on) /\ 1 \in 1 .. Len(on) /\ 1 < n
      BY <1>8, <1>9
    <3>3. on[1].step < on[n].step
      BY <1>7, <3>2 DEF Rising
    <3>4. /\ on[1].step \in 1 .. STEPS /\ on[n].step \in 1 .. STEPS
          /\ v[n].step = on[n].step - 1
      BY <1>8, <1>9, <3>2
    <3> QED
      BY <1>1, <3>3, <3>4
  <2>2. \/ v # << >> /\ v[1].step = 0 /\ Off(v, 0) = Tail(v)
        \/ (v = << >> \/ v[1].step # 0) /\ Off(v, 0) = v
    BY <1>9, <2>1, OnOff
  <2>3. /\ v # << >> <=> on # << >>
        /\ on # << >> => /\ on[1].step \in 1 .. STEPS
                         /\ v[1].step = on[1].step - 1
                         /\ v[1].frame = on[1].frame
    <3>1. /\ on \in Seq([frame : Nat, step : S])
          /\ v \in Seq([frame : Nat, step : S])
      BY <1>8, <1>9, WireIs
    <3>2. /\ on # << >> <=> Len(on) # 0
          /\ v # << >> <=> Len(v) # 0
      BY <3>1
    <3>3. Len(on) # 0 => 1 \in 1 .. Len(on)
      BY <1>8
    <3> QED
      BY <1>8, <1>9, <3>2, <3>3
  <2>4. CASE v # << >> /\ v[1].step = 0 /\ Off(v, 0) = Tail(v)
    <3>1. on # << >> /\ on[1].step = 1 /\ v[1].frame = on[1].frame
      BY <1>1, <2>3, <2>4
    <3>2. Frames(<<on[1]>>) = <<on[1].frame>>
      BY <1>8, <3>1, FramesFirst
    <3>3. Arriving(p, k) = <<v[1].frame>>
      BY <1>2, <1>12, <3>1, <3>2
    <3>4. Frames(v) = <<v[1].frame>> \o Frames(Tail(v))
      BY <1>9, <2>4, FramesFirst
    <3> QED
      BY <1>11, <2>4, <3>3, <3>4
  <2>5. CASE (v = << >> \/ v[1].step # 0) /\ Off(v, 0) = v
    <3>1. ~(on # << >> /\ on[1].step = 1)
      BY <2>3, <2>5
    <3>2. Arriving(p, k) = << >>
      <4>1. Frames(<< >>) = << >>
        BY DEF Frames
      <4> QED
        BY <1>2, <1>12, <3>1, <4>1
    <3>3. Frames(v) \in Seq(Nat)
      BY <1>9, FramesOf
    <3> QED
      BY <1>11, <2>5, <3>2, <3>3
  <2> QED
    BY <2>2, <2>4, <2>5
<1> QED
  BY <1>10, <1>13 DEF on, w, v

----------------------------------------------------------------------------
(* The order along the wires                                               *)

LEMMA InLineApart ==
  ASSUME NEW q \in Page, NEW k \in Port, InLine(q, k), Apart(q)
  PROVE  InLine(q, k)'
BY DEF InLine, Apart, Falling, Rising

LEMMA LinesKept == Spec => []WiresInv
<1>1. Init => WiresInv
  BY DEF Init, WiresInv, InLine, Falling, Rising, Empty
<1>2. TypeOK /\ WiresInv /\ [Next]_vars => WiresInv'
  <2> SUFFICES ASSUME TypeOK, WiresInv, [Next]_vars,
                      NEW q \in Page, NEW k \in Port
               PROVE  InLine(q, k)'
    BY DEF WiresInv
  <2>0. InLine(q, k) /\ STEPS \in Nat
    BY SimulatorAssumption DEF WiresInv
  <2>1. CASE Apart(q)
    BY <2>0, <2>1, InLineApart
  <2>2. CASE Open(q) \/ Started(q)
    <3>1. UNCHANGED <<out, in>> /\ phase'[q] # "tick"
      BY <2>2 DEF Open, Started, TypeOK
    <3> QED
      BY <2>0, <3>1 DEF InLine, Falling, Rising
  <2>3. CASE SendTick(q)
    <3>1. out'[q][k] = MovedOut(q, k) /\ in'[q][k] = MovedIn(q, k)
      BY <2>3 DEF SendTick, TypeOK
    <3>2. /\ Falling(MovedOut(q, k)) /\ Rising(MovedIn(q, k))
          /\ \A n \in 1 .. Len(MovedIn(q, k)) : MovedIn(q, k)[n].step < STEPS
      BY <2>0, OutGoing, InComing DEF InLine
    <3> DEFINE o == MovedOut(q, k)
               i == MovedIn(q, k)
    <3>3. /\ out'[q][k] = o /\ in'[q][k] = i /\ Falling(o) /\ Rising(i)
          /\ \A n \in 1 .. Len(i) : i[n].step < STEPS
      BY <3>1, <3>2
    <3> HIDE DEF o, i
    <3> QED
      BY <3>3 DEF InLine, Falling, Rising
  <2>4. CASE Receive(q)
    <3>1. out' = out /\ phase'[q] # "tick"
      BY <2>4 DEF Receive, TypeOK
    <3>2. Rising(in[q][k]) /\ Falling(out[q][k])
      BY <2>0 DEF InLine
    <3>3. CASE in'[q][k] = in[q][k]
      BY <3>1, <3>2, <3>3 DEF InLine, Falling, Rising
    <3>4. CASE in'[q][k] # in[q][k]
      <4> DEFINE w == in[q][k]
                 x == [frame |-> chan[q].answer.frames[k], step |-> STEPS]
                 X == [frame : Nat, step : 0 .. STEPS]
      <4>1. in'[q][k] = Append(w, x) /\ chan[q].answer.status = 200
            /\ chan[q].answer.frames[k] # NoFrame
        <5>1. chan[q].answer.status # 200 => in' = in
          BY <2>4 DEF Receive
        <5>2. chan[q].answer.status = 200 =>
                in' = [in EXCEPT ![q] = [j \in Port |->
                  IF chan[q].answer.frames[j] = NoFrame THEN in[q][j]
                  ELSE Append(in[q][j], [frame |-> chan[q].answer.frames[j],
                                         step |-> STEPS])]]
          BY <2>4 DEF Receive
        <5>3. chan[q].answer.status = 200
          BY <3>4, <5>1
        <5>4. in'[q][k] = IF chan[q].answer.frames[k] = NoFrame THEN in[q][k]
                          ELSE Append(w, x)
          BY <5>2, <5>3 DEF TypeOK
        <5> QED
          BY <3>4, <5>3, <5>4
      <4>2. phase[q] = "tick" /\ chan[q].kind = "tock"
        BY <2>4 DEF Receive
      <4>3. \A n \in 1 .. Len(w) : w[n].step < STEPS
        BY <2>0, <4>2 DEF InLine
      <4>4. w \in Seq(X)
        BY DEF TypeOK, Wire
      <4>5. x.step = STEPS /\ x \in X
        <5>1. chan[q] \in Exchange
          BY DEF TypeOK
        <5>2. chan[q].answer \in Reply
          BY <4>2, <5>1, ExchangeKinds
        <5>3. chan[q].answer.frames[k] \in Nat
          BY <4>1, <5>2 DEF Reply
        <5> QED
          BY <2>0, <5>3
      <4>6. Rising(w)
        BY <3>2
      <4> HIDE DEF w, x, X
      <4>7. /\ Len(Append(w, x)) = Len(w) + 1 /\ Len(w) \in Nat
            /\ Append(w, x)[Len(w) + 1] = x
            /\ \A n \in 1 .. Len(w) : Append(w, x)[n] = w[n]
        BY <4>4, <4>5, AppendProperties
      <4>8. ASSUME NEW m \in 1 .. Len(w) + 1, NEW n \in 1 .. Len(w) + 1, m < n
            PROVE  Append(w, x)[m].step < Append(w, x)[n].step
        <5>1. m \in 1 .. Len(w)
          BY <4>7, <4>8
        <5>2. CASE n \in 1 .. Len(w)
          BY <4>6, <4>7, <4>8, <5>1, <5>2 DEF Rising
        <5>3. CASE n \notin 1 .. Len(w)
          <6>1. n = Len(w) + 1
            BY <4>7, <5>3
          <6> QED
            BY <4>3, <4>5, <4>7, <5>1, <6>1
        <5> QED
          BY <5>2, <5>3
      <4>9. Rising(Append(w, x))
        BY <4>7, <4>8 DEF Rising
      <4> QED
        BY <3>1, <3>2, <4>1, <4>9 DEF InLine, Falling, Rising
    <3> QED
      BY <3>3, <3>4
  <2>5. CASE Close(q)
    <3>1. out'[q] = Empty /\ in'[q] = Empty
      BY <2>5 DEF Close, TypeOK
    <3>2. out'[q][k] = << >> /\ in'[q][k] = << >>
      BY <3>1 DEF Empty
    <3> QED
      BY <3>2 DEF InLine, Falling, Rising
  <2>6. CASE HandleHelo(q) \/ HandleTick(q)
    <3>1. UNCHANGED <<phase, out, in>>
      BY <2>6 DEF HandleHelo, HandleTick, pageVars
    <3> QED
      BY <2>0, <3>1 DEF InLine, Falling, Rising
  <2>7. CASE Stop
    <3>1. UNCHANGED <<out, in>> /\ phase'[q] # "tick"
      BY <2>7 DEF Stop
    <3> QED
      BY <2>0, <3>1 DEF InLine, Falling, Rising
  <2> QED
    BY <2>1, <2>2, <2>3, <2>4, <2>5, <2>6, <2>7, StepOf
<1> QED
  BY <1>1, <1>2, TypeCorrect, PTL DEF Spec

(* No two frames of a wire are at the same position, however ticks, their  *)
(* answers and new pages interleave: updateLoop keeps one frame of each    *)
(* port for the tick it sends, so a second at the last step would be lost. *)
THEOREM WiresHoldOneFramePerStep == Spec => []OneFramePerStep
<1>1. TypeOK /\ WiresInv => OneFramePerStep
  <2> SUFFICES ASSUME TypeOK, WiresInv, NEW p \in Page, NEW k \in Port
               PROVE  /\ IsInjective([n \in DOMAIN out[p][k] |-> out[p][k][n].step])
                      /\ IsInjective([n \in DOMAIN in[p][k] |-> in[p][k][n].step])
    BY DEF OneFramePerStep
  <2>1. /\ out[p][k] \in Wire(User, 1 .. STEPS) /\ in[p][k] \in Wire(Nat, 0 .. STEPS)
        /\ Falling(out[p][k]) /\ Rising(in[p][k]) /\ STEPS \in Nat
    BY SimulatorAssumption DEF TypeOK, WiresInv, InLine
  <2>2. /\ DOMAIN out[p][k] = 1 .. Len(out[p][k])
        /\ \A n \in 1 .. Len(out[p][k]) : out[p][k][n].step \in 1 .. STEPS
    BY <2>1, WireIs
  <2>3. /\ DOMAIN in[p][k] = 1 .. Len(in[p][k])
        /\ \A n \in 1 .. Len(in[p][k]) : in[p][k][n].step \in 0 .. STEPS
    BY <2>1, WireIs
  <2>4. ASSUME NEW m \in 1 .. Len(out[p][k]), NEW n \in 1 .. Len(out[p][k]),
               out[p][k][m].step = out[p][k][n].step
        PROVE  m = n
    <3>1. ~(m < n) /\ ~(n < m)
      BY <2>1, <2>2, <2>4 DEF Falling
    <3> QED
      BY <3>1
  <2>5. ASSUME NEW m \in 1 .. Len(in[p][k]), NEW n \in 1 .. Len(in[p][k]),
               in[p][k][m].step = in[p][k][n].step
        PROVE  m = n
    <3>1. ~(m < n) /\ ~(n < m)
      BY <2>1, <2>3, <2>5 DEF Rising
    <3> QED
      BY <3>1
  <2> QED
    BY <2>2, <2>3, <2>4, <2>5 DEF IsInjective
<1> QED
  BY <1>1, TypeCorrect, LinesKept, PTL

----------------------------------------------------------------------------
(* The ids of switches                                                     *)

(* A page gets an id from its /helo and has the same one ever after. *)
LEMMA IdKept ==
  ASSUME TypeOK, Discipline, [Next]_vars, ~Stop, NEW q \in Page, ~HandleHelo(q),
         HasId(q)'
  PROVE  HasId(q) /\ IdOf(q)' = IdOf(q)
<1>0. Orderly(q) /\ chan[q] \in Exchange /\ phase[q] \in Phases
  BY DEF Discipline, TypeOK
<1>1. CASE Apart(q)
  BY <1>1 DEF Apart, HasId, IdOf, Ticking
<1>2. CASE Open(q)
  BY <1>2 DEF Open, HasId, Ticking, HeloRequest, TypeOK
<1>3. CASE Started(q)
  <2>1. /\ chan[q].kind = "hello" /\ switchId'[q] = chan[q].id
        /\ chan'[q].kind = "none"
    BY <1>3 DEF Started, None, TypeOK
  <2> QED
    BY <2>1 DEF HasId, IdOf
<1>4. CASE SendTick(q)
  <2>1. phase[q] = "ready" /\ chan[q].kind = "none" /\ switchId'[q] = switchId[q]
    BY <1>0, <1>4 DEF SendTick, Orderly, None
  <2>2. up => chan'[q].kind = "tick" /\ chan'[q].id = switchId[q]
    BY <1>4 DEF SendTick, TypeOK, TickRequest
  <2>3. ~up => chan' = chan /\ phase'[q] = "error"
    BY <1>4 DEF SendTick, TypeOK
  <2> QED
    BY <2>1, <2>2, <2>3 DEF HasId, IdOf, Ticking
<1>5. CASE Receive(q)
  <2>1. /\ phase[q] = "tick" /\ chan[q].kind = "tock"
        /\ chan'[q].kind = "none" /\ switchId'[q] = switchId[q]
    BY <1>5 DEF Receive, None, TypeOK
  <2> QED
    BY <2>1 DEF HasId, IdOf, Ticking
<1>6. CASE Close(q)
  <2>1. phase'[q] = "closed"
    BY <1>6 DEF Close, TypeOK
  <2>2. chan'[q] = IF chan[q].kind \in {"helo", "tick"} THEN chan[q] ELSE None
    BY <1>6 DEF Close, TypeOK
  <2> QED
    BY <2>1, <2>2 DEF HasId, IdOf, Ticking, None
<1>7. CASE HandleTick(q)
  <2>1. /\ UNCHANGED <<phase, switchId>> /\ chan[q].kind = "tick"
        /\ chan'[q].kind = IF phase[q] = "closed" THEN "none" ELSE "tock"
    BY <1>7 DEF HandleTick, Answer, None, TickReply, TypeOK, pageVars
  <2>2. \/ phase[q] = "closed"
        \/ phase[q] = "tick" /\ chan[q].id = switchId[q]
    BY <1>0, <2>1 DEF Orderly, Phases, None
  <2> QED
    BY <2>1, <2>2 DEF HasId, IdOf, Ticking
<1> QED
  BY <1>1, <1>2, <1>3, <1>4, <1>5, <1>6, <1>7, StepOf

LEMMA IdGiven ==
  ASSUME TypeOK, Discipline, NEW q \in Page, HandleHelo(q)
  PROVE  /\ lastId' = lastId + 1 /\ sw' = FreshSwitch(lastId + 1)
         /\ sw'.id = lastId + 1
         /\ phase' = phase
         /\ HasId(q)' => /\ phase[q] = "helo" /\ chan'[q].kind = "hello"
                         /\ chan'[q].id = lastId + 1
                         /\ IdOf(q)' = lastId + 1
<1>0. Orderly(q) /\ chan[q] \in Exchange /\ phase[q] \in Phases
  BY DEF Discipline, TypeOK
<1>1. /\ lastId' = lastId + 1 /\ sw' = FreshSwitch(lastId + 1)
      /\ UNCHANGED phase /\ chan[q].kind = "helo"
  BY DEF HandleHelo, Helo, pageVars
<1>2. sw'.id = lastId + 1
  BY <1>1, FreshType DEF TypeOK
<1>3. phase[q] = "closed" \/ phase[q] = "helo"
  BY <1>0, <1>1 DEF Orderly, Phases, None
<1>4. chan'[q] = IF phase[q] = "closed" THEN None ELSE HeloAnswer(lastId + 1)
  BY <1>2 DEF HandleHelo, Answer, TypeOK
<1> QED
  BY <1>1, <1>2, <1>3, <1>4 DEF HasId, IdOf, Ticking, None, HeloAnswer

(* Every other step keeps the switch's id, until the process ends. *)
LEMMA SwitchKept ==
  ASSUME TypeOK, [Next]_vars, ~Stop, \A p \in Page : ~HandleHelo(p)
  PROVE  lastId' = lastId /\ sw'.id = sw.id
<1>1. ASSUME NEW p \in Page,
             \/ Open(p) \/ Started(p) \/ SendTick(p) \/ Receive(p) \/ Close(p)
             \/ \E k \in Port : SendPacket(p, k)
      PROVE  UNCHANGED <<lastId, sw>>
  BY <1>1 DEF Open, Started, SendTick, Receive, Close, SendPacket
<1>2. ASSUME NEW p \in Page, HandleTick(p) PROVE lastId' = lastId /\ sw'.id = sw.id
  <2>1. PICK fw : Tick(chan[p].id, chan[p].body, fw)
    BY <1>2 DEF HandleTick
  <2>2. chan[p].body \in Body
    <3>1. chan[p] \in Exchange /\ chan[p].kind = "tick"
      BY <1>2 DEF HandleTick, TypeOK
    <3> QED
      BY <3>1, ExchangeKinds, PagesParse
  <2> QED
    BY <2>1, <2>2, TickType DEF TypeOK, Tick
<1>3. ASSUME NEW k \in Port, HandleScript(k) PROVE lastId' = lastId /\ sw'.id = sw.id
  <2> DEFINE body == [j \in Port |-> IF j < k THEN 0 ELSE Malformed]
  <2>1. Tick(sw.id, body, [j \in Port |-> {}]) /\ body \in Body
    BY <1>3, ScriptBody DEF HandleScript
  <2> HIDE DEF body
  <2> QED
    BY <2>1, TickType DEF TypeOK, Tick
<1>4. CASE Start \/ UNCHANGED vars
  BY <1>4 DEF Start, vars
<1> QED
  BY <1>1, <1>2, <1>3, <1>4 DEF Next

LEMMA StopsOnlyGrow ==
  ASSUME TypeOK, [Next]_vars, stops' = 0
  PROVE  stops = 0 /\ ~Stop
<1>1. Stop => stops' # 0
  BY DEF Stop, TypeOK
<1>2. ~Stop => stops' = stops
  BY DEF Next, vars, Open, Started, SendTick, Receive, Close, SendPacket,
         HandleHelo, HandleTick, HandleScript, Start
<1> QED
  BY <1>1, <1>2

LEMMA IdsDiffer == Spec => []IdsInv
<1>1. Init => IdsInv
  BY FreshType DEF Init, IdsInv, HasId, Ticking, None, NoSwitch
<1>2. TypeOK /\ Discipline /\ IdsInv /\ [Next]_vars => IdsInv'
  <2> SUFFICES ASSUME TypeOK, Discipline, IdsInv, [Next]_vars PROVE IdsInv'
    OBVIOUS
  <2>0. lastId \in Nat /\ sw.id = lastId
    BY DEF TypeOK, IdsInv
  <2>1. sw'.id = lastId'
    <3>1. CASE Stop
      BY <3>1, FreshType DEF Stop, NoSwitch
    <3>2. CASE \E p \in Page : HandleHelo(p)
      BY <3>2, IdGiven
    <3>3. CASE ~Stop /\ \A p \in Page : ~HandleHelo(p)
      BY <2>0, <3>3, SwitchKept
    <3> QED
      BY <3>1, <3>2, <3>3
  <2>2. SUFFICES ASSUME stops' = 0
                 PROVE  /\ \A p \in Page : HasId(p)' => IdOf(p)' \in 1 .. lastId'
                        /\ \A p, q \in Page :
                             HasId(p)' /\ HasId(q)' /\ IdOf(p)' = IdOf(q)' => p = q
    BY <2>1 DEF IdsInv
  <2>3. stops = 0 /\ ~Stop
    BY <2>2, StopsOnlyGrow
  <2>4. /\ \A p \in Page : HasId(p) => IdOf(p) \in 1 .. lastId
        /\ \A p, q \in Page : HasId(p) /\ HasId(q) /\ IdOf(p) = IdOf(q) => p = q
    BY <2>3 DEF IdsInv
  <2>5. CASE \A p \in Page : ~HandleHelo(p)
    <3>1. \A p \in Page : HasId(p)' => HasId(p) /\ IdOf(p)' = IdOf(p)
      BY <2>3, <2>5, IdKept
    <3>2. lastId' = lastId
      BY <2>3, <2>5, SwitchKept
    <3> QED
      BY <2>4, <3>1, <3>2
  <2>6. ASSUME NEW r \in Page, HandleHelo(r)
        PROVE  /\ \A p \in Page : HasId(p)' => IdOf(p)' \in 1 .. lastId'
               /\ \A p, q \in Page :
                    HasId(p)' /\ HasId(q)' /\ IdOf(p)' = IdOf(q)' => p = q
    <3>1. lastId' = lastId + 1 /\ (HasId(r)' => IdOf(r)' = lastId + 1)
      BY <2>6, IdGiven
    <3>2. ASSUME NEW p \in Page, p # r, HasId(p)'
          PROVE  HasId(p) /\ IdOf(p)' = IdOf(p)
      <4>1. Apart(p)
        BY <2>6, <3>2, OthersApart
      <4> QED
        BY <3>2, <4>1 DEF Apart, HasId, IdOf, Ticking
    <3>3. ASSUME NEW p \in Page, p # r, HasId(p)'
          PROVE  IdOf(p)' \in 1 .. lastId /\ IdOf(p)' # lastId + 1
      BY <2>0, <2>4, <3>2, <3>3
    <3>4. \A p \in Page : HasId(p)' => IdOf(p)' \in 1 .. lastId'
      <4>1. lastId + 1 \in 1 .. lastId + 1
        BY <2>0
      <4>2. \A i \in 1 .. lastId : i \in 1 .. lastId + 1
        BY <2>0
      <4> QED
        BY <3>1, <3>3, <4>1, <4>2
    <3>5. ASSUME NEW p \in Page, NEW q \in Page, HasId(p)', HasId(q)',
                 IdOf(p)' = IdOf(q)'
          PROVE  p = q
      <4>1. CASE p # r /\ q # r
        BY <2>4, <3>2, <3>5, <4>1
      <4>2. CASE p = r \/ q = r
        BY <3>1, <3>3, <3>5, <4>2
      <4> QED
        BY <4>1, <4>2
    <3> QED
      BY <3>4, <3>5
  <2> QED
    BY <2>5, <2>6
<1> QED
  BY <1>1, <1>2, TypeCorrect, OrderlyKept, PTL DEF Spec

(* No two pages drive the same switch while one server process lasts:      *)
(* getHelo gives every page an id of its own, whatever else is answered in *)
(* between, also to pages that have gone.                                  *)
THEOREM PagesHaveTheirOwnSwitch == Spec => []OnePageTicks
<1>1. Discipline /\ IdsInv => OnePageTicks
  <2> SUFFICES ASSUME Discipline, IdsInv, stops = 0, NEW p \in Page, NEW q \in Page,
                      Ticking(p), Ticking(q), switchId[p] = switchId[q]
               PROVE  p = q
    BY DEF OnePageTicks
  <2>1. ASSUME NEW r \in Page, Ticking(r) PROVE HasId(r) /\ IdOf(r) = switchId[r]
    <3>1. Orderly(r)
      BY DEF Discipline
    <3> QED
      BY <2>1, <3>1 DEF Orderly, Ticking, HasId, IdOf, None
  <2> QED
    BY <2>1 DEF IdsInv
<1> QED
  BY <1>1, OrderlyKept, IdsDiffer, PTL

----------------------------------------------------------------------------
(* What a tick does to the queues                                          *)

Listed(f) == IF f = NoFrame THEN << >> ELSE <<f>>

LEMMA Associative ==
  \A X : \A u, v, w \in Seq(X) : (u \o v) \o w = u \o (v \o w)
<1> SUFFICES ASSUME NEW X, NEW u \in Seq(X), NEW v \in Seq(X), NEW w \in Seq(X)
             PROVE  (u \o v) \o w = u \o (v \o w)
  OBVIOUS
<1> QED
  BY ConcatAssociative, SMTT(30)

Queue == Seq(Nat)

LEMMA AssociativeNat ==
  \A u, v, w \in Queue : (u \o v) \o w = u \o (v \o w)
<1> DEFINE X == Nat
<1> HIDE DEF X
<1>1. \A u, v, w \in Seq(X) : (u \o v) \o w = u \o (v \o w)
  BY Associative
<1> QED
  BY <1>1 DEF X, Queue

LEMMA ConcatAppend ==
  \A X : \A u, v \in Seq(X), x \in X : u \o Append(v, x) = Append(u \o v, x)
<1> SUFFICES ASSUME NEW X, NEW u \in Seq(X), NEW v \in Seq(X), NEW x \in X
             PROVE  u \o Append(v, x) = Append(u \o v, x)
  OBVIOUS
<1>1. <<x>> \in Seq(X) /\ u \o v \in Seq(X)
  OBVIOUS
<1>2. Append(v, x) = v \o <<x>> /\ Append(u \o v, x) = (u \o v) \o <<x>>
  BY <1>1, AppendIsConcat
<1> QED
  BY <1>1, <1>2, Associative

LEMMA ConcatAppendNat ==
  \A u, v \in Queue, x \in Nat : u \o Append(v, x) = Append(u \o v, x)
<1> DEFINE X == Nat
<1> HIDE DEF X
<1>1. \A u, v \in Seq(X), x \in X : u \o Append(v, x) = Append(u \o v, x)
  BY ConcatAppend
<1> QED
  BY <1>1 DEF X, Queue

(* The frame a tick brings to a port joins those that wait there, and the  *)
(* first of them is taken; ...                                             *)
Takes(p, k) ==
  \E r \in Seq(Nat) :
    /\ r = IF chan[p].body[k] = NoFrame THEN sw.recv[k]
           ELSE Append(sw.recv[k], chan[p].body[k])
    /\ sw'.recv[k] = IF r = << >> THEN << >> ELSE Tail(r)
    /\ taken'[k] \o sw'.recv[k] = taken[k] \o r
(* ... what the switch queues for the port joins what waits there, and the *)
(* first of it goes into the answer.                                       *)
Gives(p, k) ==
  \E q \in Seq(Nat), f \in Nat \cup {NoFrame} :
    /\ queued'[k] = queued[k] \o q
    /\ sw.send[k] \o q = Listed(f) \o sw'.send[k]
    /\ phase[p] # "closed" =>
         /\ chan'[p].kind = "tock" /\ chan'[p].answer.status = 200
         /\ chan'[p].answer.frames[k] = f

LEMMA TickServed ==
  ASSUME TypeOK, NEW p \in Page, HandleTick(p), Current(chan[p].id), NEW k \in Port
  PROVE  chan[p].body[k] \in User \cup {NoFrame} /\ Takes(p, k) /\ Gives(p, k)
<1> DEFINE i == chan[p].id
           body == chan[p].body
           s == StuffRecvQueue(sw, body)
           served == Current(i) /\ Parses(body)
<1>1. PICK fw \in [Port -> Forwardings] :
        /\ Tick(i, body, fw)
        /\ Answer(p, TickReply(TickAnswer(i, body, fw)))
        /\ taken' = [j \in Port |-> IF served /\ j \in TakenFrom(s)
                                    THEN Append(taken[j], Head(s.recv[j]))
                                    ELSE taken[j]]
        /\ queued' = [j \in Port |-> IF served
                                     THEN queued[j] \o QueuedFor(s, fw, j)
                                     ELSE queued[j]]
  BY DEF HandleTick
<1>2. /\ sw \in Switch /\ body \in [Port -> User \cup {NoFrame}]
      /\ body \in Body /\ Parses(body) /\ ParsedPorts(body) = Port
  <2>1. chan[p] \in Exchange /\ chan[p].kind = "tick"
    BY DEF HandleTick, TypeOK
  <2> QED
    BY <2>1, ExchangeKinds, PagesParse DEF TypeOK
<1>3. served
  BY <1>2
<1>4. /\ s \in Switch /\ s.send = sw.send
      /\ s.recv[k] = IF body[k] # NoFrame THEN Append(sw.recv[k], body[k])
                     ELSE sw.recv[k]
  BY <1>2, StuffType
<1> DEFINE t == ProcessFrames(s, fw)
<1>5. sw' = PopSendQueues(t) /\ TickAnswer(i, body, fw) = [status |-> 200, frames |-> Popped(t)]
  BY <1>1, <1>3 DEF Tick, TickAnswer, Served
<1> HIDE DEF body, s
<1>6. /\ t \in Switch
      /\ t.recv[k] = IF s.recv[k] = << >> THEN << >> ELSE Tail(s.recv[k])
      /\ t.send[k] = s.send[k] \o QueuedFor(s, fw, k)
  BY <1>4, ProcessType
<1> HIDE DEF t
<1>7. /\ PopSendQueues(t).recv = t.recv
      /\ Popped(t)[k] \in Nat \cup {NoFrame}
      /\ t.send[k] = Listed(Popped(t)[k]) \o PopSendQueues(t).send[k]
  BY <1>6, PopType DEF Listed
<1>8. /\ s.recv[k] \in Seq(Nat) /\ taken[k] \in Seq(Nat) /\ queued[k] \in Seq(Nat)
      /\ QueuedFor(s, fw, k) \in Seq(Nat)
  BY <1>4, QueuedType DEF Switch, TypeOK
<1>9. sw'.recv[k] = IF s.recv[k] = << >> THEN << >> ELSE Tail(s.recv[k])
  BY <1>5, <1>6, <1>7
<1>10. taken'[k] \o sw'.recv[k] = taken[k] \o s.recv[k]
  <2>1. CASE s.recv[k] = << >>
    <3>1. taken'[k] = taken[k]
      BY <1>1, <2>1 DEF TakenFrom
    <3> QED
      BY <1>9, <2>1, <3>1
  <2>2. CASE s.recv[k] # << >>
    <3>1. taken'[k] = Append(taken[k], Head(s.recv[k]))
      BY <1>1, <1>3, <2>2 DEF TakenFrom
    <3>2. /\ Head(s.recv[k]) \in Nat /\ Tail(s.recv[k]) \in Seq(Nat)
          /\ s.recv[k] = <<Head(s.recv[k])>> \o Tail(s.recv[k])
      BY <1>8, <2>2
    <3>3. Append(taken[k], Head(s.recv[k])) = taken[k] \o <<Head(s.recv[k])>>
      BY <1>8, <3>2, AppendIsConcat
    <3>4. <<Head(s.recv[k])>> \in Seq(Nat)
      BY <3>2
    <3>5. (taken[k] \o <<Head(s.recv[k])>>) \o Tail(s.recv[k])
            = taken[k] \o (<<Head(s.recv[k])>> \o Tail(s.recv[k]))
      <4> DEFINE u == taken[k]
                 v == <<Head(s.recv[k])>>
                 w == Tail(s.recv[k])
      <4>1. u \in Seq(Nat) /\ v \in Seq(Nat) /\ w \in Seq(Nat)
        BY <1>8, <3>2, <3>4
      <4> HIDE DEF u, v, w
      <4>2. (u \o v) \o w = u \o (v \o w)
        BY <4>1, AssociativeNat DEF Queue
      <4> QED
        BY <4>2 DEF u, v, w
    <3>6. sw'.recv[k] = Tail(s.recv[k])
      BY <1>9, <2>2
    <3> QED
      BY <3>1, <3>2, <3>3, <3>5, <3>6
  <2> QED
    BY <2>1, <2>2
<1>11. queued'[k] = queued[k] \o QueuedFor(s, fw, k)
  BY <1>1, <1>3
<1>12. sw.send[k] \o QueuedFor(s, fw, k) = Listed(Popped(t)[k]) \o sw'.send[k]
  BY <1>4, <1>5, <1>6, <1>7
<1>13. phase[p] # "closed" =>
         /\ chan'[p].kind = "tock" /\ chan'[p].answer.status = 200
         /\ chan'[p].answer.frames[k] = Popped(t)[k]
  <2>1. phase[p] # "closed" => chan'[p] = TickReply([status |-> 200, frames |-> Popped(t)])
    BY <1>1, <1>5 DEF Answer, TypeOK
  <2> QED
    BY <2>1 DEF TickReply
<1>14. body[k] \in User \cup {NoFrame}
  BY <1>2
<1>15. Takes(p, k)
  <2> DEFINE r == s.recv[k]
  <2>1. /\ r \in Seq(Nat)
        /\ r = IF body[k] = NoFrame THEN sw.recv[k] ELSE Append(sw.recv[k], body[k])
        /\ sw'.recv[k] = IF r = << >> THEN << >> ELSE Tail(r)
        /\ taken'[k] \o sw'.recv[k] = taken[k] \o r
    BY <1>4, <1>8, <1>9, <1>10
  <2> HIDE DEF r
  <2> QED
    BY <2>1 DEF Takes, body
<1>16. Gives(p, k)
  <2> DEFINE Hands(q, f) == /\ queued'[k] = queued[k] \o q
                            /\ sw.send[k] \o q = Listed(f) \o sw'.send[k]
                            /\ phase[p] # "closed" =>
                                 /\ chan'[p].kind = "tock" /\ chan'[p].answer.status = 200
                                 /\ chan'[p].answer.frames[k] = f
  <2>1. Hands(QueuedFor(s, fw, k), Popped(t)[k])
    BY <1>11, <1>12, <1>13
  <2> HIDE DEF Hands
  <2>2. \E q \in Seq(Nat), f \in Nat \cup {NoFrame} : Hands(q, f)
    BY ONLY <1>7, <1>8, <2>1
  <2> QED
    BY ONLY <2>2 DEF Hands, Gives
<1> QED
  BY <1>14, <1>15, <1>16 DEF body

LEMMA TickRefused ==
  ASSUME TypeOK, NEW p \in Page, HandleTick(p), ~Current(chan[p].id)
  PROVE  /\ sw' = sw
         /\ \A k \in Port : taken'[k] = taken[k] /\ queued'[k] = queued[k]
         /\ phase[p] # "closed" =>
              chan'[p].kind = "tock" /\ chan'[p].answer.status = 412
<1>1. PICK fw : /\ Tick(chan[p].id, chan[p].body, fw)
                /\ Answer(p, TickReply(TickAnswer(chan[p].id, chan[p].body, fw)))
  BY DEF HandleTick
<1>2. sw' = sw /\ TickAnswer(chan[p].id, chan[p].body, fw) = [status |-> 412]
  BY <1>1 DEF Tick, TickAnswer
<1>3. \A k \in Port : taken'[k] = taken[k] /\ queued'[k] = queued[k]
  BY DEF HandleTick
<1>4. phase[p] # "closed" => chan'[p] = TickReply([status |-> 412])
  BY <1>1, <1>2 DEF Answer, TypeOK
<1>5. phase[p] # "closed" => chan'[p].kind = "tock" /\ chan'[p].answer.status = 412
  BY <1>4 DEF TickReply
<1> QED
  BY <1>2, <1>3, <1>5

LEMMA ScriptRefused ==
  ASSUME TypeOK, NEW j \in Port, HandleScript(j), NEW k \in Port
  PROVE  /\ sw'.recv[k] = sw.recv[k] \/ sw'.recv[k] = Append(sw.recv[k], 0)
         /\ sw'.send[k] = sw.send[k] /\ sw'.id = sw.id
<1> DEFINE body == [n \in Port |-> IF n < j THEN 0 ELSE Malformed]
           fw == [n \in Port |-> {}]
<1>1. Tick(sw.id, body, fw) /\ body \in Body /\ ~Parses(body)
  BY ScriptBody DEF HandleScript
<1>2. body[k] = 0 \/ body[k] = Malformed
  OBVIOUS
<1>3. k \in ParsedPorts(body) => body[k] = 0
  <2>1. k \in 0 .. k
    BY PortsAre
  <2> QED
    BY <1>2, <2>1 DEF ParsedPorts
<1> HIDE DEF body, fw
<1>4. sw' = sw \/ sw' = StuffRecvQueue(sw, body)
  BY <1>1 DEF Tick
<1>5. /\ StuffRecvQueue(sw, body).id = sw.id
      /\ StuffRecvQueue(sw, body).send = sw.send
      /\ StuffRecvQueue(sw, body).recv[k] =
           IF k \in ParsedPorts(body) /\ body[k] # NoFrame
           THEN Append(sw.recv[k], body[k]) ELSE sw.recv[k]
  BY <1>1, StuffType DEF TypeOK
<1> QED
  BY <1>3, <1>4, <1>5

(* No receive queue holds more than the ticks the server refused: each     *)
(* tick it serves takes from every port as much as it brought.             *)
THEOREM BacklogIsOfScripts == Spec => []RecvBacklog
<1>1. Init => RecvBacklog
  BY DEF Init, RecvBacklog, NoSwitch, FreshSwitch
<1>2. TypeOK /\ RecvBacklog /\ [Next]_vars => RecvBacklog'
  <2> SUFFICES ASSUME TypeOK, RecvBacklog, [Next]_vars, NEW k \in Port
               PROVE  Len(sw'.recv[k]) <= scripts'
    BY DEF RecvBacklog
  <2>0. /\ sw.recv[k] \in Seq(Nat) /\ Len(sw.recv[k]) \in Nat
        /\ scripts \in Nat /\ Len(sw.recv[k]) <= scripts
    BY DEF TypeOK, Switch, RecvBacklog
  <2>1. CASE UNCHANGED <<sw, scripts>>
    BY <2>0, <2>1
  <2>2. CASE \E p \in Page : HandleHelo(p)
    <3>1. scripts' = scripts /\ sw'.recv[k] = << >>
      BY <2>2 DEF HandleHelo, Helo, FreshSwitch
    <3> QED
      BY <2>0, <3>1
  <2>3. ASSUME NEW p \in Page, HandleTick(p)
        PROVE  Len(sw'.recv[k]) <= scripts'
    <3>1. scripts' = scripts
      BY <2>3 DEF HandleTick
    <3>2. CASE ~Current(chan[p].id)
      BY <2>0, <2>3, <3>1, <3>2, TickRefused
    <3>3. CASE Current(chan[p].id)
      <4>1. PICK r \in Seq(Nat) :
              /\ r = IF chan[p].body[k] = NoFrame THEN sw.recv[k]
                     ELSE Append(sw.recv[k], chan[p].body[k])
              /\ sw'.recv[k] = IF r = << >> THEN << >> ELSE Tail(r)
              /\ taken'[k] \o sw'.recv[k] = taken[k] \o r
        <5>1. Takes(p, k)
          BY <2>3, <3>3, TickServed
        <5> QED
          BY <5>1 DEF Takes
      <4>0. /\ r = IF chan[p].body[k] = NoFrame THEN sw.recv[k]
                   ELSE Append(sw.recv[k], chan[p].body[k])
            /\ sw'.recv[k] = IF r = << >> THEN << >> ELSE Tail(r)
        BY ONLY <4>1
      <4>2. Len(r) <= Len(sw.recv[k]) + 1 /\ Len(r) \in Nat
        <5>1. CASE chan[p].body[k] = NoFrame
          BY <2>0, <4>0, <5>1
        <5>2. CASE chan[p].body[k] # NoFrame
          <6>1. chan[p].body[k] \in Nat
            <7>1. chan[p].body[k] \in User \cup {NoFrame}
              BY <2>3, <3>3, TickServed
            <7> QED
              BY <5>2, <7>1 DEF User
          <6>2. r = Append(sw.recv[k], chan[p].body[k])
            BY <4>0, <5>2
          <6>3. Len(r) = Len(sw.recv[k]) + 1
            BY <2>0, <6>1, <6>2
          <6> QED
            BY <2>0, <6>3
        <5> QED
          BY <5>1, <5>2
      <4>3. CASE r = << >>
        <5>1. sw'.recv[k] = << >>
          BY <4>0, <4>3
        <5>2. Len(sw'.recv[k]) = 0
          BY <5>1
        <5> QED
          BY <2>0, <3>1, <5>2
      <4>4. CASE r # << >>
        <5>1. Len(Tail(r)) = Len(r) - 1
          BY <4>4
        <5>2. sw'.recv[k] = Tail(r)
          BY <4>0, <4>4
        <5>3. Len(sw'.recv[k]) = Len(r) - 1
          BY <5>1, <5>2
        <5> QED
          BY <2>0, <3>1, <4>2, <5>3
      <4> QED
        BY <4>3, <4>4
    <3> QED
      BY <3>2, <3>3
  <2>4. ASSUME NEW j \in Port, HandleScript(j)
        PROVE  Len(sw'.recv[k]) <= scripts'
    <3>1. scripts' = scripts + 1
      BY <2>4 DEF HandleScript
    <3>2. sw'.recv[k] = sw.recv[k] \/ sw'.recv[k] = Append(sw.recv[k], 0)
      BY <2>4, ScriptRefused
    <3>3. Len(Append(sw.recv[k], 0)) = Len(sw.recv[k]) + 1
      BY <2>0
    <3> QED
      BY <2>0, <3>1, <3>2, <3>3
  <2>5. CASE Stop
    <3>1. scripts' = scripts /\ sw'.recv[k] = << >>
      BY <2>5 DEF Stop, NoSwitch, FreshSwitch
    <3> QED
      BY <2>0, <3>1
  <2>6. ASSUME NEW p \in Page,
               \/ Open(p) \/ Started(p) \/ SendTick(p) \/ Receive(p) \/ Close(p)
               \/ \E j \in Port : SendPacket(p, j)
        PROVE  UNCHANGED <<sw, scripts>>
    BY <2>6 DEF Open, Started, SendTick, Receive, Close, SendPacket
  <2>7. CASE Start \/ UNCHANGED vars
    BY <2>1, <2>7 DEF Start, vars
  <2> QED
    BY <2>1, <2>2, <2>3, <2>4, <2>5, <2>6, <2>7 DEF Next
<1> QED
  BY <1>1, <1>2, TypeCorrect, PTL DEF Spec

----------------------------------------------------------------------------
(* The current page                                                        *)

OwnersHaveId ==
  \A q \in Page :
    Owns(q) <=> HasId(q) /\ IdOf(q) = sw.id /\ phase[q] # "closed"
LEMMA OwnsId == TypeOK /\ Discipline => OwnersHaveId
<1> SUFFICES ASSUME TypeOK, Discipline, NEW q \in Page
             PROVE  Owns(q) <=> HasId(q) /\ IdOf(q) = sw.id /\ phase[q] # "closed"
  BY DEF OwnersHaveId
<1>1. Orderly(q) /\ chan[q] \in Exchange /\ phase[q] \in Phases
  BY DEF Discipline, TypeOK
<1>2. CASE Ticking(q)
  <2>1. HasId(q) /\ IdOf(q) = switchId[q] /\ phase[q] \notin {"closed", "helo"}
    BY <1>1, <1>2 DEF Orderly, HasId, IdOf, Ticking, None
  <2> QED
    BY <1>2, <2>1 DEF Owns, Owner
<1>3. CASE ~Ticking(q)
  <2>1. HasId(q) <=> chan[q].kind \in {"hello", "tick"}
    BY <1>3 DEF HasId
  <2>2. chan[q].kind = "hello" => phase[q] = "helo"
    BY <1>1, <1>3 DEF Orderly, Phases, Ticking, None
  <2>3. chan[q].kind = "tick" => phase[q] = "closed"
    BY <1>1, <1>3 DEF Orderly, Phases, Ticking, None
  <2>4. Owns(q) <=> phase[q] = "helo" /\ chan[q].kind = "hello" /\ chan[q].id = sw.id
    BY <1>3 DEF Owns, Owner
  <2> QED
    BY <2>1, <2>2, <2>3, <2>4 DEF IdOf
<1> QED
  BY <1>2, <1>3

LEMMA ClosedForGood ==
  ASSUME TypeOK, Discipline, [Next]_vars, NEW q \in Page, phase[q] = "closed"
  PROVE  phase'[q] = "closed"
<1>1. CASE Apart(q)
  BY <1>1 DEF Apart
<1>2. ~Open(q) /\ ~Started(q) /\ ~SendTick(q) /\ ~Receive(q)
  BY DEF Open, Started, SendTick, Receive
<1>3. CASE Close(q)
  BY <1>3 DEF Close, TypeOK
<1>4. CASE HandleHelo(q) \/ HandleTick(q)
  BY <1>4 DEF HandleHelo, HandleTick, pageVars
<1>5. CASE Stop
  BY <1>5 DEF Stop
<1> QED
  BY <1>1, <1>2, <1>3, <1>4, <1>5, StepOf

(* How a step can leave q the current page. *)
StaysOwner(q) ==
  \/ Apart(q) /\ sw' = sw /\ taken' = taken /\ queued' = queued
  \/ Apart(q) /\ \E j \in Port : HandleScript(j)
  \/ Apart(q) /\ \E p \in Page : HandleTick(p) /\ ~Current(chan[p].id)
  \/ Started(q)
  \/ SendTick(q) /\ up
  \/ Receive(q) /\ chan[q].answer.status = 200
  \/ HandleTick(q) /\ Current(chan[q].id) /\ phase[q] = "tick"

LEMMA OwnerStep ==
  ASSUME TypeOK, Discipline, Discipline', TypeOK', IdsInv, [Next]_vars, stops' = 0,
         NEW q \in Page, Owns(q)'
  PROVE  HandleHelo(q) \/ (Owns(q) /\ StaysOwner(q))
<1>1. stops = 0 /\ ~Stop
  BY StopsOnlyGrow
<1>2. /\ lastId \in Nat /\ sw.id = lastId
      /\ \A p \in Page : HasId(p) => IdOf(p) \in 1 .. lastId
      /\ \A p, r \in Page : HasId(p) /\ HasId(r) /\ IdOf(p) = IdOf(r) => p = r
  BY <1>1 DEF IdsInv, TypeOK
<1>3. HasId(q)' /\ IdOf(q)' = sw'.id /\ phase'[q] # "closed"
  <2>1. OwnersHaveId'
    BY OwnsId, PTL
  <2> QED
    BY <2>1 DEF OwnersHaveId
<1> SUFFICES ASSUME ~HandleHelo(q) PROVE Owns(q) /\ StaysOwner(q)
  OBVIOUS
<1>4. HasId(q) /\ IdOf(q)' = IdOf(q)
  BY <1>1, <1>3, IdKept
<1>5. ASSUME NEW p \in Page PROVE ~HandleHelo(p)
  <2>1. SUFFICES ASSUME HandleHelo(p) PROVE FALSE
    OBVIOUS
  <2>2. sw'.id = lastId + 1
    BY <2>1, IdGiven
  <2> QED
    <3>1. IdOf(q) \in 1 .. lastId /\ IdOf(q) = lastId + 1
      BY <1>2, <1>3, <1>4, <2>2
    <3> QED
      BY <1>2, <3>1
<1>6. sw'.id = sw.id
  BY <1>1, <1>5, SwitchKept
<1>7. phase[q] # "closed"
  BY <1>3, ClosedForGood
<1>8. Owns(q)
  BY <1>3, <1>4, <1>6, <1>7, OwnsId DEF OwnersHaveId
<1>9. ASSUME NEW p \in Page, p # q,
             Open(p) \/ Started(p) \/ SendTick(p) \/ Receive(p) \/ Close(p)
      PROVE  Apart(q) /\ sw' = sw /\ UNCHANGED <<taken, queued>>
  <2>1. Apart(q)
    BY <1>9, OthersApart
  <2> QED
    BY <1>9, <2>1 DEF Open, Started, SendTick, Receive, Close, history
<1>10. CASE \/ \E p \in Page, j \in Port : SendPacket(p, j)
            \/ Start \/ UNCHANGED vars
  <2>1. Apart(q)
    BY <1>10, AllApart
  <2>2. sw' = sw /\ UNCHANGED <<taken, queued>>
    BY <1>10 DEF SendPacket, Start, vars, history
  <2> QED
    BY <1>8, <2>1, <2>2 DEF StaysOwner
<1>11. CASE \E j \in Port : HandleScript(j)
  BY <1>8, <1>11, AllApart DEF StaysOwner
<1>12. ASSUME NEW p \in Page, p # q, HandleTick(p)
       PROVE  Apart(q) /\ ~Current(chan[p].id)
  <2>1. Apart(q)
    BY <1>12, OthersApart
  <2>2. HasId(p) /\ IdOf(p) = chan[p].id
    BY <1>12 DEF HandleTick, HasId, IdOf
  <2>3. chan[p].id # sw.id
    BY <1>2, <1>3, <1>4, <1>6, <1>12, <2>2
  <2> QED
    BY <2>1, <2>3 DEF Current
<1>13. ~Open(q)
  BY <1>4 DEF Discipline, Orderly, Open, HasId, Ticking, None
<1>14. ~Close(q)
  BY <1>3 DEF Close, TypeOK
<1>15. SendTick(q) => up
  <2>1. SUFFICES ASSUME SendTick(q), ~up PROVE FALSE
    OBVIOUS
  <2>2. phase[q] = "ready" /\ phase'[q] = "error" /\ chan'[q] = chan[q]
    BY <2>1 DEF SendTick, TypeOK
  <2>3. chan[q].kind = "none"
    BY <2>2 DEF Discipline, Orderly, None
  <2> QED
    BY <1>3, <2>2, <2>3 DEF HasId, Ticking
<1>16. Receive(q) => chan[q].answer.status = 200
  <2>1. SUFFICES ASSUME Receive(q), chan[q].answer.status # 200 PROVE FALSE
    OBVIOUS
  <2>2. phase' = [phase EXCEPT ![q] = "error"] /\ chan' = [chan EXCEPT ![q] = None]
    BY <2>1 DEF Receive
  <2>3. phase'[q] = "error" /\ chan'[q].kind = "none"
    BY <2>2 DEF TypeOK, None
  <2> QED
    BY <1>3, <2>3 DEF HasId, Ticking
<1>17. HandleTick(q) => Current(chan[q].id) /\ phase[q] = "tick"
  <2>1. SUFFICES ASSUME HandleTick(q) PROVE Current(chan[q].id) /\ phase[q] = "tick"
    OBVIOUS
  <2>2. chan[q].kind = "tick" /\ IdOf(q) = chan[q].id
    BY <2>1 DEF HandleTick, IdOf
  <2>3. phase[q] = "tick"
    <3>1. Orderly(q) /\ phase[q] \in Phases
      BY DEF Discipline, TypeOK
    <3> QED
      BY <1>7, <2>2, <3>1 DEF Orderly, Phases, None
  <2>4. chan[q].id = sw.id /\ sw.id # 0
    <3>1. chan[q].id \in 1 .. lastId
      BY <1>2, <1>4, <2>2
    <3>2. chan[q].id = sw.id
      BY <1>3, <1>4, <1>6, <2>2
    <3> QED
      BY <1>2, <3>1, <3>2
  <2> QED
    BY <2>3, <2>4 DEF Current
<1> QED
  <2>1. CASE \/ \E p \in Page, j \in Port : SendPacket(p, j)
             \/ Start \/ UNCHANGED vars \/ \E j \in Port : HandleScript(j)
    BY <1>10, <1>11, <2>1
  <2>2. ASSUME NEW p \in Page,
               \/ Open(p) \/ Started(p) \/ SendTick(p) \/ Receive(p)
               \/ HandleHelo(p) \/ HandleTick(p) \/ Close(p)
        PROVE  StaysOwner(q)
    <3>1. CASE p = q
      BY <1>5, <1>13, <1>14, <1>15, <1>16, <1>17, <2>2, <3>1 DEF StaysOwner
    <3>2. CASE p # q
      <4>1. CASE HandleTick(p)
        BY <1>12, <3>2, <4>1 DEF StaysOwner
      <4>2. CASE ~HandleTick(p)
        BY <1>5, <1>9, <2>2, <3>2, <4>2 DEF StaysOwner
      <4> QED
        BY <4>1, <4>2
    <3> QED
      BY <3>1, <3>2
  <2> QED
    BY <1>1, <1>8, <2>1, <2>2 DEF Next

----------------------------------------------------------------------------
(* Up: from the hosts of the current page to its switch                    *)

LEMMA OfPagesType ==
  ASSUME NEW s \in Seq(Nat)
  PROVE  OfPages(s) \in Seq(Nat)
<1> DEFINE T == {n \in DOMAIN s : s[n] # 0}
<1>1. Len(s) \in Nat /\ \A n \in 1 .. Len(s) : n \in T => s[n] \in Nat
  BY ElementOfSeq
<1> HIDE DEF T
<1>2. AtPositions(s, T) \in Seq(Nat)
  BY <1>1, PositionsType
<1> QED
  BY <1>2 DEF OfPages, T

LEMMA OfPagesAppend ==
  ASSUME NEW s \in Seq(Nat), NEW x \in Nat
  PROVE  OfPages(Append(s, x)) = IF x = 0 THEN OfPages(s) ELSE OfPages(s) \o <<x>>
<1> DEFINE a == Append(s, x)
           T == {n \in DOMAIN a : a[n] # 0}
           U == {n \in DOMAIN s : s[n] # 0}
<1>1. /\ Len(s) \in Nat /\ DOMAIN s = 1 .. Len(s) /\ DOMAIN a = 1 .. Len(s) + 1
      /\ a[Len(s) + 1] = x /\ \A n \in 1 .. Len(s) : a[n] = s[n]
  OBVIOUS
<1>2. /\ \A n \in 1 .. Len(s) : n \in T <=> n \in U
      /\ Len(s) + 1 \in T <=> x # 0
  BY <1>1
<1> HIDE DEF T, U
<1>3. AtPositions(a, T) = IF Len(s) + 1 \in T THEN Append(AtPositions(s, U), x)
                          ELSE AtPositions(s, U)
  BY <1>2, PositionsAppend
<1>4. OfPages(a) = AtPositions(a, T) /\ OfPages(s) = AtPositions(s, U)
  BY DEF OfPages, T, U
<1>5. Append(OfPages(s), x) = OfPages(s) \o <<x>>
  BY OfPagesType, AppendIsConcat
<1> QED
  BY <1>2, <1>3, <1>4, <1>5

(* The parts of the equation are sequences of frames. *)
LEMMA UpTypes ==
  ASSUME TypeOK, NEW q \in Page, NEW k \in Port
  PROVE  /\ sw.recv[k] \in Seq(Nat) /\ taken[k] \in Seq(Nat)
         /\ taken[k] \o sw.recv[k] \in Seq(Nat)
         /\ OfPages(taken[k] \o sw.recv[k]) \in Seq(Nat)
         /\ Frames(out[q][k]) \in Seq(Nat) /\ Frames(NextFrame(q, k)) \in Seq(Nat)
         /\ Frames(MovedOut(q, k)) \in Seq(Nat)
<1>1. sw.recv[k] \in Seq(Nat) /\ taken[k] \in Seq(Nat)
  BY DEF TypeOK, Switch
<1>2. taken[k] \o sw.recv[k] \in Seq(Nat)
  BY <1>1
<1>3. OfPages(taken[k] \o sw.recv[k]) \in Seq(Nat)
  BY <1>2, OfPagesType
<1>4. /\ out[q][k] \in Wire(User, 1 .. STEPS)
      /\ NextFrame(q, k) \in Wire(User, 1 .. STEPS)
      /\ MovedOut(q, k) \in Wire(User, 1 .. STEPS)
  BY MovedType DEF TypeOK
<1>5. \A w \in Wire(User, 1 .. STEPS) : Frames(w) \in Seq(Nat)
  <2>1. \A w \in Wire(User, 1 .. STEPS) : Frames(w) \in Seq(User)
    BY FramesOf
  <2>2. User \subseteq Nat
    BY DEF User
  <2> QED
    BY <2>1, <2>2, SeqMonotonic
<1> QED
  BY <1>1, <1>2, <1>3, <1>4, <1>5

LEMMA UpStep ==
  ASSUME TypeOK, Discipline, WiresInv, NEW q \in Page, NEW k \in Port,
         Owns(q), UpKept(q, k), StaysOwner(q)
  PROVE  UpKept(q, k)'
<1> DEFINE P == OfPages(taken[k] \o sw.recv[k])
           W == Frames(out[q][k])
<1>1. put[q][k] = P \o InRequest(q, k) \o W
  BY DEF UpKept
<1>2. P \in Seq(Nat) /\ W \in Seq(Nat)
  BY UpTypes
<1>3. UpKept(q, k)' <=> put'[q][k] = OfPages(taken'[k] \o sw'.recv[k])
                          \o InRequest(q, k)' \o Frames(out'[q][k])
  BY DEF UpKept, OfPages, Frames
<1>4. CASE Apart(q)
  <2>1. put'[q] = put[q] /\ out'[q] = out[q] /\ InRequest(q, k)' = InRequest(q, k)
    BY <1>4 DEF Apart, InRequest
  <2>2. SUFFICES OfPages(taken'[k] \o sw'.recv[k]) = P
    BY <1>1, <1>3, <2>1
  <2>3. CASE sw' = sw /\ taken' = taken
    BY <2>3
  <2>4. ASSUME NEW j \in Port, HandleScript(j)
        PROVE  OfPages(taken'[k] \o sw'.recv[k]) = P
    <3>1. /\ taken' = taken
          /\ sw'.recv[k] = sw.recv[k] \/ sw'.recv[k] = Append(sw.recv[k], 0)
      BY <2>4, ScriptRefused DEF HandleScript, history
    <3>2. taken[k] \o Append(sw.recv[k], 0) = Append(taken[k] \o sw.recv[k], 0)
      <4>1. taken[k] \in Queue /\ sw.recv[k] \in Queue
        BY UpTypes DEF Queue
      <4> QED
        BY <4>1, ConcatAppendNat
    <3>3. OfPages(Append(taken[k] \o sw.recv[k], 0)) = P
      BY UpTypes, OfPagesAppend
    <3> QED
      BY <3>1, <3>2, <3>3
  <2>5. ASSUME NEW p \in Page, HandleTick(p), ~Current(chan[p].id)
        PROVE  OfPages(taken'[k] \o sw'.recv[k]) = P
    BY <2>5, TickRefused
  <2>6. ASSUME ~(sw' = sw /\ taken' = taken), ~\E j \in Port : HandleScript(j),
               ~\E p \in Page : HandleTick(p) /\ ~Current(chan[p].id)
        PROVE  HandleTick(q) /\ Current(chan[q].id) /\ phase[q] = "tick"
    BY <2>6 DEF StaysOwner, Started, SendTick, Receive, history
  <2>7. ~(HandleTick(q) /\ Current(chan[q].id) /\ phase[q] = "tick")
    <3>1. SUFFICES ASSUME HandleTick(q), Current(chan[q].id), phase[q] = "tick"
                   PROVE  FALSE
      OBVIOUS
    <3>2. Gives(q, k) /\ chan[q].kind = "tick"
      BY <3>1, TickServed DEF HandleTick
    <3>3. chan'[q].kind = "tock"
      BY <3>1, <3>2 DEF Gives
    <3> QED
      BY <1>4, <3>2, <3>3 DEF Apart
  <2> QED
    BY <2>3, <2>4, <2>5, <2>6, <2>7
<1>5. CASE Started(q)
  <2>1. /\ UNCHANGED <<put, out, sw, taken>>
        /\ chan[q].kind = "hello" /\ chan'[q].kind = "none"
    BY <1>5 DEF Started, None, TypeOK, history
  <2>2. InRequest(q, k)' = InRequest(q, k)
    BY <2>1 DEF InRequest
  <2> QED
    BY <1>1, <1>3, <2>1, <2>2
<1>6. CASE Receive(q)
  <2>1. /\ UNCHANGED <<put, out, sw, taken>>
        /\ chan[q].kind = "tock" /\ chan'[q].kind = "none"
    BY <1>6 DEF Receive, None, TypeOK, history
  <2>2. InRequest(q, k)' = InRequest(q, k)
    BY <2>1 DEF InRequest
  <2> QED
    BY <1>1, <1>3, <2>1, <2>2
<1>7. CASE SendTick(q) /\ up
  <2> DEFINE N == Frames(NextFrame(q, k))
             I == Listed(Impacting(q, k))
             V == Frames(MovedOut(q, k))
  <2>1. /\ UNCHANGED <<sw, taken>> /\ put'[q][k] = put[q][k] \o N
        /\ out'[q][k] = MovedOut(q, k)
    BY <1>7 DEF SendTick, TypeOK
  <2>2. chan'[q].kind = "tick" /\ chan'[q].body[k] = Impacting(q, k)
    BY <1>7 DEF SendTick, TickRequest, TypeOK
  <2>3. InRequest(q, k)' = I
    BY <2>2 DEF InRequest, Listed
  <2>4. InRequest(q, k) = << >>
    <3>1. phase[q] = "ready"
      BY <1>7 DEF SendTick
    <3>2. chan[q].kind = "none"
      BY <3>1 DEF Discipline, Orderly, None
    <3> QED
      BY <3>2 DEF InRequest
  <2>5. W \o N = I \o V
    <3>1. Falling(out[q][k])
      BY DEF WiresInv, InLine
    <3> QED
      BY <3>1, OutGoing DEF Listed
  <2>6. N \in Seq(Nat) /\ V \in Seq(Nat)
    BY UpTypes
  <2>7. I \in Seq(Nat)
    <3>1. Impacting(q, k) \in User \cup {NoFrame}
      BY MovedType
    <3> QED
      BY <3>1 DEF Listed, User
  <2> HIDE DEF P, W, N, I, V
  <2>8. put[q][k] = P \o W
    BY <1>1, <1>2, <2>4
  <2>9. (P \o W) \o N = P \o (W \o N)
    <3>1. P \in Queue /\ W \in Queue /\ N \in Queue
      BY <1>2, <2>6 DEF Queue
    <3> QED
      BY <3>1, AssociativeNat
  <2>10. (P \o I) \o V = P \o (I \o V)
    <3>1. P \in Queue /\ I \in Queue /\ V \in Queue
      BY <1>2, <2>6, <2>7 DEF Queue
    <3> QED
      BY <3>1, AssociativeNat
  <2>11. put'[q][k] = (P \o I) \o V
    BY <2>1, <2>5, <2>8, <2>9, <2>10
  <2> QED
    BY <1>3, <2>1, <2>3, <2>11 DEF P, V
<1>8. CASE HandleTick(q) /\ Current(chan[q].id) /\ phase[q] = "tick"
  <2> DEFINE b == chan[q].body[k]
             t == taken[k] \o sw.recv[k]
  <2>1. PICK r \in Seq(Nat) :
          /\ r = IF b = NoFrame THEN sw.recv[k] ELSE Append(sw.recv[k], b)
          /\ sw'.recv[k] = IF r = << >> THEN << >> ELSE Tail(r)
          /\ taken'[k] \o sw'.recv[k] = taken[k] \o r
    <3>1. Takes(q, k)
      BY <1>8, TickServed
    <3> QED
      BY <3>1 DEF Takes
  <2>2. b \in User \cup {NoFrame} /\ chan[q].kind = "tick" /\ chan'[q].kind = "tock"
    <3>1. b \in User \cup {NoFrame} /\ Gives(q, k)
      BY <1>8, TickServed
    <3>2. chan'[q].kind = "tock" /\ chan[q].kind = "tick"
      BY <1>8, <3>1 DEF Gives, HandleTick
    <3> QED
      BY <3>1, <3>2
  <2>3. UNCHANGED <<put, out>>
    BY <1>8 DEF HandleTick, pageVars
  <2>4. InRequest(q, k)' = << >> /\ InRequest(q, k) = Listed(b)
    BY <2>2 DEF InRequest, Listed
  <2>5. t \in Seq(Nat) /\ sw.recv[k] \in Seq(Nat) /\ taken[k] \in Seq(Nat)
    BY UpTypes
  <2>6. OfPages(taken[k] \o r) = P \o Listed(b)
    <3>1. CASE b = NoFrame
      BY <1>2, <2>1, <3>1 DEF Listed
    <3>2. CASE b # NoFrame
      <4>1. b \in Nat /\ b # 0
        BY <2>2, <3>2 DEF User
      <4>2. taken[k] \o Append(sw.recv[k], b) = Append(t, b)
        <5>1. taken[k] \in Queue /\ sw.recv[k] \in Queue
          BY <2>5 DEF Queue
        <5> QED
          BY <4>1, <5>1, ConcatAppendNat
      <4> HIDE DEF t
      <4>3. OfPages(Append(t, b)) = OfPages(t) \o <<b>>
        BY <2>5, <4>1, OfPagesAppend
      <4> QED
        BY <2>1, <3>2, <4>2, <4>3 DEF Listed, t
    <3> QED
      BY <3>1, <3>2
  <2>7. P \o Listed(b) \in Seq(Nat)
    <3>1. Listed(b) \in Seq(Nat)
      BY <2>2 DEF Listed, User
    <3> QED
      BY <1>2, <3>1
  <2>8. (P \o Listed(b)) \o << >> = P \o Listed(b)
    BY <2>7
  <2> QED
    BY <1>1, <1>3, <2>1, <2>3, <2>4, <2>6, <2>8
<1> QED
  BY <1>4, <1>5, <1>6, <1>7, <1>8 DEF StaysOwner

----------------------------------------------------------------------------
(* Down: from the switch to the hosts of its page                          *)

LEMMA NothingOff == Off(<< >>, 0) = << >> /\ Frames(<< >>) = << >>
<1> DEFINE T == {n \in DOMAIN << >> : << >>[n].step # 0}
<1>1. Len(<< >>) \in Nat /\ \A n \in 1 .. Len(<< >>) : n \notin T
  OBVIOUS
<1> HIDE DEF T
<1>2. AtPositions(<< >>, T) = << >>
  BY <1>1, PositionsNone
<1> QED
  BY <1>2 DEF Off, Frames, T

(* A frame enters the wire at its far end. *)
LEMMA OffAppend ==
  ASSUME NEW w \in Wire(Nat, 0 .. STEPS), NEW f \in Nat
  PROVE  Frames(Off(Append(w, [frame |-> f, step |-> STEPS]), 0))
           = Frames(Off(w, 0)) \o <<f>>
<1> DEFINE X == [frame : Nat, step : 0 .. STEPS]
           x == [frame |-> f, step |-> STEPS]
           a == Append(w, x)
           T == {n \in DOMAIN a : a[n].step # 0}
           U == {n \in DOMAIN w : w[n].step # 0}
<1>1. x \in X /\ x.step = STEPS /\ x.frame = f /\ STEPS # 0
  BY SimulatorAssumption
<1>2. w \in Seq(X)
  BY WireIs
<1> HIDE DEF X, x
<1>3. /\ Len(w) \in Nat /\ DOMAIN w = 1 .. Len(w) /\ DOMAIN a = 1 .. Len(w) + 1
      /\ a[Len(w) + 1] = x /\ \A n \in 1 .. Len(w) : a[n] = w[n]
  BY <1>1, <1>2
<1>4. (\A n \in 1 .. Len(w) : n \in T <=> n \in U) /\ Len(w) + 1 \in T
  BY <1>1, <1>3
<1>5. Off(a, 0) = AtPositions(a, T) /\ Off(w, 0) = AtPositions(w, U)
  BY DEF Off
<1> HIDE DEF T, U
<1>6. AtPositions(a, T) = Append(AtPositions(w, U), x)
  BY <1>1, <1>2, <1>4, PositionsAppend
<1>7. Off(w, 0) \in Wire(Nat, 0 .. STEPS)
  <2>1. \A n \in 1 .. Len(w) : n \in U => w[n] \in X
    BY <1>2, ElementOfSeq
  <2>2. AtPositions(w, U) \in Seq(X)
    BY <1>3, <2>1, PositionsType
  <2> QED
    BY <1>5, <2>2 DEF Wire, X
<1>8. Frames(Append(Off(w, 0), x)) = Frames(Off(w, 0)) \o <<x.frame>>
  <2> DEFINE F == Nat
             Y == 0 .. STEPS
  <2>1. Off(w, 0) \in Wire(F, Y) /\ x \in [frame : F, step : Y]
    BY <1>1, <1>7 DEF X
  <2> HIDE DEF F, Y
  <2> QED
    BY <2>1, FramesAppend
<1> QED
  BY <1>1, <1>5, <1>6, <1>8 DEF x

LEMMA DownTypes ==
  ASSUME TypeOK, NEW q \in Page, NEW k \in Port
  PROVE  /\ got[q][k] \in Seq(Nat) /\ queued[k] \in Seq(Nat)
         /\ sw.send[k] \in Seq(Nat)
         /\ Frames(Off(in[q][k], 0)) \in Seq(Nat)
         /\ Arriving(q, k) \in Seq(Nat)
         /\ Frames(Off(MovedIn(q, k), 0)) \in Seq(Nat)
         /\ InAnswer(q, k) \in Seq(Nat)
<1>1. got[q][k] \in Seq(Nat) /\ queued[k] \in Seq(Nat) /\ sw.send[k] \in Seq(Nat)
  BY DEF TypeOK, Switch
<1>2. /\ in[q][k] \in Wire(Nat, 0 .. STEPS)
      /\ MovedIn(q, k) \in Wire(Nat, 0 .. STEPS) /\ Arriving(q, k) \in Seq(Nat)
  BY MovedType DEF TypeOK
<1>3. ASSUME NEW w \in Wire(Nat, 0 .. STEPS) PROVE Frames(Off(w, 0)) \in Seq(Nat)
  <2>1. Off(w, 0) \in Wire(Nat, (0 .. STEPS) \ {0})
    BY OnOffType
  <2> QED
    BY <2>1, FramesOf
<1>4. InAnswer(q, k) \in Seq(Nat)
  <2>1. CASE /\ chan[q].kind = "tock" /\ chan[q].answer.status = 200
             /\ chan[q].answer.frames[k] # NoFrame
    <3>1. chan[q] \in Exchange
      BY DEF TypeOK
    <3>2. chan[q].answer \in Reply
      BY <2>1, <3>1, ExchangeKinds
    <3>3. chan[q].answer.frames[k] \in Nat
      BY <2>1, <3>2 DEF Reply
    <3> QED
      BY <2>1, <3>3 DEF InAnswer
  <2> QED
    BY <2>1 DEF InAnswer
<1> QED
  BY <1>1, <1>2, <1>3, <1>4

LEMMA DownStep ==
  ASSUME TypeOK, TypeOK', Discipline, WiresInv, NEW q \in Page, NEW k \in Port,
         Owns(q), DownKept(q, k), StaysOwner(q)
  PROVE  DownKept(q, k)'
<1> DEFINE G == got[q][k]
           D == Frames(Off(in[q][k], 0))
           A == InAnswer(q, k)
           S == sw.send[k]
<1>1. queued[k] = G \o D \o A \o S
  BY DEF DownKept
<1>2. G \in Seq(Nat) /\ D \in Seq(Nat) /\ A \in Seq(Nat) /\ S \in Seq(Nat)
  BY DownTypes
<1>3. DownKept(q, k)' <=>
        queued'[k] = got'[q][k] \o Frames(Off(in'[q][k], 0))
                     \o InAnswer(q, k)' \o sw'.send[k]
  BY DEF DownKept, Off, Frames
<1>4. CASE Apart(q)
  <2>1. got'[q] = got[q] /\ in'[q] = in[q] /\ InAnswer(q, k)' = InAnswer(q, k)
    BY <1>4 DEF Apart, InAnswer
  <2>2. SUFFICES queued'[k] = queued[k] /\ sw'.send[k] = S
    BY <1>1, <1>3, <2>1
  <2>3. CASE sw' = sw /\ queued' = queued
    BY <2>3
  <2>4. ASSUME NEW j \in Port, HandleScript(j)
        PROVE  queued'[k] = queued[k] /\ sw'.send[k] = S
    BY <2>4, ScriptRefused DEF HandleScript, history
  <2>5. ASSUME NEW p \in Page, HandleTick(p), ~Current(chan[p].id)
        PROVE  queued'[k] = queued[k] /\ sw'.send[k] = S
    BY <2>5, TickRefused
  <2>6. ASSUME ~(sw' = sw /\ queued' = queued), ~\E j \in Port : HandleScript(j),
               ~\E p \in Page : HandleTick(p) /\ ~Current(chan[p].id)
        PROVE  HandleTick(q) /\ Current(chan[q].id) /\ phase[q] = "tick"
    BY <2>6 DEF StaysOwner, Started, SendTick, Receive, history
  <2>7. ~(HandleTick(q) /\ Current(chan[q].id) /\ phase[q] = "tick")
    <3>1. SUFFICES ASSUME HandleTick(q), Current(chan[q].id), phase[q] = "tick"
                   PROVE  FALSE
      OBVIOUS
    <3>2. Gives(q, k) /\ chan[q].kind = "tick"
      BY <3>1, TickServed DEF HandleTick
    <3>3. chan'[q].kind = "tock"
      BY <3>1, <3>2 DEF Gives
    <3> QED
      BY <1>4, <3>2, <3>3 DEF Apart
  <2> QED
    BY <2>3, <2>4, <2>5, <2>6, <2>7
<1>5. CASE Started(q)
  <2>1. /\ UNCHANGED <<got, in, sw, queued>>
        /\ chan[q].kind = "hello" /\ chan'[q].kind = "none"
    BY <1>5 DEF Started, None, TypeOK, history
  <2>2. InAnswer(q, k)' = InAnswer(q, k)
    BY <2>1 DEF InAnswer
  <2> QED
    BY <1>1, <1>3, <2>1, <2>2
<1>6. CASE Receive(q) /\ chan[q].answer.status = 200
  <2> DEFINE f == chan[q].answer.frames[k]
  <2>1. /\ UNCHANGED <<got, sw, queued>>
        /\ chan[q].kind = "tock" /\ chan'[q].kind = "none"
    BY <1>6 DEF Receive, None, TypeOK, history
  <2>2. InAnswer(q, k)' = << >> /\ A = Listed(f)
    BY <1>6, <2>1 DEF InAnswer, Listed
  <2>3. in'[q][k] = IF f = NoFrame THEN in[q][k]
                    ELSE Append(in[q][k], [frame |-> f, step |-> STEPS])
    <3>1. in' = [in EXCEPT ![q] = [j \in Port |->
            IF chan[q].answer.frames[j] = NoFrame THEN in[q][j]
            ELSE Append(in[q][j], [frame |-> chan[q].answer.frames[j],
                                   step |-> STEPS])]]
      BY <1>6 DEF Receive
    <3> QED
      BY <3>1 DEF TypeOK
  <2>4. f \in Nat \cup {NoFrame}
    <3>1. chan[q] \in Exchange
      BY DEF TypeOK
    <3>2. chan[q].answer \in Reply
      BY <2>1, <3>1, ExchangeKinds
    <3> QED
      BY <1>6, <3>2 DEF Reply
  <2>5. Frames(Off(in'[q][k], 0)) = D \o A
    <3>1. CASE f = NoFrame
      BY <1>2, <2>2, <2>3, <3>1 DEF Listed
    <3>2. CASE f # NoFrame
      <4>1. f \in Nat /\ in[q][k] \in Wire(Nat, 0 .. STEPS)
        BY <2>4, <3>2 DEF TypeOK
      <4> QED
        BY <2>2, <2>3, <3>2, <4>1, OffAppend DEF Listed
    <3> QED
      BY <3>1, <3>2
  <2> HIDE DEF G, D, A, S, f
  <2>6. (G \o D) \o A = G \o (D \o A)
    <3>1. G \in Queue /\ D \in Queue /\ A \in Queue
      BY <1>2 DEF Queue
    <3> QED
      BY <3>1, AssociativeNat
  <2>7. G \o (D \o A) \in Seq(Nat)
    BY <1>2
  <2>8. (G \o (D \o A)) \o << >> = G \o (D \o A)
    BY <2>7
  <2> QED
    BY <1>1, <1>3, <2>1, <2>2, <2>5, <2>6, <2>8 DEF G, S
<1>7. CASE SendTick(q)
  <2> DEFINE R == Arriving(q, k)
             E == Frames(Off(MovedIn(q, k), 0))
  <2>1. /\ UNCHANGED <<sw, queued>> /\ got'[q][k] = G \o R
        /\ in'[q][k] = MovedIn(q, k)
    BY <1>7 DEF SendTick, TypeOK
  <2>2. phase[q] = "ready" /\ chan[q].kind = "none"
    BY <1>7 DEF SendTick, Discipline, Orderly, None
  <2>3. chan'[q].kind # "tock"
    <3>1. CASE up
      BY <1>7, <3>1 DEF SendTick, TickRequest, TypeOK
    <3>2. CASE ~up
      BY <1>7, <2>2, <3>2 DEF SendTick
    <3> QED
      BY <3>1, <3>2
  <2>4. A = << >> /\ InAnswer(q, k)' = << >>
    BY <2>2, <2>3 DEF InAnswer
  <2>5. D = R \o E
    <3>1. Rising(in[q][k])
      BY DEF WiresInv, InLine
    <3> QED
      BY <3>1, InComing
  <2>6. R \in Seq(Nat) /\ E \in Seq(Nat)
    BY DownTypes
  <2> HIDE DEF G, D, A, S, R, E
  <2>7. G \o (R \o E) = (G \o R) \o E
    <3>1. G \in Queue /\ R \in Queue /\ E \in Queue
      BY <1>2, <2>6 DEF Queue
    <3> QED
      BY <3>1, AssociativeNat
  <2> QED
    BY <1>1, <1>3, <2>1, <2>4, <2>5, <2>7 DEF S, E
<1>8. CASE HandleTick(q) /\ Current(chan[q].id) /\ phase[q] = "tick"
  <2>1. PICK u \in Seq(Nat), f \in Nat \cup {NoFrame} :
          /\ queued'[k] = queued[k] \o u
          /\ sw.send[k] \o u = Listed(f) \o sw'.send[k]
          /\ phase[q] # "closed" =>
               /\ chan'[q].kind = "tock" /\ chan'[q].answer.status = 200
               /\ chan'[q].answer.frames[k] = f
    <3>1. Gives(q, k)
      BY <1>8, TickServed
    <3> QED
      BY <3>1 DEF Gives
  <2>2. UNCHANGED <<got, in>> /\ chan[q].kind = "tick"
    BY <1>8 DEF HandleTick, pageVars
  <2>3. A = << >> /\ InAnswer(q, k)' = Listed(f)
    BY <1>8, <2>1, <2>2 DEF InAnswer, Listed
  <2> DEFINE L == Listed(f)
             Z == sw'.send[k]
  <2>4. L \in Seq(Nat)
    BY DEF Listed
  <2>5. Z \in Seq(Nat)
    BY DEF TypeOK, Switch
  <2>6. S \o u = L \o Z /\ queued'[k] = (G \o D \o A \o S) \o u
    BY <1>1, <2>1
  <2> DEFINE H == G \o D
  <2>7. H \in Seq(Nat) /\ H \o << >> = H
    BY <1>2
  <2> HIDE DEF G, D, A, S, L, Z
  <2>8. (G \o D \o A \o S) = H \o S
    BY <2>3, <2>7
  <2> HIDE DEF H
  <2>9. (H \o S) \o u = H \o (S \o u)
    <3>1. H \in Queue /\ S \in Queue /\ u \in Queue
      BY <1>2, <2>1, <2>7 DEF Queue
    <3> QED
      BY <3>1, AssociativeNat
  <2>10. (H \o L) \o Z = H \o (L \o Z)
    <3>1. H \in Queue /\ L \in Queue /\ Z \in Queue
      BY <2>4, <2>5, <2>7 DEF Queue
    <3> QED
      BY <3>1, AssociativeNat
  <2>11. queued'[k] = (H \o L) \o Z
    BY <2>6, <2>8, <2>9, <2>10
  <2> QED
    BY <1>3, <2>2, <2>3, <2>11 DEF G, D, L, Z, H
<1> QED
  BY <1>4, <1>5, <1>6, <1>7, <1>8 DEF StaysOwner

----------------------------------------------------------------------------
(* Both directions                                                         *)

(* A new switch, and the wires of a page that starts, are empty. *)
LEMMA HeloStep ==
  ASSUME TypeOK, TypeOK', Discipline, Discipline', NEW q \in Page, NEW k \in Port,
         HandleHelo(q), Owns(q)'
  PROVE  UpKept(q, k)' /\ DownKept(q, k)'
<1>1. HasId(q)'
  <2>1. OwnersHaveId'
    BY OwnsId, PTL
  <2> QED
    BY <2>1 DEF OwnersHaveId
<1>2. phase[q] = "helo" /\ chan'[q].kind = "hello" /\ sw' = FreshSwitch(lastId + 1)
  BY <1>1, IdGiven
<1>3. Orderly(q)
  BY DEF Discipline
<1>4. /\ out'[q][k] = << >> /\ in'[q][k] = << >>
      /\ put'[q][k] = << >> /\ got'[q][k] = << >>
  <2>1. UNCHANGED <<out, in, put, got>>
    BY DEF HandleHelo, pageVars
  <2> QED
    BY <1>2, <1>3, <2>1 DEF Orderly, Empty
<1>5. taken'[k] = << >> /\ queued'[k] = << >>
  BY DEF HandleHelo, Empty
<1>6. sw'.recv[k] = << >> /\ sw'.send[k] = << >>
  BY <1>2 DEF FreshSwitch
<1>7. InRequest(q, k)' = << >> /\ InAnswer(q, k)' = << >>
  BY <1>2 DEF InRequest, InAnswer
<1>8. << >> \o << >> = << >> /\ OfPages(<< >>) = << >>
  <2> DEFINE T == {n \in DOMAIN << >> : << >>[n] # 0}
  <2>1. Len(<< >>) \in Nat /\ \A n \in 1 .. Len(<< >>) : n \notin T
    OBVIOUS
  <2> HIDE DEF T
  <2>2. AtPositions(<< >>, T) = << >>
    BY <2>1, PositionsNone
  <2> QED
    BY <2>2 DEF OfPages, T
<1>9. UpKept(q, k)' <=> put'[q][k] = OfPages(taken'[k] \o sw'.recv[k])
                          \o InRequest(q, k)' \o Frames(out'[q][k])
  BY DEF UpKept, OfPages, Frames
<1>10. DownKept(q, k)' <=>
         queued'[k] = got'[q][k] \o Frames(Off(in'[q][k], 0))
                      \o InAnswer(q, k)' \o sw'.send[k]
  BY DEF DownKept, Off, Frames
<1>11. UpKept(q, k)'
  BY <1>4, <1>5, <1>6, <1>7, <1>8, <1>9, NothingOff
<1>12. DownKept(q, k)'
  BY <1>4, <1>5, <1>6, <1>7, <1>8, <1>10, NothingOff
<1> QED
  BY <1>11, <1>12

LEMMA BothKept == Spec => [](UpInv /\ DownInv)
<1>1. Init => UpInv /\ DownInv
  BY DEF Init, UpInv, DownInv, Owns, Owner, Ticking
<1>2. /\ TypeOK /\ Discipline /\ WiresInv /\ IdsInv /\ TypeOK' /\ Discipline'
      /\ UpInv /\ DownInv /\ [Next]_vars
      => (UpInv /\ DownInv)'
  <2> SUFFICES ASSUME TypeOK, Discipline, WiresInv, IdsInv, TypeOK', Discipline',
                      UpInv, DownInv, [Next]_vars, stops' = 0,
                      NEW q \in Page, NEW k \in Port, Owns(q)'
               PROVE  UpKept(q, k)' /\ DownKept(q, k)'
    BY DEF UpInv, DownInv
  <2>1. CASE HandleHelo(q)
    BY <2>1, HeloStep
  <2>2. CASE Owns(q) /\ StaysOwner(q)
    <3>1. stops = 0
      BY StopsOnlyGrow
    <3>2. UpKept(q, k) /\ DownKept(q, k)
      BY <2>2, <3>1 DEF UpInv, DownInv
    <3>3. UpKept(q, k)'
      BY <2>2, <3>2, UpStep
    <3>4. DownKept(q, k)'
      BY <2>2, <3>2, DownStep
    <3> QED
      BY <3>3, <3>4
  <2> QED
    BY <2>1, <2>2, OwnerStep
<1> QED
  BY <1>1, <1>2, TypeCorrect, OrderlyKept, LinesKept, IdsDiffer, PTL DEF Spec

(* While a server process lasts: every frame a host of the current page    *)
(* put on its wire is, in that order and once, taken by the switch,        *)
(* waiting there, in the request under way or still on the wire.  Neither  *)
(* ticks of pages that were replaced, nor refused ticks, nor answers to    *)
(* pages that have gone lose one, repeat one or let one overtake another.  *)
THEOREM FramesGoUpInOrder == Spec => [](stops = 0 => WireIsFifo)
<1>1. UpInv => (stops = 0 => WireIsFifo)
  BY DEF UpInv, WireIsFifo, Owns, UpKept
<1> QED
  BY <1>1, BothKept, PTL

(* The same for the frames the switch queues for its ports: each has       *)
(* reached the host, is on the wire, in the answer under way or still      *)
(* queued.                                                                 *)
THEOREM FramesGoDownInOrder == Spec => [](stops = 0 => DeliveryIsFifo)
<1>1. DownInv => (stops = 0 => DeliveryIsFifo)
  BY DEF DownInv, DeliveryIsFifo, Owns, DownKept
<1> QED
  BY <1>1, BothKept, PTL

----------------------------------------------------------------------------
(* A page that lost its switch                                             *)

Superseded(p) == Ticking(p) /\ switchId[p] # sw.id
(* How many steps of its own such a page has left: an answer that was      *)
(* served before, a tick more, its request, and the refusal.               *)
StepsLeft(p) ==
  IF phase[p] = "ready" THEN 3
  ELSE IF chan[p].kind = "tick" THEN 2
  ELSE IF chan[p].answer.status = 200 THEN 4 ELSE 1

(* A page that lost its switch to another never gets it back while the     *)
(* server process lasts, and as long as it goes on each step of it, or of  *)
(* the server for it, leaves it fewer steps, whatever else happens: it     *)
(* sends at most one tick more, and that is refused.  The safety behind    *)
(* SupersededStops; after a restart the ids begin again, and the page may  *)
(* find a switch with the one it has.                                      *)
SupersededWindsDown ==
  [][\A p \in Page : Superseded(p) /\ Ticking(p)' =>
       /\ stops' = 0 => Superseded(p)'
       /\ UNCHANGED <<phase[p], chan[p]>> \/ StepsLeft(p)' < StepsLeft(p)]_vars

LEMMA LeavesFewer ==
  ASSUME TypeOK, Discipline, [Next]_vars, NEW p \in Page,
         Superseded(p), Ticking(p)'
  PROVE  UNCHANGED <<phase[p], chan[p]>> \/ StepsLeft(p)' < StepsLeft(p)
<1>0. Orderly(p) /\ chan[p] \in Exchange /\ phase[p] \in Phases
  BY DEF Discipline, TypeOK
<1>1. CASE Apart(p)
  BY <1>1 DEF Apart
<1>2. CASE Stop
  <2>1. phase'[p] = IF phase[p] = "helo" THEN "silent"
                    ELSE IF phase[p] = "tick" THEN "error" ELSE phase[p]
    BY <1>2 DEF Stop
  <2>2. phase[p] = "ready" /\ phase'[p] = "ready"
    BY <2>1 DEF Superseded, Ticking
  <2>3. chan[p] = None /\ chan'[p] = None
    BY <1>0, <1>2, <2>2 DEF Stop, Orderly
  <2> QED
    BY <2>2, <2>3
<1>3. CASE Open(p) \/ Started(p)
  BY <1>3 DEF Open, Started, Superseded, Ticking
<1>4. CASE Close(p)
  BY <1>4 DEF Close, Ticking, TypeOK
<1>5. CASE SendTick(p)
  <2>1. phase[p] = "ready" /\ phase'[p] = IF up THEN "tick" ELSE "error"
    BY <1>5 DEF SendTick, TypeOK
  <2>2. up
    BY <2>1 DEF Ticking
  <2>3. chan'[p].kind = "tick"
    BY <1>5, <2>2 DEF SendTick, TypeOK, TickRequest
  <2> QED
    BY <2>1, <2>2, <2>3 DEF StepsLeft
<1>6. CASE Receive(p)
  <2>1. /\ phase[p] = "tick" /\ chan[p].kind = "tock"
        /\ phase'[p] = IF chan[p].answer.status = 200 THEN "ready" ELSE "error"
    BY <1>6 DEF Receive, TypeOK
  <2> QED
    BY <2>1 DEF StepsLeft, Ticking
<1>7. CASE HandleHelo(p)
  BY <1>0, <1>7 DEF HandleHelo, Orderly, Superseded, Ticking, None
<1>8. CASE HandleTick(p)
  <2>1. UNCHANGED <<phase, switchId>> /\ chan[p].kind = "tick"
    BY <1>8 DEF HandleTick, pageVars
  <2>2. phase[p] = "tick" /\ chan[p].id = switchId[p]
    BY <1>0, <2>1 DEF Orderly, Superseded, Ticking, None
  <2>3. ~Current(chan[p].id)
    BY <2>2 DEF Superseded, Current
  <2>4. chan'[p] = TickReply([status |-> 412])
    BY <1>8, <2>2, <2>3 DEF HandleTick, Answer, TickAnswer, TypeOK
  <2>5. chan'[p].kind = "tock" /\ chan'[p].answer.status = 412
    BY <2>4 DEF TickReply
  <2> QED
    BY <2>1, <2>2, <2>5 DEF StepsLeft
<1> QED
  BY <1>1, <1>2, <1>3, <1>4, <1>5, <1>6, <1>7, <1>8, StepOf

LEMMA StaysSuperseded ==
  ASSUME TypeOK, Discipline, Discipline', IdsInv, [Next]_vars, stops' = 0,
         NEW p \in Page, Superseded(p), Ticking(p)'
  PROVE  Superseded(p)'
<1>0. lastId \in Nat /\ sw.id = lastId /\ stops = 0 /\ ~Stop
  BY StopsOnlyGrow DEF TypeOK, IdsInv
<1>1. HasId(p) /\ IdOf(p) = switchId[p]
  BY DEF Discipline, Orderly, Superseded, Ticking, HasId, IdOf, None
<1>2. HasId(p)' /\ IdOf(p)' = switchId'[p]
  BY DEF Discipline, Orderly, Ticking, HasId, IdOf, None
<1>3. ~HandleHelo(p)
  BY DEF HandleHelo, Discipline, Orderly, Superseded, Ticking, None
<1>4. switchId'[p] = switchId[p]
  BY <1>0, <1>1, <1>2, <1>3, IdKept
<1>5. switchId[p] \in 1 .. lastId
  BY <1>0, <1>1 DEF IdsInv
<1>6. sw'.id = sw.id \/ sw'.id = lastId + 1
  BY <1>0, IdGiven, SwitchKept
<1>7. switchId[p] # sw.id /\ switchId[p] # lastId + 1
  BY <1>0, <1>5 DEF Superseded
<1> QED
  BY <1>4, <1>6, <1>7 DEF Superseded

(* Whatever else the tabs, the server and other programs do, a tab whose   *)
(* switch was replaced is on its way out, and cannot take the new switch.  *)
THEOREM SupersededEnds == Spec => SupersededWindsDown
<1> DEFINE Down ==
      \A p \in Page : Superseded(p) /\ Ticking(p)' =>
        /\ stops' = 0 => Superseded(p)'
        /\ UNCHANGED <<phase[p], chan[p]>> \/ StepsLeft(p)' < StepsLeft(p)
<1>1. TypeOK /\ Discipline /\ Discipline' /\ IdsInv /\ [Next]_vars => [Down]_vars
  BY LeavesFewer, StaysSuperseded
<1>2. Spec => [][Down]_vars
  <2> HIDE DEF Down
  <2> QED
    BY <1>1, TypeCorrect, OrderlyKept, IdsDiffer, PTL DEF Spec
<1> QED
  BY <1>2 DEF SupersededWindsDown

==============================================================================
