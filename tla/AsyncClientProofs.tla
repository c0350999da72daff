------------------------- MODULE AsyncClientProofs --------------------------
(***************************************************************************)
(* The safety properties of AsyncClient for channels of any capacity and   *)
(* any number of calls and messages.                                       *)
(***************************************************************************)
EXTENDS AsyncClient, FiniteSetTheorems, TLAPS

-----------------------------------------------------------------------------
(* Sequences whose elements, pair by pair, are in a relation R.             *)

Chain(R, s) == \A i, j \in 1..Len(s) : i < j => <<s[i], s[j]>> \in R
Across(R, s, t) == \A i \in 1..Len(s), j \in 1..Len(t) : <<s[i], t[j]>> \in R

(* Concatenation, position by position. *)
LEMMA ConcatAt ==
  ASSUME NEW S, NEW s \in Seq(S), NEW t \in Seq(S)
  PROVE  /\ s \o t \in Seq(S) /\ Len(s \o t) = Len(s) + Len(t)
         /\ \A i \in 1..Len(s) : i \in 1..Len(s \o t) /\ (s \o t)[i] = s[i]
         /\ \A j \in 1..Len(t) : Len(s) + j \in 1..Len(s \o t) /\ (s \o t)[Len(s) + j] = t[j]
         /\ \A k \in 1..Len(s \o t) : k \in 1..Len(s) \/ (k - Len(s) \in 1..Len(t) /\ k = Len(s) + (k - Len(s)))
OBVIOUS

(* Append, Head and Tail, position by position. *)
LEMMA AppendAt ==
  ASSUME NEW S, NEW s \in Seq(S), NEW x \in S
  PROVE  /\ Append(s, x) \in Seq(S) /\ Len(Append(s, x)) = Len(s) + 1
         /\ \A i \in 1..Len(s) : i \in 1..Len(Append(s, x)) /\ Append(s, x)[i] = s[i]
         /\ Len(s) + 1 \in 1..Len(Append(s, x)) /\ Append(s, x)[Len(s) + 1] = x
         /\ \A k \in 1..Len(Append(s, x)) :
              (k \in 1..Len(s) /\ Append(s, x)[k] = s[k]) \/ (k = Len(s) + 1 /\ Append(s, x)[k] = x)
OBVIOUS

(* The rest of a sequence, position by position. *)
LEMMA TailAt ==
  ASSUME NEW S, NEW s \in Seq(S), s # <<>>
  PROVE  /\ Tail(s) \in Seq(S) /\ Head(s) \in S /\ Len(Tail(s)) = Len(s) - 1
         /\ 1 \in 1..Len(s) /\ Head(s) = s[1]
         /\ \A i \in 1..Len(Tail(s)) : i + 1 \in 1..Len(s) /\ 1 < i + 1 /\ Tail(s)[i] = s[i + 1]
         /\ \A k \in 1..Len(s) : k = 1 \/ (k - 1 \in 1..Len(Tail(s)) /\ Tail(s)[k - 1] = s[k])
OBVIOUS

(* Less of a chain is a chain. *)
LEMMA ChainTail ==
  ASSUME NEW S, NEW R, NEW s \in Seq(S), s # <<>>, Chain(R, s)
  PROVE  Chain(R, Tail(s)) /\ \A j \in 1..Len(Tail(s)) : <<Head(s), Tail(s)[j]>> \in R
<1>1. /\ 1 \in 1..Len(s) /\ Head(s) = s[1]
      /\ \A i \in 1..Len(Tail(s)) : i + 1 \in 1..Len(s) /\ 1 < i + 1 /\ Tail(s)[i] = s[i + 1]
  BY Zenon, TailAt
<1>2. \A i, j \in 1..Len(Tail(s)) : i < j => i + 1 < j + 1
  BY TailAt
<1>3. ASSUME NEW i \in 1..Len(Tail(s)), NEW j \in 1..Len(Tail(s)), i < j
      PROVE  <<Tail(s)[i], Tail(s)[j]>> \in R
  <2>1. <<s[i + 1], s[j + 1]>> \in R
    BY Zenon, <1>1, <1>2, <1>3 DEF Chain
  <2> QED BY Zenon, <1>1, <2>1
<1>4. ASSUME NEW j \in 1..Len(Tail(s))
      PROVE  <<Head(s), Tail(s)[j]>> \in R
  <2>1. <<s[1], s[j + 1]>> \in R
    BY Zenon, <1>1 DEF Chain
  <2> QED BY Zenon, <1>1, <2>1
<1> QED BY Zenon, <1>3, <1>4 DEF Chain

(* A chain with one more element that everything before it accepts. *)
LEMMA ChainAppend ==
  ASSUME NEW S, NEW R, NEW s \in Seq(S), NEW x \in S, Chain(R, s),
         \A i \in 1..Len(s) : <<s[i], x>> \in R
  PROVE  Chain(R, Append(s, x))
<1> DEFINE t == Append(s, x)
<1>1. /\ \A k \in 1..Len(t) : (k \in 1..Len(s) /\ t[k] = s[k]) \/ (k = Len(s) + 1 /\ t[k] = x)
      /\ Len(s) \in Nat
  OBVIOUS
<1> HIDE DEF t
<1>2. ASSUME NEW i \in 1..Len(t), NEW j \in 1..Len(t), i < j
      PROVE  <<t[i], t[j]>> \in R
  <2>1. ~(i = Len(s) + 1 /\ (j \in 1..Len(s) \/ j = Len(s) + 1))
    BY <1>1, <1>2
  <2> QED BY Zenon, <1>1, <1>2, <2>1 DEF Chain
<1> QED BY Zenon, <1>2 DEF Chain, t

(* Across, with one more element on either side. *)
LEMMA AcrossAppend ==
  ASSUME NEW S, NEW R, NEW s \in Seq(S), NEW t \in Seq(S), NEW x \in S, Across(R, s, t)
  PROVE  /\ (\A j \in 1..Len(t) : <<x, t[j]>> \in R) => Across(R, Append(s, x), t)
         /\ (\A i \in 1..Len(s) : <<s[i], x>> \in R) => Across(R, s, Append(t, x))
<1>1. \A k \in 1..Len(Append(s, x)) :
        (k \in 1..Len(s) /\ Append(s, x)[k] = s[k]) \/ (k = Len(s) + 1 /\ Append(s, x)[k] = x)
  BY Zenon, AppendAt
<1>2. \A k \in 1..Len(Append(t, x)) :
        (k \in 1..Len(t) /\ Append(t, x)[k] = t[k]) \/ (k = Len(t) + 1 /\ Append(t, x)[k] = x)
  BY Zenon, AppendAt
<1> QED BY Zenon, <1>1, <1>2 DEF Across

(* Across, with one element less on either side. *)
LEMMA AcrossTail ==
  ASSUME NEW S, NEW R, NEW s \in Seq(S), NEW t \in Seq(S), Across(R, s, t)
  PROVE  /\ s # <<>> => Across(R, Tail(s), t) /\ \A j \in 1..Len(t) : <<Head(s), t[j]>> \in R
         /\ t # <<>> => Across(R, s, Tail(t)) /\ \A i \in 1..Len(s) : <<s[i], Head(t)>> \in R
<1>1. s # <<>> => /\ 1 \in 1..Len(s) /\ Head(s) = s[1]
                  /\ \A i \in 1..Len(Tail(s)) : i + 1 \in 1..Len(s) /\ Tail(s)[i] = s[i + 1]
  BY Zenon, TailAt
<1>2. t # <<>> => /\ 1 \in 1..Len(t) /\ Head(t) = t[1]
                  /\ \A i \in 1..Len(Tail(t)) : i + 1 \in 1..Len(t) /\ Tail(t)[i] = t[i + 1]
  BY Zenon, TailAt
<1> QED BY Zenon, <1>1, <1>2 DEF Across

(* The first element of t becomes the last of s, seen by s and t, by what   *)
(* is before them and by what is after them.                                *)
LEMMA Shift ==
  ASSUME NEW S, NEW R, NEW s \in Seq(S), NEW t \in Seq(S), t # <<>>,
         Chain(R, s), Chain(R, t), Across(R, s, t)
  PROVE  LET u == Append(s, Head(t))
         IN /\ u \in Seq(S) /\ Tail(t) \in Seq(S)
            /\ Chain(R, u) /\ Chain(R, Tail(t)) /\ Across(R, u, Tail(t))
            /\ \A p \in Seq(S) : Across(R, p, s) /\ Across(R, p, t) => Across(R, p, u) /\ Across(R, p, Tail(t))
            /\ \A n \in Seq(S) : Across(R, s, n) /\ Across(R, t, n) => Across(R, u, n) /\ Across(R, Tail(t), n)
<1>1. Head(t) \in S /\ Tail(t) \in Seq(S)
  BY Zenon, TailAt
<1>2. Append(s, Head(t)) \in Seq(S)
  BY Zenon, <1>1, AppendAt
<1>3. Chain(R, Tail(t)) /\ \A j \in 1..Len(Tail(t)) : <<Head(t), Tail(t)[j]>> \in R
  BY Zenon, ChainTail
<1>4. Across(R, s, Tail(t)) /\ \A i \in 1..Len(s) : <<s[i], Head(t)>> \in R
  BY Zenon, AcrossTail
<1>5. Chain(R, Append(s, Head(t)))
  BY Zenon, <1>1, <1>4, ChainAppend
<1>6. Across(R, Append(s, Head(t)), Tail(t))
  BY Zenon, <1>1, <1>3, <1>4, AcrossAppend
<1>7. ASSUME NEW p \in Seq(S), Across(R, p, s), Across(R, p, t)
      PROVE  Across(R, p, Append(s, Head(t))) /\ Across(R, p, Tail(t))
  <2>1. Across(R, p, Tail(t)) /\ \A i \in 1..Len(p) : <<p[i], Head(t)>> \in R
    BY Zenon, <1>7, AcrossTail
  <2> QED BY Zenon, <1>1, <1>7, <2>1, AcrossAppend
<1>8. ASSUME NEW n \in Seq(S), Across(R, s, n), Across(R, t, n)
      PROVE  Across(R, Append(s, Head(t)), n) /\ Across(R, Tail(t), n)
  <2>1. Across(R, Tail(t), n) /\ \A j \in 1..Len(n) : <<Head(t), n[j]>> \in R
    BY Zenon, <1>8, AcrossTail
  <2> QED BY Zenon, <1>1, <1>8, <2>1, AcrossAppend
<1> QED BY Zenon, <1>1, <1>2, <1>3, <1>5, <1>6, <1>7, <1>8

(* Chains one behind another. *)
LEMMA ChainConcat ==
  ASSUME NEW S, NEW R, NEW s \in Seq(S), NEW t \in Seq(S),
         Chain(R, s), Chain(R, t), Across(R, s, t)
  PROVE  Chain(R, s \o t)
<1> DEFINE u == s \o t
<1>1. /\ \A k \in 1..Len(u) : \/ k \in 1..Len(s) /\ u[k] = s[k]
                              \/ /\ k - Len(s) \in 1..Len(t) /\ u[k] = t[k - Len(s)]
      /\ Len(s) \in Nat /\ Len(t) \in Nat
  OBVIOUS
<1> HIDE DEF u
<1>2. ASSUME NEW i \in 1..Len(u), NEW j \in 1..Len(u), i < j
      PROVE  <<u[i], u[j]>> \in R
  <2>1. ~(i - Len(s) \in 1..Len(t) /\ j \in 1..Len(s))
    BY <1>1, <1>2
  <2>2. i - Len(s) < j - Len(s)
    BY <1>1, <1>2
  <2> QED BY Zenon, <1>1, <1>2, <2>1, <2>2 DEF Chain, Across
<1> QED BY Zenon, <1>2 DEF Chain, u

(* Across, with a concatenation on the left. *)
LEMMA AcrossConcat ==
  ASSUME NEW S, NEW R, NEW s \in Seq(S), NEW t \in Seq(S), NEW n \in Seq(S),
         Across(R, s, n), Across(R, t, n)
  PROVE  Across(R, s \o t, n)
<1>1. \A k \in 1..Len(s \o t) : \/ k \in 1..Len(s) /\ (s \o t)[k] = s[k]
                                \/ k - Len(s) \in 1..Len(t) /\ (s \o t)[k] = t[k - Len(s)]
  OBVIOUS
<1> QED BY Zenon, <1>1 DEF Across

-----------------------------------------------------------------------------
(* Four sequences that follow one another, as the places an item passes     *)
(* through: Lined says that the whole of them is a chain.                   *)

Lined(R, a, b, c, d) ==
  /\ Chain(R, a) /\ Chain(R, b) /\ Chain(R, c) /\ Chain(R, d)
  /\ Across(R, a, b) /\ Across(R, a, c) /\ Across(R, a, d)
  /\ Across(R, b, c) /\ Across(R, b, d) /\ Across(R, c, d)

(* Nothing is ordered with an empty sequence. *)
LEMMA EmptyLined == \A R, s : Chain(R, <<>>) /\ Across(R, s, <<>>) /\ Across(R, <<>>, s)
<1>1. \A i : i \notin 1..Len(<<>>)
  OBVIOUS
<1> QED BY Zenon, <1>1 DEF Chain, Across

(* An item moves on to the place before it. *)
LEMMA LinedShift ==
  ASSUME NEW S, NEW R, NEW a \in Seq(S), NEW b \in Seq(S), NEW c \in Seq(S), NEW d \in Seq(S),
         Lined(R, a, b, c, d)
  PROVE  /\ b # <<>> => Lined(R, Append(a, Head(b)), Tail(b), c, d)
         /\ c # <<>> => Lined(R, a, Append(b, Head(c)), Tail(c), d)
         /\ d # <<>> => Lined(R, a, b, Append(c, Head(d)), Tail(d))
<1>1. ASSUME b # <<>> PROVE Lined(R, Append(a, Head(b)), Tail(b), c, d)
  <2>1. /\ Chain(R, Append(a, Head(b))) /\ Chain(R, Tail(b)) /\ Across(R, Append(a, Head(b)), Tail(b))
        /\ \A n \in Seq(S) : Across(R, a, n) /\ Across(R, b, n)
                             => Across(R, Append(a, Head(b)), n) /\ Across(R, Tail(b), n)
    BY Zenon, <1>1, Shift DEF Lined
  <2> QED BY Zenon, <2>1 DEF Lined
<1>2. ASSUME c # <<>> PROVE Lined(R, a, Append(b, Head(c)), Tail(c), d)
  <2>1. /\ Chain(R, Append(b, Head(c))) /\ Chain(R, Tail(c)) /\ Across(R, Append(b, Head(c)), Tail(c))
        /\ \A p \in Seq(S) : Across(R, p, b) /\ Across(R, p, c)
                             => Across(R, p, Append(b, Head(c))) /\ Across(R, p, Tail(c))
        /\ \A n \in Seq(S) : Across(R, b, n) /\ Across(R, c, n)
                             => Across(R, Append(b, Head(c)), n) /\ Across(R, Tail(c), n)
    BY Zenon, <1>2, Shift DEF Lined
  <2> QED BY Zenon, <2>1 DEF Lined
<1>3. ASSUME d # <<>> PROVE Lined(R, a, b, Append(c, Head(d)), Tail(d))
  <2>1. /\ Chain(R, Append(c, Head(d))) /\ Chain(R, Tail(d)) /\ Across(R, Append(c, Head(d)), Tail(d))
        /\ \A p \in Seq(S) : Across(R, p, c) /\ Across(R, p, d)
                             => Across(R, p, Append(c, Head(d))) /\ Across(R, p, Tail(d))
    BY Zenon, <1>3, Shift DEF Lined
  <2> QED BY Zenon, <2>1 DEF Lined
<1> QED BY Zenon, <1>1, <1>2, <1>3

(* An item is dropped from the front of a place. *)
LEMMA LinedDrop ==
  ASSUME NEW S, NEW R, NEW a \in Seq(S), NEW b \in Seq(S), NEW c \in Seq(S), NEW d \in Seq(S),
         Lined(R, a, b, c, d)
  PROVE  /\ b # <<>> => Lined(R, a, Tail(b), c, d)
         /\ c # <<>> => Lined(R, a, b, Tail(c), d)
         /\ d # <<>> => Lined(R, a, b, c, Tail(d))
<1>1. \A t \in Seq(S) : t # <<>> /\ Chain(R, t) => Chain(R, Tail(t))
  BY Zenon, ChainTail
<1>2. \A u, t \in Seq(S) : /\ u # <<>> /\ Across(R, u, t) => Across(R, Tail(u), t)
                           /\ t # <<>> /\ Across(R, u, t) => Across(R, u, Tail(t))
  BY Zenon, AcrossTail
<1> QED BY Zenon, <1>1, <1>2 DEF Lined

(* Everything in s may stand before x. *)
After(R, s, x) == \A i \in 1..Len(s) : <<s[i], x>> \in R

(* An item that may follow every other keeps the line when it comes last.   *)
LEMMA LinedAdd ==
  ASSUME NEW S, NEW R, NEW a \in Seq(S), NEW b \in Seq(S), NEW c \in Seq(S), NEW d \in Seq(S),
         NEW x \in S, Lined(R, a, b, c, d),
         After(R, a, x), After(R, b, x), After(R, c, x), After(R, d, x)
  PROVE  /\ Lined(R, a, b, c, Append(d, x))
         /\ d = <<>> => Lined(R, a, b, Append(c, x), d)
<1>1. \A t \in Seq(S) : Chain(R, t) /\ After(R, t, x) => Chain(R, Append(t, x))
  BY Zenon, ChainAppend DEF After
<1>2. \A u, t \in Seq(S) : Across(R, u, t) /\ After(R, u, x) => Across(R, u, Append(t, x))
  BY Zenon, AcrossAppend DEF After
<1>3. \A t : Across(R, t, <<>>)
  BY Zenon, EmptyLined
<1> QED BY Zenon, <1>1, <1>2, <1>3 DEF Lined

(* The items of s are all in E. *)
Among(E, s) == \A i \in 1..Len(s) : s[i] \in E

(* A line under R is a line under Q when Q has R's pairs of the items in it. *)
LEMMA LinedMore ==
  ASSUME NEW E, NEW R, NEW Q, NEW a, NEW b, NEW c, NEW d, Lined(R, a, b, c, d),
         Among(E, a), Among(E, b), Among(E, c), Among(E, d),
         \A x, y \in E : <<x, y>> \in R => <<x, y>> \in Q
  PROVE  Lined(Q, a, b, c, d)
<1>1. \A t : Chain(R, t) /\ Among(E, t) => Chain(Q, t)
  BY Zenon DEF Chain, Among
<1>2. \A u, t : Across(R, u, t) /\ Among(E, u) /\ Among(E, t) => Across(Q, u, t)
  BY Zenon DEF Across, Among
<1> QED BY Zenon, <1>1, <1>2 DEF Lined

(* What the places hold, one behind another, is a chain. *)
LEMMA LinedChain ==
  ASSUME NEW S, NEW R, NEW a \in Seq(S), NEW b \in Seq(S), NEW c \in Seq(S), NEW d \in Seq(S),
         Lined(R, a, b, c, d)
  PROVE  /\ a \o b \o c \in Seq(S) /\ Chain(R, a \o b \o c)
         /\ a \o b \o c \o d \in Seq(S) /\ Chain(R, a \o b \o c \o d)
<1>1. a \o b \in Seq(S) /\ Chain(R, a \o b) /\ Across(R, a \o b, c) /\ Across(R, a \o b, d)
  BY Zenon, ConcatAt, ChainConcat, AcrossConcat DEF Lined
<1>2. (a \o b) \o c \in Seq(S) /\ Chain(R, (a \o b) \o c) /\ Across(R, (a \o b) \o c, d)
  BY Zenon, <1>1, ConcatAt, ChainConcat, AcrossConcat DEF Lined
<1> QED BY Zenon, <1>2, ConcatAt, ChainConcat DEF Lined

(* What a sequence holds. *)
Has(s, x) == \E k \in 1..Len(s) : s[k] = x

(* An appended item, and the items before it. *)
LEMMA HasAppend ==
  ASSUME NEW S, NEW s \in Seq(S), NEW x \in S
  PROVE  \A y : Has(Append(s, x), y) <=> Has(s, y) \/ y = x
<1>1. /\ \A k \in 1..Len(Append(s, x)) :
           (k \in 1..Len(s) /\ Append(s, x)[k] = s[k]) \/ (k = Len(s) + 1 /\ Append(s, x)[k] = x)
      /\ \A i \in 1..Len(s) : i \in 1..Len(Append(s, x)) /\ Append(s, x)[i] = s[i]
      /\ Len(s) + 1 \in 1..Len(Append(s, x)) /\ Append(s, x)[Len(s) + 1] = x
  BY Zenon, AppendAt
<1> QED BY Zenon, <1>1 DEF Has

(* The first item, and the items after it. *)
LEMMA HasTail ==
  ASSUME NEW S, NEW s \in Seq(S), s # <<>>
  PROVE  \A y : Has(s, y) <=> Has(Tail(s), y) \/ y = Head(s)
<1>1. /\ 1 \in 1..Len(s) /\ Head(s) = s[1]
      /\ \A i \in 1..Len(Tail(s)) : i + 1 \in 1..Len(s) /\ Tail(s)[i] = s[i + 1]
      /\ \A k \in 1..Len(s) : k = 1 \/ (k - 1 \in 1..Len(Tail(s)) /\ Tail(s)[k - 1] = s[k])
  BY Zenon, TailAt
<1> QED BY ZenonT(60), <1>1 DEF Has

(* The items of two sequences one behind the other. *)
LEMMA HasConcat ==
  ASSUME NEW S, NEW s \in Seq(S), NEW t \in Seq(S)
  PROVE  \A y : Has(s \o t, y) <=> Has(s, y) \/ Has(t, y)
<1>1. /\ \A k \in 1..Len(s \o t) : \/ k \in 1..Len(s) /\ (s \o t)[k] = s[k]
                                   \/ k - Len(s) \in 1..Len(t) /\ (s \o t)[k] = t[k - Len(s)]
      /\ \A i \in 1..Len(s) : i \in 1..Len(s \o t) /\ (s \o t)[i] = s[i]
      /\ \A j \in 1..Len(t) : Len(s) + j \in 1..Len(s \o t) /\ (s \o t)[Len(s) + j] = t[j]
  OBVIOUS
<1> QED BY ZenonT(60), <1>1 DEF Has

(* The empty sequence holds nothing. *)
LEMMA HasNothing == \A y : ~Has(<<>>, y)
<1>1. \A i : i \notin 1..Len(<<>>)
  OBVIOUS
<1> QED BY Zenon, <1>1 DEF Has

(* A sequence of one. *)
Single(s, x) ==
  s # <<>> /\ Head(s) = x /\ Tail(s) = <<>> /\ Append(<<>>, x) = s /\ Len(s) = 1 /\ s[1] = x

(* <<x>> is a sequence of one. *)
LEMMA SingleAt ==
  ASSUME NEW S, NEW x \in S
  PROVE  <<x>> \in Seq(S) /\ <<>> \in Seq(S) /\ Single(<<x>>, x)
BY DEF Single

(* A sequence of one holds that one. *)
LEMMA HasSingle == ASSUME NEW s, NEW x, Single(s, x) PROVE \A y : Has(s, y) <=> y = x
<1>1. \A k : k \in 1..1 <=> k = 1
  OBVIOUS
<1> QED BY Zenon, <1>1 DEF Has, Single

-----------------------------------------------------------------------------
(* Types, by group of variables.                                            *)

Cmd == Sends \cup {CloseCmd}
Msg == Messages \cup {CloseMsg}

SendTypes ==
  /\ cmds \in Seq(Cmd) /\ Len(cmds) <= CmdCap
  /\ spawned \subseteq Sends /\ slots \in Seq(Cmd)
  /\ sends \in [Sends -> {"none", "pending", "done", "failed"}]
  /\ sent \in Seq(SUBSET Sends) /\ wire \in Seq(Cmd)

ActorTypes ==
  /\ actor \in [at : {"select", "sink", "forward", "drain", "finish", "over"},
                item : Sends \cup Messages \cup {CloseCmd, CloseMsg, Nothing}]
  /\ actor.at = "forward" => actor.item \in Msg
  /\ actor.at = "sink" => actor.item \in Cmd
  /\ stream \in [count : 0..MaxMsgs, done : BOOLEAN]

RecvTypes ==
  /\ msgs \in Seq(Msg) /\ Len(msgs) <= MsgCap /\ taken \in Seq(Msg)
  /\ tasks \subseteq Recvs /\ lock \in Seq(Recvs \cup {CloseCmd})
  /\ recvs \in [Recvs -> FutureStates] /\ due \in [Recvs -> FutureStates]

RestTypes ==
  /\ handle \in [tx_cmd : BOOLEAN, rx_msg : BOOLEAN, open : BOOLEAN]
  /\ borrowed \in {0, 1}
  /\ closing \in {"idle", "take", "panicked", "send", "wait", "lock", "drain", "done"}

Types == SendTypes /\ ActorTypes /\ RecvTypes /\ RestTypes

(* The capacity of a channel is not exceeded. *)
LEMMA WithinCapacity ==
  ASSUME NEW S, NEW s \in Seq(S), NEW cap \in Nat
  PROVE  /\ \A x \in S : Len(s) < cap => Append(s, x) \in Seq(S) /\ Len(Append(s, x)) <= cap
         /\ s # <<>> /\ Len(s) <= cap => Tail(s) \in Seq(S) /\ Len(Tail(s)) <= cap /\ Head(s) \in S
OBVIOUS

(* Every step keeps the types of the sending side. *)
LEMMA SendTypesStep == Types /\ [Next]_vars => SendTypes'
<1> SUFFICES ASSUME Types, [Next]_vars PROVE SendTypes'
  OBVIOUS
<1>1. SendTypes /\ CmdCap \in Nat /\ ActorTypes /\ CloseCmd \in Cmd
  BY Zenon, CapacityAssumption DEF Types, Cmd
<1>2. ASSUME NEW i \in Sends, NEW status \in {"none", "pending", "done", "failed"}, SendCall(i, status)
      PROVE  /\ sends' \in [Sends -> {"none", "pending", "done", "failed"}]
             /\ sent' \in Seq(SUBSET Sends) /\ wire' = wire
  <2>1. {j \in Sends : sends[j] = "done"} \in SUBSET Sends
    BY Zenon
  <2> QED BY Zenon, <1>1, <1>2, <2>1, AppendAt DEF SendTypes, SendCall
<1>3. ASSUME NEW i \in Sends, SendFast(i) PROVE SendTypes'
  <2>1. i \in Cmd /\ "done" \in {"none", "pending", "done", "failed"}
    BY Zenon DEF Cmd
  <2>2. cmds' \in Seq(Cmd) /\ Len(cmds') <= CmdCap
    BY Zenon, <1>1, <1>3, <2>1, WithinCapacity DEF SendFast, Slot, SendTypes
  <2> QED BY Zenon, <1>1, <1>2, <1>3, <2>1, <2>2 DEF SendFast, SendTypes
<1>4. ASSUME NEW i \in Sends, SendSlow(i) PROVE SendTypes'
  BY Zenon, <1>1, <1>2, <1>4 DEF SendSlow, SendTypes
<1>5. ASSUME NEW i \in Sends, SendClosed(i) PROVE SendTypes'
  BY Zenon, <1>1, <1>2, <1>5 DEF SendClosed, SendTypes
<1>6. ASSUME NEW i \in Sends, SendPoll(i) PROVE SendTypes'
  <2>1. Append(slots, i) \in Seq(Cmd)
    BY Zenon, <1>1, AppendAt DEF SendTypes, Cmd
  <2> QED BY Zenon, <1>1, <1>6, <2>1 DEF SendPoll, SendTypes
<1>7. CASE SlotGranted
  <2>1. slots # <<>> /\ Tail(slots) \in Seq(Cmd) /\ Head(slots) \in Cmd
    BY Zenon, <1>1, <1>7, TailAt DEF SendTypes, SlotGranted
  <2>2. cmds' \in Seq(Cmd) /\ Len(cmds') <= CmdCap
    BY Zenon, <1>1, <1>7, <2>1, WithinCapacity DEF SlotGranted, Slot, SendTypes
  <2>3. sends' \in [Sends -> {"none", "pending", "done", "failed"}]
    BY Zenon, <1>1, <1>7, <2>1 DEF SlotGranted, SendTypes, Cmd
  <2> QED BY Zenon, <1>1, <1>7, <2>1, <2>2, <2>3 DEF SlotGranted, SendTypes
<1>8. CASE ActorCommand
  BY Zenon, <1>1, <1>8, WithinCapacity DEF ActorCommand, SendTypes
<1>9. CASE SinkDone
  BY Zenon, <1>1, <1>9, AppendAt DEF SinkDone, SendTypes, ActorTypes, sendVars
<1>10. CASE CloseSend
  <2>1. Append(slots, CloseCmd) \in Seq(Cmd)
    BY Zenon, <1>1, AppendAt DEF SendTypes
  <2>2. Slot => Append(cmds, CloseCmd) \in Seq(Cmd) /\ Len(Append(cmds, CloseCmd)) <= CmdCap
    BY Zenon, <1>1, WithinCapacity DEF SendTypes, Slot
  <2> QED BY Zenon, <1>1, <1>10, <2>1, <2>2 DEF CloseSend, SendTypes
<1>11. CASE UNCHANGED <<sendVars, wire>>
  BY Zenon, <1>1, <1>11 DEF SendTypes, sendVars
<1>12. ASSUME ActorNext, ~ActorCommand, ~SinkDone PROVE UNCHANGED <<sendVars, wire>>
  BY Zenon, <1>12 DEF ActorNext, ActorNoSenders, SinkFails, ActorMessage, ActorCloseFrame,
     ActorStreamEnds, ActorForward, ActorNoReceiver, ActorDrain, ActorEnds
<1>13. ASSUME RecvNext PROVE UNCHANGED <<sendVars, wire>>
  BY Zenon, <1>13 DEF RecvNext, CallReturns, RecvFast, RecvDisconnected, RecvSlow, RecvPoll,
     RecvTake, RecvEnds, RecvSettle, RecvCancel, RecvCall, RecvResult
<1>14. ASSUME CloseNext, ~CloseSend PROVE UNCHANGED <<sendVars, wire>>
  BY Zenon, <1>14 DEF CloseNext, CloseCall, CloseTake, CloseLock, CloseDrain, CloseEnds, Drop
<1>15. CASE UNCHANGED vars
  BY Zenon, <1>11, <1>15 DEF vars, sendVars
<1> QED BY Zenon, <1>3, <1>4, <1>5, <1>6, <1>7, <1>8, <1>9, <1>10, <1>11, <1>12, <1>13, <1>14, <1>15
        DEF Next, SendNext

(* Every step keeps the types of the actor and the stream. *)
LEMMA ActorTypesStep == Types /\ [Next]_vars => ActorTypes'
<1> SUFFICES ASSUME Types, [Next]_vars PROVE ActorTypes'
  OBVIOUS
<1>1. ActorTypes /\ SendTypes
  BY Zenon DEF Types
<1> DEFINE At == {"select", "sink", "forward", "drain", "finish", "over"}
           Item == Sends \cup Messages \cup {CloseCmd, CloseMsg, Nothing}
<1>2. ASSUME NEW at \in At, NEW item \in Item, ActorGoes(at, item), UNCHANGED stream,
             at = "forward" => item \in Msg, at = "sink" => item \in Cmd
      PROVE  ActorTypes'
  BY Zenon, <1>1, <1>2 DEF ActorTypes, ActorGoes
<1>3. CASE ActorCommand
  <2>1. Head(cmds) \in Cmd
    BY Zenon, <1>1, <1>3, TailAt DEF SendTypes, ActorCommand
  <2> QED BY Zenon, <1>2, <1>3, <2>1 DEF ActorCommand, Cmd
<1>4. CASE ActorNoSenders \/ SinkDone \/ SinkFails \/ ActorForward \/ ActorNoReceiver \/ ActorEnds
  BY Zenon, <1>2, <1>4 DEF ActorNoSenders, SinkDone, SinkFails, ActorForward, ActorNoReceiver, ActorEnds
<1>5. CASE ActorMessage
  <2>1. stream.count + 1 \in 0..MaxMsgs /\ stream.count + 1 \in Messages
    <3>1. stream.count \in 0..MaxMsgs /\ stream.count < MaxMsgs
      BY Zenon, <1>1, <1>5 DEF ActorTypes, ActorMessage
    <3> QED BY <3>1, CapacityAssumption DEF Messages
  <2>2. stream' \in [count : 0..MaxMsgs, done : BOOLEAN]
    BY Zenon, <1>1, <1>5, <2>1 DEF ActorTypes, ActorMessage
  <2> QED BY Zenon, <1>5, <2>1, <2>2 DEF ActorMessage, ActorGoes, ActorTypes, Msg
<1>6. CASE ActorCloseFrame \/ ActorStreamEnds
  <2>1. stream' \in [count : 0..MaxMsgs, done : BOOLEAN]
    BY Zenon, <1>1, <1>6 DEF ActorTypes, ActorCloseFrame, ActorStreamEnds
  <2>2. CASE ActorGoes("forward", CloseMsg)
    BY Zenon, <2>1, <2>2 DEF ActorTypes, ActorGoes, Msg
  <2>3. CASE ActorGoes("finish", Nothing)
    BY Zenon, <2>1, <2>3 DEF ActorTypes, ActorGoes
  <2> QED BY Zenon, <1>6, <2>2, <2>3 DEF ActorCloseFrame, ActorStreamEnds
<1>7. CASE ActorDrain
  <2>1. ~stream.done /\ stream.count < MaxMsgs => stream.count + 1 \in 0..MaxMsgs
    <3>1. stream.count \in 0..MaxMsgs
      BY Zenon, <1>1 DEF ActorTypes
    <3> QED BY <3>1, CapacityAssumption
  <2>2. stream' \in [count : 0..MaxMsgs, done : BOOLEAN]
    BY Zenon, <1>1, <1>7, <2>1 DEF ActorTypes, ActorDrain
  <2>3. CASE UNCHANGED actor
    BY Zenon, <1>1, <2>2, <2>3 DEF ActorTypes
  <2>4. CASE ActorGoes("finish", Nothing)
    BY Zenon, <2>2, <2>4 DEF ActorTypes, ActorGoes
  <2> QED BY Zenon, <1>7, <2>3, <2>4 DEF ActorDrain
<1>8. CASE UNCHANGED <<actor, stream>>
  BY Zenon, <1>1, <1>8 DEF ActorTypes
<1>9. ASSUME SendNext PROVE UNCHANGED <<actor, stream>>
  BY Zenon, <1>9 DEF SendNext, SendFast, SendSlow, SendClosed, SendPoll, SlotGranted, SendCall
<1>10. ASSUME RecvNext PROVE UNCHANGED <<actor, stream>>
  BY Zenon, <1>10 DEF RecvNext, CallReturns, RecvFast, RecvDisconnected, RecvSlow, RecvPoll,
     RecvTake, RecvEnds, RecvSettle, RecvCancel, RecvCall, RecvResult
<1>11. ASSUME CloseNext PROVE UNCHANGED <<actor, stream>>
  BY Zenon, <1>11 DEF CloseNext, CloseCall, CloseTake, CloseSend, CloseLock, CloseDrain, CloseEnds, Drop
<1>12. CASE UNCHANGED vars
  BY Zenon, <1>8, <1>12 DEF vars
<1> QED BY Zenon, <1>3, <1>4, <1>5, <1>6, <1>7, <1>8, <1>9, <1>10, <1>11, <1>12 DEF Next, ActorNext

(* The result of a recv() is one of its future's states. *)
LEMMA ResultState == \A m \in Msg : Result(m) \in FutureStates
BY Zenon DEF Msg, Result, FutureStates

(* Every step keeps the types of the receiving side. *)
LEMMA RecvTypesStep == Types /\ [Next]_vars => RecvTypes'
<1> SUFFICES ASSUME Types, [Next]_vars PROVE RecvTypes'
  OBVIOUS
<1> DEFINE Takers == Recvs \cup {CloseCmd}
<1>1. /\ RecvTypes /\ ActorTypes /\ MsgCap \in Nat /\ lock \in Seq(Takers)
      /\ {None, Pending, Cancelled, Closed, TimedOut} \subseteq FutureStates
  BY Zenon, CapacityAssumption DEF Types, RecvTypes, FutureStates
<1>2. msgs # <<>> => /\ Tail(msgs) \in Seq(Msg) /\ Len(Tail(msgs)) <= MsgCap
                     /\ Append(taken, Head(msgs)) \in Seq(Msg) /\ Result(Head(msgs)) \in FutureStates
  BY Zenon, <1>1, WithinCapacity, AppendAt, ResultState DEF RecvTypes
<1>3. lock # <<>> => Tail(lock) \in Seq(Takers)
  BY Zenon, <1>1, TailAt
<1>4. CASE ActorForward
  BY Zenon, <1>1, <1>4, WithinCapacity DEF ActorForward, RecvTypes, ActorTypes
<1>5. ASSUME NEW r \in Recvs, RecvFast(r) \/ RecvDisconnected(r) \/ RecvSlow(r) PROVE RecvTypes'
  BY Zenon, <1>1, <1>2, <1>5 DEF RecvFast, RecvDisconnected, RecvSlow, RecvCall, RecvTypes
<1>6. ASSUME NEW r \in Recvs, RecvPoll(r) PROVE RecvTypes'
  <2>1. Append(lock, r) \in Seq(Takers)
    BY Zenon, <1>1, AppendAt
  <2> QED BY Zenon, <1>1, <1>6, <2>1 DEF RecvPoll, RecvTypes
<1>7. ASSUME NEW r \in Recvs, RecvTake(r) \/ RecvEnds(r) PROVE RecvTypes'
  <2>1. PICK v \in FutureStates : RecvResult(r, v)
    BY Zenon, <1>1, <1>2, <1>7 DEF RecvTake, RecvEnds
  <2>2. due' \in [Recvs -> FutureStates] /\ lock' \in Seq(Takers) /\ UNCHANGED <<tasks, recvs>>
    BY Zenon, <1>1, <1>3, <2>1 DEF RecvResult, RecvTypes
  <2>3. msgs' \in Seq(Msg) /\ Len(msgs') <= MsgCap /\ taken' \in Seq(Msg)
    BY Zenon, <1>1, <1>2, <1>7 DEF RecvTake, RecvEnds, RecvTypes
  <2> QED BY Zenon, <1>1, <2>2, <2>3 DEF RecvTypes
<1>8. ASSUME NEW r \in Recvs, RecvSettle(r) PROVE RecvTypes'
  BY Zenon, <1>1, <1>8 DEF RecvSettle, RecvTypes
<1>9. ASSUME NEW r \in Recvs, RecvCancel(r) PROVE RecvTypes'
  BY Zenon, <1>1, <1>9 DEF RecvCancel, RecvTypes
<1>10. CASE CloseLock
  <2>1. Append(lock, CloseCmd) \in Seq(Takers)
    BY Zenon, <1>1, AppendAt
  <2> QED BY Zenon, <1>1, <1>10, <2>1 DEF CloseLock, RecvTypes
<1>11. CASE CloseDrain
  <2>1. lock' \in Seq(Takers)
    <3>1. <<>> \in Seq(Takers) /\ Tail(<<>>) = <<>>
      OBVIOUS
    <3> QED BY Zenon, <1>1, <1>3, <1>11, <3>1 DEF CloseDrain
  <2> QED BY Zenon, <1>1, <1>2, <1>11, <2>1 DEF CloseDrain, RecvTypes
<1>12. CASE CloseEnds
  <2>1. PICK k \in DOMAIN lock : lock' = SubSeq(lock, 1, k - 1) \o SubSeq(lock, k + 1, Len(lock))
    BY Zenon, <1>12 DEF CloseEnds
  <2>2. \A S : \A s \in Seq(S) : \A j \in DOMAIN s : SubSeq(s, 1, j - 1) \o SubSeq(s, j + 1, Len(s)) \in Seq(S)
    OBVIOUS
  <2>3. lock' \in Seq(Takers)
    BY Zenon, <1>1, <2>1, <2>2
  <2> QED BY Zenon, <1>1, <1>12, <2>3 DEF CloseEnds, RecvTypes
<1>13. CASE UNCHANGED recvVars
  BY Zenon, <1>1, <1>13 DEF RecvTypes, recvVars
<1>14. ASSUME SendNext PROVE UNCHANGED recvVars
  BY Zenon, <1>14 DEF SendNext, SendFast, SendSlow, SendClosed, SendPoll, SlotGranted, SendCall
<1>15. ASSUME ActorNext, ~ActorForward PROVE UNCHANGED recvVars
  BY Zenon, <1>15 DEF ActorNext, ActorCommand, ActorNoSenders, SinkDone, SinkFails, ActorMessage,
     ActorCloseFrame, ActorStreamEnds, ActorNoReceiver, ActorDrain, ActorEnds
<1>16. ASSUME CloseNext, ~CloseLock, ~CloseDrain, ~CloseEnds PROVE UNCHANGED recvVars
  BY Zenon, <1>16 DEF CloseNext, CloseCall, CloseTake, CloseSend, Drop
<1>17. CASE UNCHANGED vars \/ CallReturns
  BY Zenon, <1>13, <1>17 DEF vars, CallReturns, recvVars
<1> QED BY Zenon, <1>4, <1>5, <1>6, <1>7, <1>8, <1>9, <1>10, <1>11, <1>12, <1>13, <1>14, <1>15, <1>16, <1>17
        DEF Next, RecvNext

(* Every step keeps the types of the handle and of the close() task. *)
LEMMA RestTypesStep == Types /\ [Next]_vars => RestTypes'
<1> SUFFICES ASSUME Types, [Next]_vars PROVE RestTypes'
  OBVIOUS
<1>1. RestTypes
  BY Zenon DEF Types
<1>2. CASE SendNext
  BY Zenon, <1>1, <1>2 DEF SendNext, SendFast, SendSlow, SendClosed, SendPoll, SlotGranted, SendCall, RestTypes
<1>3. CASE ActorNext
  BY Zenon, <1>1, <1>3 DEF ActorNext, ActorCommand, ActorNoSenders, SinkDone, SinkFails, ActorMessage,
     ActorCloseFrame, ActorStreamEnds, ActorForward, ActorNoReceiver, ActorDrain, ActorEnds, RestTypes
<1>4. CASE RecvNext
  BY ZenonT(60), <1>1, <1>4 DEF RecvNext, CallReturns, RecvFast, RecvDisconnected, RecvSlow, RecvPoll,
     RecvTake, RecvEnds, RecvSettle, RecvCancel, RecvCall, RecvResult, RestTypes
<1>5. CASE CloseNext
  <2>1. Detached \in [tx_cmd : BOOLEAN, rx_msg : BOOLEAN, open : BOOLEAN]
    BY Zenon DEF Detached
  <2>2. handle' \in {handle, Detached} /\ borrowed' = borrowed
    BY Zenon, <1>5 DEF CloseNext, CloseCall, CloseTake, CloseSend, CloseLock, CloseDrain, CloseEnds, Drop
  <2>3. closing' \in {closing, "take", "panicked", "send", "wait", "lock", "drain", "done"}
    BY Zenon, <1>5 DEF CloseNext, CloseCall, CloseTake, CloseSend, CloseLock, CloseDrain, CloseEnds, Drop
  <2> QED BY Zenon, <1>1, <2>1, <2>2, <2>3 DEF RestTypes
<1>6. CASE UNCHANGED vars
  BY Zenon, <1>1, <1>6 DEF vars, RestTypes
<1> QED BY Zenon, <1>2, <1>3, <1>4, <1>5, <1>6 DEF Next

(* The start. *)
LEMMA InitTypes == Init => Types
<1> SUFFICES ASSUME Init PROVE Types
  OBVIOUS
<1>1. /\ \A S : <<>> \in Seq(S) /\ Len(<<>>) = 0 /\ 0 <= CmdCap /\ 0 <= MsgCap /\ 0 \in 0..MaxMsgs
  BY CapacityAssumption
<1>2. SendTypes
  BY Zenon, <1>1 DEF Init, SendTypes
<1>3. ActorTypes
  BY Zenon, <1>1 DEF Init, ActorTypes
<1>4. RecvTypes
  BY Zenon, <1>1 DEF Init, RecvTypes, FutureStates
<1>5. RestTypes
  BY Zenon DEF Init, RestTypes
<1> QED BY Zenon, <1>2, <1>3, <1>4, <1>5 DEF Types

-----------------------------------------------------------------------------
(* While the object has its receiver, no close() has got as far as sending  *)
(* its command or asking for the mutex.                                     *)

NotClosed ==
  handle.rx_msg =>
    /\ closing \in {"idle", "take", "panicked"} /\ actor.at # "drain"
    /\ ~(actor.at = "sink" /\ actor.item = CloseCmd)
    /\ ~Has(cmds, CloseCmd) /\ ~Has(slots, CloseCmd) /\ ~Has(lock, CloseCmd)

(* The receiver, once taken out of the object, does not come back. *)
LEMMA OpenStays ==
  ASSUME [Next]_vars, handle'.rx_msg
  PROVE  handle' = handle /\ handle.rx_msg
<1>1. handle' \in {handle, Detached}
  <2>1. CASE SendNext
    BY Zenon, <2>1 DEF SendNext, SendFast, SendSlow, SendClosed, SendPoll, SlotGranted, SendCall
  <2>2. CASE ActorNext
    BY Zenon, <2>2 DEF ActorNext, ActorCommand, ActorNoSenders, SinkDone, SinkFails, ActorMessage,
       ActorCloseFrame, ActorStreamEnds, ActorForward, ActorNoReceiver, ActorDrain, ActorEnds
  <2>3. CASE RecvNext
    BY Zenon, <2>3 DEF RecvNext, CallReturns, RecvFast, RecvDisconnected, RecvSlow, RecvPoll,
       RecvTake, RecvEnds, RecvSettle, RecvCancel, RecvCall, RecvResult
  <2>4. CASE CloseNext
    BY Zenon, <2>4 DEF CloseNext, CloseCall, CloseTake, CloseSend, CloseLock, CloseDrain, CloseEnds, Drop
  <2>5. CASE UNCHANGED vars
    BY Zenon, <2>5 DEF vars
  <2> QED BY Zenon, <2>1, <2>2, <2>3, <2>4, <2>5 DEF Next
<1>2. ~Detached.rx_msg
  BY Zenon DEF Detached
<1> QED BY Zenon, <1>1, <1>2

(* Every step keeps close() from being half done on an open object. *)
LEMMA NotClosedStep == Types /\ NotClosed /\ [Next]_vars => NotClosed'
<1> SUFFICES ASSUME Types, NotClosed, [Next]_vars, handle'.rx_msg
             PROVE  /\ closing' \in {"idle", "take", "panicked"} /\ actor'.at # "drain"
                    /\ ~(actor'.at = "sink" /\ actor'.item = CloseCmd)
                    /\ ~Has(cmds', CloseCmd) /\ ~Has(slots', CloseCmd) /\ ~Has(lock', CloseCmd)
  BY Zenon DEF NotClosed
<1>1. /\ handle' = handle /\ handle.rx_msg
      /\ closing \in {"idle", "take", "panicked"} /\ actor.at # "drain"
      /\ ~(actor.at = "sink" /\ actor.item = CloseCmd)
      /\ ~Has(cmds, CloseCmd) /\ ~Has(slots, CloseCmd) /\ ~Has(lock, CloseCmd)
  BY Zenon, OpenStays DEF NotClosed
<1>2. /\ cmds \in Seq(Cmd) /\ slots \in Seq(Cmd) /\ lock \in Seq(Recvs \cup {CloseCmd})
      /\ \A i \in Sends : i \in Cmd /\ i # CloseCmd
      /\ \A r \in Recvs : r # CloseCmd
  <2>1. /\ \A i \in Sends : i # CloseCmd
        /\ \A r \in Recvs : r # CloseCmd
    BY CapacityAssumption DEF Sends, Recvs, CloseCmd
  <2> QED BY Zenon, <2>1 DEF Types, SendTypes, RecvTypes, Cmd
<1>3. /\ cmds # <<>> => ~Has(Tail(cmds), CloseCmd) /\ Head(cmds) # CloseCmd
      /\ slots # <<>> => ~Has(Tail(slots), CloseCmd) /\ Head(slots) # CloseCmd /\ Head(slots) \in Sends
      /\ lock # <<>> => ~Has(Tail(lock), CloseCmd)
  <2>1. \A S : \A q \in Seq(S) : q # <<>> /\ ~Has(q, CloseCmd) =>
          Head(q) \in S /\ Head(q) # CloseCmd /\ ~Has(Tail(q), CloseCmd)
    BY Zenon, HasTail, TailAt
  <2> QED BY Zenon, <1>1, <1>2, <2>1 DEF Cmd
<1>4. /\ \A i \in Sends : ~Has(Append(cmds, i), CloseCmd) /\ ~Has(Append(slots, i), CloseCmd)
      /\ \A r \in Recvs : ~Has(Append(lock, r), CloseCmd)
  <2>1. \A S : \A q \in Seq(S) : \A x \in S : x # CloseCmd /\ ~Has(q, CloseCmd) => ~Has(Append(q, x), CloseCmd)
    BY Zenon, HasAppend
  <2>2. \A r \in Recvs : r \in Recvs \cup {CloseCmd}
    BY Zenon
  <2> QED BY Zenon, <1>1, <1>2, <2>1, <2>2
<1>5. CASE SendNext
  <2>1. CASE SlotGranted
    BY Zenon, <1>1, <1>3, <1>4, <2>1 DEF SlotGranted, recvVars
  <2> QED BY Zenon, <1>1, <1>4, <1>5, <2>1 DEF SendNext, SendFast, SendSlow, SendClosed, SendPoll, SendCall, recvVars
<1>6. CASE ActorNext
  <2>1. CASE ActorCommand
    BY Zenon, <1>1, <1>3, <2>1 DEF ActorCommand, ActorGoes, recvVars
  <2>2. ASSUME NEW at \in {"select", "forward", "finish", "over"}, NEW item, ActorGoes(at, item),
               UNCHANGED <<closing, cmds, slots, lock>>
        PROVE  /\ closing' \in {"idle", "take", "panicked"} /\ actor'.at # "drain"
               /\ ~(actor'.at = "sink" /\ actor'.item = CloseCmd)
               /\ ~Has(cmds', CloseCmd) /\ ~Has(slots', CloseCmd) /\ ~Has(lock', CloseCmd)
    <3>1. actor'.at \in {"select", "forward", "finish", "over"}
      BY Zenon, <2>2 DEF ActorGoes
    <3> QED BY Zenon, <1>1, <2>2, <3>1
  <2>3. CASE SinkDone \/ SinkFails
    BY Zenon, <1>1, <2>2, <2>3 DEF SinkDone, SinkFails, recvVars, sendVars
  <2>4. CASE ActorMessage \/ ActorCloseFrame \/ ActorForward
    BY Zenon, <2>2, <2>4 DEF ActorMessage, ActorCloseFrame, ActorForward, recvVars, sendVars
  <2>5. CASE ActorNoSenders \/ ActorStreamEnds \/ ActorNoReceiver \/ ActorEnds
    BY Zenon, <2>2, <2>5 DEF ActorNoSenders, ActorStreamEnds, ActorNoReceiver, ActorEnds, recvVars, sendVars
  <2> QED BY Zenon, <1>1, <1>6, <2>1, <2>3, <2>4, <2>5 DEF ActorNext, ActorDrain
<1>7. CASE RecvNext
  BY ZenonT(60), <1>1, <1>3, <1>4, <1>7 DEF RecvNext, CallReturns, RecvFast, RecvDisconnected, RecvSlow, RecvPoll,
     RecvTake, RecvEnds, RecvSettle, RecvCancel, RecvCall, RecvResult, sendVars, recvVars
<1>8. CASE CloseNext
  <2>1. ~Detached.rx_msg
    BY Zenon DEF Detached
  <2> QED BY Zenon, <1>1, <1>8, <2>1 DEF CloseNext, CloseCall, CloseTake, CloseSend, CloseLock, CloseDrain, CloseEnds,
          Drop, sendVars, recvVars
<1>9. CASE UNCHANGED vars
  BY Zenon, <1>1, <1>9 DEF vars
<1> QED BY Zenon, <1>5, <1>6, <1>7, <1>8, <1>9 DEF Next

-----------------------------------------------------------------------------
(* The way of a message: the actor's hands, the channel, a recv().  The     *)
(* messages 1 to n are on it, in this order; n is all the peer has sent as  *)
(* long as none has been discarded.                                         *)

Up == {p \in Msg \X Msg : p[1] # CloseMsg /\ p[2] # CloseMsg => p[1] < p[2]}
Dense(t, m, h, n) == \A x \in Messages : x <= n <=> Has(t, x) \/ Has(m, x) \/ Has(h, x)

MsgBook ==
  /\ Lined(Up, taken, msgs, Held("forward"), <<>>)
  /\ \E n \in 0..stream.count :
       /\ Dense(taken, msgs, Held("forward"), n)
       /\ handle.rx_msg \/ actor.at \notin {"finish", "over", "drain"} => n = stream.count

(* The order of messages. *)
LEMMA UpPairs == \A x, y \in Msg : <<x, y>> \in Up <=> (x # CloseMsg /\ y # CloseMsg => x < y)
BY DEF Up

(* What the actor holds for the channel. *)
LEMMA HeldMessage ==
  ASSUME Types
  PROVE  /\ Held("forward") \in Seq(Msg) /\ <<>> \in Seq(Msg)
         /\ actor.at = "forward" => Single(Held("forward"), actor.item) /\ actor.item \in Msg
         /\ actor.at # "forward" => Held("forward") = <<>>
<1>1. CASE actor.at = "forward"
  <2>1. Held("forward") = <<actor.item>> /\ actor.item \in Msg
    BY Zenon, <1>1 DEF Held, Types, ActorTypes
  <2>2. <<actor.item>> \in Seq(Msg) /\ <<>> \in Seq(Msg) /\ Single(<<actor.item>>, actor.item)
    BY Zenon, <2>1, SingleAt
  <2> QED BY Zenon, <1>1, <2>1, <2>2
<1>2. CASE actor.at # "forward"
  <2>1. <<>> \in Seq(Msg)
    OBVIOUS
  <2> QED BY Zenon, <1>2, <2>1 DEF Held
<1> QED BY Zenon, <1>1, <1>2

(* A message taken out of the channel. *)
LEMMA DenseTake ==
  ASSUME NEW t \in Seq(Msg), NEW m \in Seq(Msg), NEW h, NEW n, m # <<>>, Dense(t, m, h, n)
  PROVE  Dense(Append(t, Head(m)), Tail(m), h, n)
<1>1. Head(m) \in Msg
  BY Zenon, TailAt
<1>2. \A y : Has(Append(t, Head(m)), y) <=> Has(t, y) \/ y = Head(m)
  BY Zenon, <1>1, HasAppend
<1>3. \A y : Has(m, y) <=> Has(Tail(m), y) \/ y = Head(m)
  BY Zenon, HasTail
<1> QED BY Zenon, <1>2, <1>3 DEF Dense

(* A message put into the channel. *)
LEMMA DensePut ==
  ASSUME NEW t, NEW m \in Seq(Msg), NEW h, NEW n, NEW x \in Msg, Single(h, x), Dense(t, m, h, n)
  PROVE  Dense(t, Append(m, x), <<>>, n)
<1>1. \A y : Has(Append(m, x), y) <=> Has(m, y) \/ y = x
  BY Zenon, HasAppend
<1>2. \A y : (Has(h, y) <=> y = x) /\ ~Has(<<>>, y)
  BY Zenon, HasSingle, HasNothing
<1> QED BY Zenon, <1>1, <1>2 DEF Dense

(* A message read from the stream, or a Close. *)
LEMMA DenseRead ==
  ASSUME NEW t, NEW m, NEW n \in Nat, NEW h, Dense(t, m, <<>>, n)
  PROVE  /\ Single(h, CloseMsg) => Dense(t, m, h, n)
         /\ Single(h, n + 1) => Dense(t, m, h, n + 1)
<1>1. \A x \in Messages : x # CloseMsg /\ (x <= n + 1 <=> x <= n \/ x = n + 1)
  BY DEF Messages, CloseMsg
<1> QED BY Zenon, <1>1, HasSingle, HasNothing DEF Dense

(* A message the actor holds is the last one, and may be discarded. *)
LEMMA DenseLose ==
  ASSUME NEW t \in Seq(Msg), NEW m \in Seq(Msg), NEW h \in Seq(Msg), NEW n \in Nat, NEW x \in Msg, n <= MaxMsgs,
         Single(h, x), Dense(t, m, h, n), Lined(Up, t, m, h, <<>>)
  PROVE  \E k \in 0..n : Dense(t, m, <<>>, k)
<1>1. CASE x = CloseMsg
  <2>1. \A y \in Messages : y # CloseMsg
    BY DEF Messages, CloseMsg
  <2>2. n \in 0..n
    OBVIOUS
  <2>3. Dense(t, m, <<>>, n)
    BY Zenon, <1>1, <2>1, HasSingle, HasNothing DEF Dense
  <2> QED BY Zenon, <2>2, <2>3
<1>2. CASE x # CloseMsg
  <2>1. x \in Messages /\ x <= n /\ n \in Messages
    <3>1. x \in Messages
      BY Zenon, <1>2 DEF Msg
    <3>2. x <= n
      BY Zenon, <3>1, HasSingle DEF Dense
    <3> QED BY <3>1, <3>2, CapacityAssumption DEF Messages
  <2>2. \A y \in Messages : Has(t, y) \/ Has(m, y) => y < x
    <3>1. /\ 1 \in 1..Len(h) /\ h[1] = x
      BY DEF Single
    <3>2. ASSUME NEW s \in Seq(Msg), NEW y \in Messages, Across(Up, s, h), Has(s, y) PROVE y < x
      <4>1. <<y, x>> \in Up
        BY Zenon, <3>1, <3>2 DEF Across, Has
      <4>2. y # CloseMsg /\ y \in Msg
        BY DEF Messages, Msg, CloseMsg
      <4> QED BY Zenon, <1>2, <4>1, <4>2, UpPairs
    <3> QED BY Zenon, <3>2 DEF Lined
  <2>3. x = n
    <3>1. Has(t, n) \/ Has(m, n) \/ n = x
      <4>1. n <= n
        OBVIOUS
      <4> QED BY Zenon, <2>1, <4>1, HasSingle DEF Dense
    <3>2. n < x \/ n = x
      BY Zenon, <2>1, <2>2, <3>1
    <3> QED BY <2>1, <3>2 DEF Messages
  <2>4. \A y \in Messages : y <= n - 1 <=> y <= n /\ y # x
    <3>1. \A y \in Int : y <= n - 1 <=> y <= n /\ y # n
      OBVIOUS
    <3>2. \A y \in Messages : y \in Int
      BY DEF Messages
    <3> QED BY Zenon, <2>3, <3>1, <3>2
  <2>5. \A y \in Messages : ~(y < y)
    BY DEF Messages
  <2>6. Dense(t, m, <<>>, n - 1)
    <3>1. \A y : (Has(h, y) <=> y = x) /\ ~Has(<<>>, y)
      BY Zenon, HasSingle, HasNothing
    <3>2. ASSUME NEW y \in Messages PROVE y <= n - 1 <=> Has(t, y) \/ Has(m, y)
      <4>1. y <= n <=> Has(t, y) \/ Has(m, y) \/ y = x
        BY Zenon, <3>1 DEF Dense
      <4>2. Has(t, y) \/ Has(m, y) => y # x
        BY Zenon, <2>2, <2>5
      <4> QED BY Zenon, <2>4, <4>1, <4>2
    <3> QED BY Zenon, <3>1, <3>2 DEF Dense
  <2>7. n - 1 \in 0..n
    BY <2>1 DEF Messages
  <2> QED BY Zenon, <2>6, <2>7
<1> QED BY Zenon, <1>1, <1>2

(* Where the actor goes. *)
LEMMA GoesTo == \A A : \A at \in A : \A item : ActorGoes(at, item) => actor'.at \in A
<1> SUFFICES ASSUME NEW A, NEW at \in A, NEW item, ActorGoes(at, item) PROVE actor'.at \in A
  BY Zenon
<1>1. actor' = [at |-> at, item |-> item]
  BY Zenon DEF ActorGoes
<1>2. actor'.at = at
  BY Zenon, <1>1
<1> QED BY Zenon, <1>2

(* Every step keeps the messages in line. *)
LEMMA MsgBookStep == Types /\ Types' /\ NotClosed /\ MsgBook /\ [Next]_vars => MsgBook'
<1> SUFFICES ASSUME Types, Types', NotClosed, MsgBook, [Next]_vars PROVE MsgBook'
  OBVIOUS
<1> DEFINE h == Held("forward")
           Full(k) == handle.rx_msg \/ actor.at \notin {"finish", "over", "drain"} => k = stream.count
<1>1. /\ taken \in Seq(Msg) /\ msgs \in Seq(Msg) /\ h \in Seq(Msg) /\ <<>> \in Seq(Msg)
      /\ actor.at = "forward" => Single(h, actor.item) /\ actor.item \in Msg
      /\ actor.at # "forward" => h = <<>>
      /\ stream.count \in 0..MaxMsgs /\ CloseMsg \in Msg
  BY Zenon, HeldMessage DEF Types, RecvTypes, ActorTypes, Msg
<1>2. PICK n \in 0..stream.count : Dense(taken, msgs, h, n) /\ Full(n)
  BY Zenon DEF MsgBook
<1>3. Lined(Up, taken, msgs, h, <<>>)
  BY Zenon DEF MsgBook
<1>4. n \in Nat /\ stream.count \in Nat /\ n <= MaxMsgs
  BY <1>1, <1>2, CapacityAssumption
<1>5. handle'.rx_msg => handle' = handle /\ handle.rx_msg
  BY Zenon, OpenStays
<1>6. /\ actor'.at = "forward" => h' = <<actor'.item>>
      /\ actor'.at # "forward" => h' = <<>>
      /\ actor' = actor => h' = h
  BY Zenon DEF Held
<1> HIDE DEF h
<1>7. ASSUME msgs # <<>>, taken' = Append(taken, Head(msgs)), msgs' = Tail(msgs), UNCHANGED <<actor, stream>>
      PROVE  MsgBook'
  <2>1. h' = h /\ stream' = stream
    BY Zenon, <1>6, <1>7
  <2>2. Lined(Up, taken', msgs', h', <<>>)
    BY Zenon, <1>1, <1>3, <1>7, <2>1, LinedShift
  <2>3. Dense(taken', msgs', h', n)
    BY Zenon, <1>1, <1>2, <1>7, <2>1, DenseTake
  <2> QED BY Zenon, <1>2, <1>5, <1>7, <2>1, <2>2, <2>3 DEF MsgBook, h
<1>8. CASE ActorForward
  <2>1. /\ actor.at = "forward" /\ msgs' = Append(msgs, actor.item) /\ taken' = taken /\ stream' = stream
        /\ actor'.at \in {"select", "finish"}
    <3>1. actor'.at \in {"select", "finish"}
      BY Zenon, <1>8, GoesTo DEF ActorForward
    <3> QED BY Zenon, <1>8, <3>1 DEF ActorForward
  <2>2. h' = <<>> /\ Single(h, actor.item) /\ actor.item \in Msg
    BY Zenon, <1>1, <1>6, <2>1
  <2>3. h # <<>> /\ Head(h) = actor.item /\ Tail(h) = <<>>
    BY Zenon, <2>2 DEF Single
  <2>4. Lined(Up, taken, Append(msgs, Head(h)), Tail(h), <<>>)
    BY Zenon, <1>1, <1>3, <2>3, LinedShift
  <2>5. Lined(Up, taken', msgs', h', <<>>)
    BY Zenon, <2>1, <2>2, <2>3, <2>4
  <2>6. Dense(taken', msgs', h', n)
    BY Zenon, <1>1, <1>2, <2>1, <2>2, DensePut
  <2>7. n = stream.count
    BY Zenon, <1>2, <2>1
  <2> QED BY Zenon, <1>2, <2>1, <2>5, <2>6, <2>7 DEF MsgBook, h
<1>9. ASSUME NEW k \in {n, n + 1}, NEW x \in Msg, actor.at = "select", ActorGoes("forward", x),
             stream'.count = k, UNCHANGED <<taken, msgs>>,
             (x = CloseMsg /\ k = n) \/ (x = n + 1 /\ k = n + 1)
      PROVE  MsgBook'
  <2>1. h = <<>> /\ h' = <<x>>
    BY Zenon, <1>1, <1>6, <1>9 DEF ActorGoes
  <2>2. Single(h', x)
    BY Zenon, <2>1, <1>9, SingleAt
  <2>3. h' = Append(h, x)
    BY Zenon, <2>1, <2>2 DEF Single
  <2>4. \A s \in Seq(Msg) : (\A y \in Messages : Has(s, y) => y <= n) => After(Up, s, x)
    <3> SUFFICES ASSUME NEW s \in Seq(Msg), \A y \in Messages : Has(s, y) => y <= n, NEW i \in 1..Len(s)
                 PROVE  <<s[i], x>> \in Up
      BY Zenon DEF After
    <3>1. s[i] \in Msg /\ Has(s, s[i])
      <4>1. s[i] \in Msg
        OBVIOUS
      <4> QED BY Zenon, <4>1 DEF Has
    <3>2. s[i] \in Messages => s[i] <= n
      BY Zenon, <3>1
    <3>3. s[i] # CloseMsg /\ x # CloseMsg => s[i] < x
      <4>1. s[i] # CloseMsg => s[i] \in Messages
        BY Zenon, <3>1 DEF Msg
      <4>2. x # CloseMsg => x = n + 1
        BY Zenon, <1>9
      <4> QED BY <1>4, <3>2, <4>1, <4>2 DEF Messages
    <3> QED BY Zenon, <1>9, <3>1, <3>3, UpPairs
  <2>5. \A y \in Messages : (Has(taken, y) => y <= n) /\ (Has(msgs, y) => y <= n) /\ ~Has(<<>>, y)
    BY Zenon, <1>2, HasNothing DEF Dense
  <2>6. Lined(Up, taken, msgs, h', <<>>)
    BY ZenonT(60), <1>1, <1>3, <1>9, <2>1, <2>3, <2>4, <2>5, LinedAdd
  <2>7. Dense(taken, msgs, h', k)
    BY Zenon, <1>2, <1>4, <1>9, <2>1, <2>2, DenseRead
  <2>8. k \in 0..k
    BY <1>4
  <2> QED BY Zenon, <1>9, <2>6, <2>7, <2>8 DEF MsgBook, h
<1>10. CASE ActorMessage
  <2>1. /\ actor.at = "select" /\ UNCHANGED <<taken, msgs>> /\ ActorGoes("forward", stream.count + 1)
        /\ stream'.count = stream.count + 1
    BY Zenon, <1>10 DEF ActorMessage, Types, ActorTypes, recvVars
  <2>2. n = stream.count
    BY Zenon, <1>2, <2>1
  <2>3. n + 1 \in Msg
    BY Zenon, <2>1, <2>2 DEF Types, ActorTypes, ActorGoes
  <2> QED BY Zenon, <1>9, <2>1, <2>2, <2>3
<1>11. CASE ActorCloseFrame
  <2>1. /\ actor.at = "select" /\ UNCHANGED <<taken, msgs>> /\ ActorGoes("forward", CloseMsg)
        /\ stream'.count = stream.count
    BY Zenon, <1>11 DEF ActorCloseFrame, Types, ActorTypes, recvVars
  <2>2. n = stream.count
    BY Zenon, <1>2, <2>1
  <2> QED BY Zenon, <1>1, <1>9, <2>1, <2>2
<1>12. CASE ActorNoReceiver
  <2>1. /\ actor.at = "forward" /\ ~handle.rx_msg /\ actor'.at = "finish" /\ UNCHANGED <<handle, taken, msgs, stream>>
    BY Zenon, <1>12 DEF ActorNoReceiver, ReceiverAlive, ActorGoes, recvVars
  <2>2. h' = <<>> /\ Single(h, actor.item) /\ actor.item \in Msg
    BY Zenon, <1>1, <1>6, <2>1
  <2>3. h # <<>> /\ Tail(h) = <<>>
    BY Zenon, <2>2 DEF Single
  <2>4. Lined(Up, taken, msgs, Tail(h), <<>>)
    BY Zenon, <1>1, <1>3, <2>3, LinedDrop
  <2>5. PICK k \in 0..n : Dense(taken, msgs, <<>>, k)
    BY Zenon, <1>1, <1>2, <1>3, <1>4, <2>2, DenseLose
  <2>6. k \in 0..stream.count
    BY <1>2, <1>4
  <2> QED BY Zenon, <2>1, <2>2, <2>3, <2>4, <2>5, <2>6 DEF MsgBook, h
<1>13. ASSUME UNCHANGED <<taken, msgs>>, actor.at # "forward", actor'.at # "forward",
              stream'.count = stream.count \/ stream'.count = stream.count + 1,
              handle'.rx_msg \/ actor'.at \notin {"finish", "over", "drain"} => Full(n) /\ n = stream'.count
       PROVE  MsgBook'
  <2>1. h' = h
    BY Zenon, <1>1, <1>6, <1>13
  <2>2. n \in 0..stream'.count
    BY <1>2, <1>4, <1>13
  <2> QED BY Zenon, <1>2, <1>3, <1>13, <2>1, <2>2 DEF MsgBook, h
<1>14. CASE ActorCommand \/ ActorNoSenders \/ SinkDone \/ SinkFails \/ ActorStreamEnds
  <2>1. /\ UNCHANGED <<taken, msgs>> /\ actor.at \in {"select", "sink"} /\ stream'.count = stream.count
    BY Zenon, <1>14 DEF ActorCommand, ActorNoSenders, SinkDone, SinkFails, ActorStreamEnds, recvVars, Types, ActorTypes
  <2>2. actor'.at \in {"sink", "finish", "drain", "select"}
    BY Zenon, <1>14, GoesTo DEF ActorCommand, ActorNoSenders, SinkDone, SinkFails, ActorStreamEnds
  <2>3. n = stream.count
    BY Zenon, <1>2, <2>1
  <2> QED BY Zenon, <1>2, <1>13, <2>1, <2>2, <2>3
<1>15. CASE ActorDrain
  <2>1. /\ UNCHANGED <<handle, taken, msgs>> /\ actor.at = "drain" /\ actor'.at \in {"finish", "over", "drain"}
        /\ stream'.count = stream.count \/ stream'.count = stream.count + 1
    <3>1. actor.at = "drain" /\ (actor' = actor \/ ActorGoes("finish", Nothing))
      BY Zenon, <1>15 DEF ActorDrain
    <3>2. actor'.at \in {"finish", "over", "drain"}
      BY Zenon, <3>1, GoesTo
    <3> QED BY Zenon, <1>15, <3>1, <3>2 DEF ActorDrain, recvVars, Types, ActorTypes
  <2>2. ~handle.rx_msg
    BY Zenon, <2>1 DEF NotClosed
  <2> QED BY Zenon, <1>13, <2>1, <2>2
<1>16. CASE UNCHANGED <<taken, msgs, actor, stream>>
  BY Zenon, <1>2, <1>3, <1>5, <1>6, <1>16 DEF MsgBook, h
<1>17. ASSUME SendNext PROVE UNCHANGED <<taken, msgs, actor, stream>>
  BY Zenon, <1>17 DEF SendNext, SendFast, SendSlow, SendClosed, SendPoll, SlotGranted, SendCall, recvVars
<1>18. ASSUME NEW r \in Recvs, RecvFast(r) \/ RecvTake(r) PROVE MsgBook'
  BY Zenon, <1>7, <1>18 DEF RecvFast, RecvTake, RecvCall, RecvResult
<1>19. ASSUME NEW r \in Recvs, RecvDisconnected(r) \/ RecvSlow(r) \/ RecvPoll(r) \/ RecvEnds(r) \/ RecvSettle(r) \/ RecvCancel(r)
       PROVE  UNCHANGED <<taken, msgs, actor, stream>>
  BY Zenon, <1>19 DEF RecvDisconnected, RecvSlow, RecvPoll, RecvEnds, RecvSettle, RecvCancel, RecvCall, RecvResult
<1>20. CASE CloseDrain
  BY Zenon, <1>7, <1>20 DEF CloseDrain
<1>21. ASSUME CloseNext, ~CloseDrain PROVE UNCHANGED <<taken, msgs, actor, stream>>
  BY Zenon, <1>21 DEF CloseNext, CloseCall, CloseTake, CloseSend, CloseLock, CloseEnds, Drop, recvVars
<1>22. CASE UNCHANGED vars \/ CallReturns
  BY Zenon, <1>16, <1>22 DEF vars, CallReturns, recvVars
<1>23. CASE ActorEnds
  <2>1. actor.at = "finish" /\ ActorGoes("over", Nothing) /\ UNCHANGED <<handle, taken, msgs, stream>>
    BY Zenon, <1>23 DEF ActorEnds, recvVars
  <2>2. actor'.at \in {"over"}
    BY Zenon, <2>1, GoesTo
  <2> QED BY Zenon, <1>2, <1>13, <2>1, <2>2
<1> QED BY Zenon, <1>8, <1>10, <1>11, <1>12, <1>14, <1>15, <1>16, <1>17, <1>18, <1>19, <1>20, <1>21, <1>22, <1>23
        DEF Next, ActorNext, RecvNext

(* The messages in line are the property of the channel. *)
LEMMA MsgBookOrders == ASSUME Types, MsgBook PROVE MessagesInOrder
<1> DEFINE h == Held("forward")
           line == taken \o msgs \o h
<1>1. /\ taken \in Seq(Msg) /\ msgs \in Seq(Msg) /\ h \in Seq(Msg) /\ <<>> \in Seq(Msg)
      /\ stream.count \in 0..MaxMsgs
  BY Zenon, HeldMessage DEF Types, RecvTypes, ActorTypes
<1>2. PICK n \in 0..stream.count : Dense(taken, msgs, h, n) /\ (handle.rx_msg => n = stream.count)
  BY Zenon DEF MsgBook
<1>3. Lined(Up, taken, msgs, h, <<>>)
  BY Zenon DEF MsgBook
<1>4. line \in Seq(Msg) /\ Chain(Up, line)
  BY Zenon, <1>1, <1>3, LinedChain
<1>5. \A y : Has(line, y) <=> Has(taken, y) \/ Has(msgs, y) \/ Has(h, y)
  <2>1. \A y : Has(taken \o msgs, y) <=> Has(taken, y) \/ Has(msgs, y)
    BY Zenon, <1>1, HasConcat
  <2>2. taken \o msgs \in Seq(Msg)
    BY Zenon, <1>1, ConcatAt
  <2>3. \A y : Has((taken \o msgs) \o h, y) <=> Has(taken \o msgs, y) \/ Has(h, y)
    BY Zenon, <1>1, <2>2, HasConcat
  <2> QED BY Zenon, <2>1, <2>3
<1> HIDE DEF h, line
<1>6. DOMAIN line = 1..Len(line) /\ \A k \in 1..Len(line) : line[k] \in Msg
  BY <1>4
<1>7. \A j, k \in DOMAIN line : j < k /\ line[j] # CloseMsg /\ line[k] # CloseMsg => line[j] < line[k]
  BY Zenon, <1>4, <1>6, UpPairs DEF Chain
<1>8. \A y : y \in Range(line) <=> Has(line, y)
  BY Zenon, <1>6 DEF Range, Has
<1>9. \A y : y \in 1..n <=> y \in Messages /\ y <= n
  BY <1>1, <1>2, CapacityAssumption DEF Messages
<1>10. \A y : Has(line, y) /\ y # CloseMsg => y \in Messages
  BY Zenon, <1>6 DEF Has, Msg
<1>11. \A y \in Messages : y # CloseMsg
  BY DEF Messages, CloseMsg
<1>12. ASSUME NEW y PROVE y \in Range(line) \ {CloseMsg} <=> y \in 1..n
  <2>1. CASE y \in Messages
    <3>1. y <= n <=> Has(taken, y) \/ Has(msgs, y) \/ Has(h, y)
      BY Zenon, <1>2, <2>1 DEF Dense
    <3> QED BY Zenon, <1>5, <1>8, <1>9, <1>11, <2>1, <3>1
  <2>2. CASE y \notin Messages
    BY Zenon, <1>8, <1>9, <1>10, <2>2
  <2> QED BY Zenon, <2>1, <2>2
<1>13. Range(line) \ {CloseMsg} = 1..n
  BY Zenon, <1>12
<1> QED BY Zenon, <1>2, <1>7, <1>13 DEF MessagesInOrder, line, h

-----------------------------------------------------------------------------
(* Before close(): a recv() that spawned a task waits for its message in    *)
(* one place only, and each message that reached nobody is accounted for by *)
(* one cancelled recv() that is done with.                                  *)

Differ(S) == {p \in S \X S : p[1] # CloseCmd => p[1] # p[2]}
Waits(r) == due[r] = None /\ recvs[r] \in {Pending, Cancelled}

Queued ==
  /\ \A r \in tasks : Waits(r) /\ ~Has(lock, r)
  /\ \A r \in Recvs : Has(lock, r) => Waits(r)
  /\ Chain(Differ(Recvs \cup {CloseCmd}), lock)
  /\ \A r \in Recvs : due[r] # None => recvs[r] \in {Pending, Cancelled}

Reached == {m \in Messages : \E r \in Recvs : Got(m) = recvs[r] \/ Got(m) = due[r]}
Lost == {m \in Messages : Has(taken, m)} \ Reached
Finished == {r \in Recvs : recvs[r] = Cancelled /\ due[r] = None /\ r \notin tasks /\ ~Has(lock, r)}

RecvBook == handle.rx_msg => Queued /\ Cardinality(Lost) <= Cardinality(Finished)

(* The states of a recv() future are different values. *)
LEMMA StatesDiffer ==
  /\ None # Pending /\ None # Cancelled /\ Pending # Cancelled
  /\ Closed \notin {None, Pending, Cancelled} /\ TimedOut \notin {None, Pending, Cancelled}
  /\ \A m : Got(m) \notin {None, Pending, Cancelled, Closed, TimedOut}
  /\ \A m, k : Got(m) = Got(k) => m = k
BY DEF None, Pending, Cancelled, Closed, TimedOut, Got

(* Two different elements of a mutex queue or a slot queue. *)
LEMMA DifferPairs == \A S : \A x, y \in S : <<x, y>> \in Differ(S) <=> (x # CloseCmd => x # y)
BY DEF Differ

(* One entry of a table of futures changes. *)
LEMMA OneEntry ==
  ASSUME NEW X, NEW f \in [Recvs -> X], NEW r \in Recvs, NEW v, NEW g, g = [f EXCEPT ![r] = v]
  PROVE  g[r] = v /\ \A q \in Recvs : q # r => g[q] = f[q]
OBVIOUS

(* Fewer lost and more finished keep the balance; so does one more of each. *)
LEMMA Balance ==
  ASSUME NEW A, NEW B, NEW C, NEW D, IsFiniteSet(A), IsFiniteSet(D), Cardinality(A) <= Cardinality(C), C \subseteq D
  PROVE  /\ B \subseteq A => Cardinality(B) <= Cardinality(D)
         /\ \A x, y : B \subseteq A \cup {x} /\ y \in D /\ y \notin C => Cardinality(B) <= Cardinality(D)
<1>1. IsFiniteSet(C) /\ Cardinality(C) <= Cardinality(D)
  BY Zenon, FS_Subset
<1>2. Cardinality(A) \in Nat /\ Cardinality(C) \in Nat /\ Cardinality(D) \in Nat
  BY Zenon, <1>1, FS_CardinalityType
<1>3. ASSUME B \subseteq A PROVE Cardinality(B) <= Cardinality(D)
  <2>1. Cardinality(B) <= Cardinality(A) /\ Cardinality(B) \in Nat
    BY Zenon, <1>3, FS_Subset, FS_CardinalityType
  <2> QED BY <1>1, <1>2, <2>1
<1>4. ASSUME NEW x, NEW y, B \subseteq A \cup {x}, y \in D, y \notin C PROVE Cardinality(B) <= Cardinality(D)
  <2>1. /\ IsFiniteSet(A \cup {x})
        /\ Cardinality(A \cup {x}) = Cardinality(A) \/ Cardinality(A \cup {x}) = Cardinality(A) + 1
    BY FS_AddElement
  <2>2. IsFiniteSet(C \cup {y}) /\ Cardinality(C \cup {y}) = Cardinality(C) + 1
    BY <1>1, <1>4, FS_AddElement
  <2>3. C \cup {y} \subseteq D
    BY Zenon, <1>4
  <2>4. Cardinality(C \cup {y}) <= Cardinality(D)
    BY Zenon, <2>3, FS_Subset
  <2>5. Cardinality(B) <= Cardinality(A \cup {x}) /\ Cardinality(B) \in Nat
    BY Zenon, <1>4, <2>1, FS_Subset, FS_CardinalityType
  <2> QED BY <1>2, <2>1, <2>2, <2>4, <2>5
<1> QED BY Zenon, <1>3, <1>4

(* Messages and calls are finitely many. *)
LEMMA FiniteBooks == \A S : (S \subseteq Messages => IsFiniteSet(S)) /\ (S \subseteq Recvs => IsFiniteSet(S))
<1>1. MaxMsgs \in Int /\ MaxRecvs \in Int /\ 1 \in Int
  BY CapacityAssumption
<1>2. IsFiniteSet(Messages) /\ IsFiniteSet(Recvs)
  BY Zenon, <1>1, FS_Interval DEF Messages, Recvs
<1> QED BY Zenon, <1>2, FS_Subset

(* Every step of an open object keeps the book of its recv() calls. *)
LEMMA RecvBookStep == Types /\ NotClosed /\ RecvBook /\ [Next]_vars => RecvBook'
<1> SUFFICES ASSUME Types, NotClosed, RecvBook, [Next]_vars, handle'.rx_msg
             PROVE  Queued' /\ Cardinality(Lost') <= Cardinality(Finished')
  BY Zenon DEF RecvBook
<1> DEFINE Takers == Recvs \cup {CloseCmd}
<1>1. handle' = handle /\ handle.rx_msg /\ closing \in {"idle", "take", "panicked"} /\ ~Has(lock, CloseCmd)
  BY Zenon, OpenStays DEF NotClosed
<1>2. Queued /\ Cardinality(Lost) <= Cardinality(Finished)
  BY Zenon, <1>1 DEF RecvBook
<1>3. /\ msgs \in Seq(Msg) /\ taken \in Seq(Msg) /\ tasks \subseteq Recvs /\ lock \in Seq(Takers)
      /\ recvs \in [Recvs -> FutureStates] /\ due \in [Recvs -> FutureStates]
  BY Zenon DEF Types, RecvTypes
<1>4. IsFiniteSet(Lost) /\ IsFiniteSet(Finished')
  BY Zenon, FiniteBooks DEF Lost, Finished
<1>5. ASSUME Lost' \subseteq Lost, Finished \subseteq Finished' PROVE Cardinality(Lost') <= Cardinality(Finished')
  BY Zenon, <1>2, <1>4, <1>5, Balance
<1>6. /\ \A m \in Messages : m # CloseMsg /\ Result(m) = Got(m)
      /\ \A m \in Msg : Result(m) \notin {None, Pending, Cancelled}
  <2>1. \A m \in Messages : m # CloseMsg
    BY DEF Messages, CloseMsg
  <2> QED BY Zenon, <2>1, StatesDiffer DEF Result, Msg
<1>7. msgs # <<>> => /\ Head(msgs) \in Msg
                     /\ \A m : Has(Append(taken, Head(msgs)), m) <=> Has(taken, m) \/ m = Head(msgs)
  <2>1. msgs # <<>> => Head(msgs) \in Msg
    BY Zenon, <1>3, TailAt
  <2>2. ASSUME NEW x \in Msg PROVE \A m : Has(Append(taken, x), m) <=> Has(taken, m) \/ m = x
    BY Zenon, <1>3, HasAppend
  <2> QED BY Zenon, <2>1, <2>2
<1>8. ASSUME NEW r \in Recvs, NEW v, recvs[r] = None, recvs' = [recvs EXCEPT ![r] = v], v # None, v # Cancelled,
             UNCHANGED <<due, lock>>,
             tasks' = tasks \/ (tasks' = tasks \cup {r} /\ v = Pending),
             \A m \in Messages : Has(taken', m) => Has(taken, m) \/ v = Got(m)
      PROVE  Queued' /\ Cardinality(Lost') <= Cardinality(Finished')
  <2>1. r \notin tasks /\ ~Has(lock, r) /\ due[r] = None
    BY Zenon, <1>2, <1>8, StatesDiffer DEF Queued, Waits
  <2>2. recvs'[r] = v /\ \A q \in Recvs : q # r => recvs'[q] = recvs[q]
    BY Zenon, <1>3, <1>8, OneEntry
  <2>3. Queued'
    <3>1. \A q \in tasks' : Waits(q)' /\ ~Has(lock', q)
      <4>1. \A q \in tasks : Waits(q)' /\ ~Has(lock', q)
        BY Zenon, <1>2, <1>3, <1>8, <2>1, <2>2 DEF Queued, Waits
      <4>2. v = Pending => Waits(r)' /\ ~Has(lock', r)
        BY Zenon, <1>8, <2>1, <2>2 DEF Waits
      <4> QED BY Zenon, <1>8, <4>1, <4>2
    <3>2. \A q \in Recvs : Has(lock', q) => Waits(q)'
      BY Zenon, <1>2, <1>8, <2>1, <2>2 DEF Queued, Waits
    <3>3. \A q \in Recvs : due'[q] # None => recvs'[q] \in {Pending, Cancelled}
      BY Zenon, <1>2, <1>8, <2>1, <2>2 DEF Queued
    <3> QED BY Zenon, <1>2, <1>8, <3>1, <3>2, <3>3 DEF Queued
  <2>4. Lost' \subseteq Lost
    BY Zenon, <1>8, <2>2, StatesDiffer DEF Lost, Reached
  <2>5. Finished \subseteq Finished'
    BY Zenon, <1>8, <2>1, <2>2, StatesDiffer DEF Finished
  <2> QED BY Zenon, <1>5, <2>3, <2>4, <2>5
<1>9. ASSUME NEW r \in Recvs, RecvFast(r) \/ RecvDisconnected(r) \/ RecvSlow(r)
      PROVE  Queued' /\ Cardinality(Lost') <= Cardinality(Finished')
  <2>1. CASE RecvFast(r)
    <3>1. \A m \in Messages : Has(taken', m) => Has(taken, m) \/ Result(Head(msgs)) = Got(m)
      BY Zenon, <1>6, <1>7, <2>1 DEF RecvFast
    <3> QED BY Zenon, <1>6, <1>7, <1>8, <2>1, <3>1 DEF RecvFast, RecvCall
  <2>2. CASE RecvDisconnected(r)
    BY Zenon, <1>8, <2>2, StatesDiffer DEF RecvDisconnected, RecvCall
  <2>3. CASE RecvSlow(r)
    BY Zenon, <1>8, <2>3, StatesDiffer DEF RecvSlow, RecvCall
  <2> QED BY Zenon, <1>9, <2>1, <2>2, <2>3
<1>10. ASSUME NEW r \in Recvs, RecvPoll(r) PROVE Queued' /\ Cardinality(Lost') <= Cardinality(Finished')
  <2>1. r \in tasks /\ tasks' = tasks \ {r} /\ lock' = Append(lock, r) /\ UNCHANGED <<recvs, due, taken>>
    BY Zenon, <1>10 DEF RecvPoll
  <2>2. \A q : Has(lock', q) <=> Has(lock, q) \/ q = r
    <3>1. r \in Takers
      BY Zenon
    <3>2. \A q : Has(Append(lock, r), q) <=> Has(lock, q) \/ q = r
      BY ZenonT(60), <1>3, <3>1, HasAppend
    <3> QED BY Zenon, <2>1, <3>2
  <2>3. Chain(Differ(Takers), lock')
    <3>1. \A i \in 1..Len(lock) : lock[i] \in Takers /\ lock[i] # r
      <4>1. \A i \in 1..Len(lock) : lock[i] \in Takers
        BY <1>3
      <4> QED BY Zenon, <1>2, <2>1, <4>1 DEF Queued, Has
    <3>2. \A i \in 1..Len(lock) : <<lock[i], r>> \in Differ(Takers)
      BY Zenon, <3>1, DifferPairs
    <3> QED BY Zenon, <1>2, <1>3, <2>1, <3>2, ChainAppend DEF Queued
  <2>4. Queued'
    <3>1. \A q \in tasks' : Waits(q)' /\ ~Has(lock', q)
      BY Zenon, <1>2, <2>1, <2>2 DEF Queued, Waits
    <3>2. \A q \in Recvs : Has(lock', q) => Waits(q)'
      BY Zenon, <1>2, <2>1, <2>2 DEF Queued, Waits
    <3> QED BY Zenon, <1>2, <2>1, <2>3, <3>1, <3>2 DEF Queued
  <2>5. Lost' \subseteq Lost /\ Finished \subseteq Finished'
    BY Zenon, <2>1, <2>2 DEF Lost, Reached, Finished
  <2> QED BY Zenon, <1>5, <2>4, <2>5
<1>11. ASSUME NEW r \in Recvs, NEW v, RecvResult(r, v), v # None,
              \A m \in Messages : Has(taken', m) => Has(taken, m) \/ v = Got(m)
       PROVE  Queued' /\ Cardinality(Lost') <= Cardinality(Finished')
  <2>1. lock # <<>> /\ Head(lock) = r /\ lock' = Tail(lock) /\ due' = [due EXCEPT ![r] = v] /\ UNCHANGED <<recvs, tasks>>
    BY Zenon, <1>11 DEF RecvResult
  <2>2. due'[r] = v /\ \A q \in Recvs : q # r => due'[q] = due[q]
    BY Zenon, <1>3, <2>1, OneEntry
  <2>3. \A q : Has(lock, q) <=> Has(lock', q) \/ q = r
    BY Zenon, <1>3, <2>1, HasTail
  <2>4. Chain(Differ(Takers), lock') /\ ~Has(lock', r)
    <3>1. /\ Chain(Differ(Takers), lock')
          /\ \A j \in 1..Len(lock') : <<r, lock'[j]>> \in Differ(Takers)
      BY Zenon, <1>2, <1>3, <2>1, ChainTail DEF Queued
    <3>2. lock' \in Seq(Takers)
      BY Zenon, <1>3, <2>1, TailAt
    <3>3. \A j \in 1..Len(lock') : lock'[j] \in Takers
      BY <3>2
    <3>4. r # CloseCmd /\ r \in Takers
      BY DEF Recvs, CloseCmd
    <3> QED BY Zenon, <3>1, <3>3, <3>4, DifferPairs DEF Has
  <2>5. r \notin tasks /\ Waits(r)
    BY Zenon, <1>2, <2>3 DEF Queued
  <2>6. Queued'
    <3>1. \A q \in tasks' : Waits(q)' /\ ~Has(lock', q)
      BY Zenon, <1>2, <1>3, <2>1, <2>2, <2>3, <2>5 DEF Queued, Waits
    <3>2. \A q \in Recvs : Has(lock', q) => Waits(q)'
      BY Zenon, <1>2, <2>1, <2>2, <2>3, <2>4 DEF Queued, Waits
    <3>3. \A q \in Recvs : due'[q] # None => recvs'[q] \in {Pending, Cancelled}
      BY Zenon, <1>2, <2>1, <2>2, <2>5 DEF Queued, Waits
    <3> QED BY Zenon, <2>4, <3>1, <3>2, <3>3 DEF Queued
  <2>7. Lost' \subseteq Lost
    BY Zenon, <1>11, <2>1, <2>2, <2>5, StatesDiffer DEF Lost, Reached, Waits
  <2>8. Finished \subseteq Finished'
    BY Zenon, <2>1, <2>2, <2>3 DEF Finished
  <2> QED BY Zenon, <1>5, <2>6, <2>7, <2>8
<1>12. ASSUME NEW r \in Recvs, RecvTake(r) \/ RecvEnds(r)
       PROVE  Queued' /\ Cardinality(Lost') <= Cardinality(Finished')
  <2>1. CASE RecvTake(r)
    <3>1. \A m \in Messages : Has(taken', m) => Has(taken, m) \/ Result(Head(msgs)) = Got(m)
      BY Zenon, <1>6, <1>7, <2>1 DEF RecvTake
    <3> QED BY Zenon, <1>6, <1>7, <1>11, <2>1, <3>1 DEF RecvTake
  <2>2. CASE RecvEnds(r)
    BY Zenon, <1>11, <2>2, StatesDiffer DEF RecvEnds
  <2> QED BY Zenon, <1>12, <2>1, <2>2
<1>13. ASSUME NEW r \in Recvs, RecvSettle(r) PROVE Queued' /\ Cardinality(Lost') <= Cardinality(Finished')
  <2>1. /\ due[r] # None /\ due' = [due EXCEPT ![r] = None] /\ UNCHANGED <<tasks, lock, taken>>
        /\ recvs' = IF recvs[r] = Pending THEN [recvs EXCEPT ![r] = due[r]] ELSE recvs
    BY Zenon, <1>13 DEF RecvSettle
  <2>2. due'[r] = None /\ \A q \in Recvs : q # r => due'[q] = due[q]
    BY Zenon, <1>3, <2>1, OneEntry
  <2>3. r \notin tasks /\ ~Has(lock, r) /\ recvs[r] \in {Pending, Cancelled}
    BY Zenon, <1>2, <2>1 DEF Queued, Waits
  <2>4. /\ \A q \in Recvs : q # r => recvs'[q] = recvs[q]
        /\ recvs[r] = Pending => recvs'[r] = due[r]
        /\ recvs[r] = Cancelled => recvs'[r] = Cancelled
    <3>1. CASE recvs[r] = Pending
      <4>1. recvs' = [recvs EXCEPT ![r] = due[r]]
        BY Zenon, <2>1, <3>1
      <4>2. recvs'[r] = due[r] /\ \A q \in Recvs : q # r => recvs'[q] = recvs[q]
        BY Zenon, <1>3, <4>1, OneEntry
      <4> QED BY Zenon, <3>1, <4>2, StatesDiffer
    <3>2. CASE recvs[r] # Pending
      BY Zenon, <2>1, <3>2
    <3> QED BY Zenon, <3>1, <3>2
  <2>5. Queued'
    <3>1. \A q \in tasks' : Waits(q)' /\ ~Has(lock', q)
      BY Zenon, <1>2, <1>3, <2>1, <2>2, <2>3, <2>4 DEF Queued, Waits
    <3>2. \A q \in Recvs : Has(lock', q) => Waits(q)'
      BY Zenon, <1>2, <2>1, <2>2, <2>3, <2>4 DEF Queued, Waits
    <3>3. \A q \in Recvs : due'[q] # None => recvs'[q] \in {Pending, Cancelled}
      BY Zenon, <1>2, <2>2, <2>4 DEF Queued
    <3> QED BY Zenon, <1>2, <2>1, <3>1, <3>2, <3>3 DEF Queued
  <2>6. Finished \subseteq Finished'
    BY Zenon, <2>1, <2>2, <2>4 DEF Finished
  <2>7. CASE recvs[r] = Pending
    <3>1. Lost' \subseteq Lost
      BY Zenon, <2>1, <2>2, <2>4, <2>7, StatesDiffer DEF Lost, Reached
    <3> QED BY Zenon, <1>5, <2>5, <2>6, <3>1
  <2>8. CASE recvs[r] = Cancelled
    <3>1. r \in Finished' /\ r \notin Finished
      BY Zenon, <2>1, <2>2, <2>3, <2>4, <2>8 DEF Finished
    <3>2. \A m \in Lost' : m \in Lost \/ Got(m) = due[r]
      BY Zenon, <2>1, <2>2, <2>4, <2>8, StatesDiffer DEF Lost, Reached
    <3>3. \E x : Lost' \subseteq Lost \cup {x}
      <4>1. CASE \E m : Got(m) = due[r]
        BY Zenon, <3>2, <4>1, StatesDiffer
      <4>2. CASE ~\E m : Got(m) = due[r]
        BY Zenon, <3>2, <4>2
      <4> QED BY Zenon, <4>1, <4>2
    <3> QED BY Zenon, <1>2, <1>4, <2>5, <2>6, <3>1, <3>3, Balance
  <2> QED BY Zenon, <2>3, <2>7, <2>8
<1>14. ASSUME NEW r \in Recvs, RecvCancel(r) PROVE Queued' /\ Cardinality(Lost') <= Cardinality(Finished')
  <2>1. recvs[r] = Pending /\ recvs' = [recvs EXCEPT ![r] = Cancelled] /\ UNCHANGED <<tasks, lock, due, taken>>
    BY Zenon, <1>14 DEF RecvCancel
  <2>2. recvs'[r] = Cancelled /\ \A q \in Recvs : q # r => recvs'[q] = recvs[q]
    BY Zenon, <1>3, <2>1, OneEntry
  <2>3. \A q \in Recvs : recvs[q] \in {Pending, Cancelled} => recvs'[q] \in {Pending, Cancelled}
    BY Zenon, <2>2
  <2>4. Queued'
    BY Zenon, <1>2, <1>3, <2>1, <2>3 DEF Queued, Waits
  <2>5. Lost' \subseteq Lost
    BY Zenon, <2>1, <2>2, StatesDiffer DEF Lost, Reached
  <2>6. Finished \subseteq Finished'
    BY Zenon, <2>1, <2>2, StatesDiffer DEF Finished
  <2> QED BY Zenon, <1>5, <2>4, <2>5, <2>6
<1>15. CASE UNCHANGED <<tasks, lock, recvs, due, taken>>
  <2>1. Queued'
    BY Zenon, <1>2, <1>15 DEF Queued, Waits
  <2>2. Lost' \subseteq Lost /\ Finished \subseteq Finished'
    BY Zenon, <1>15 DEF Lost, Reached, Finished
  <2> QED BY Zenon, <1>5, <2>1, <2>2
<1>16. ASSUME SendNext PROVE UNCHANGED <<tasks, lock, recvs, due, taken>>
  BY Zenon, <1>16 DEF SendNext, SendFast, SendSlow, SendClosed, SendPoll, SlotGranted, SendCall, recvVars
<1>17. ASSUME ActorNext PROVE UNCHANGED <<tasks, lock, recvs, due, taken>>
  BY Zenon, <1>17 DEF ActorNext, ActorCommand, ActorNoSenders, SinkDone, SinkFails, ActorMessage,
     ActorCloseFrame, ActorStreamEnds, ActorForward, ActorNoReceiver, ActorDrain, ActorEnds, recvVars
<1>18. ASSUME CloseNext PROVE UNCHANGED <<tasks, lock, recvs, due, taken>>
  BY Zenon, <1>1, <1>18 DEF CloseNext, CloseCall, CloseTake, CloseSend, CloseLock, CloseDrain, CloseEnds, Drop, recvVars
<1>19. CASE UNCHANGED vars \/ CallReturns
  BY Zenon, <1>15, <1>19 DEF vars, CallReturns, recvVars
<1> QED BY Zenon, <1>9, <1>10, <1>12, <1>13, <1>14, <1>15, <1>16, <1>17, <1>18, <1>19 DEF Next, RecvNext

(* The book of the recv() calls is the property of the object. *)
LEMMA RecvBookBounds == ASSUME Types, RecvBook PROVE OnlyCancellationLoses
<1> DEFINE cancelled == {r \in Recvs : recvs[r] = Cancelled}
           reached == {m \in Messages : \E r \in Recvs : Got(m) \in {recvs[r], due[r]}}
           lost == {m \in Messages : \E k \in DOMAIN taken : taken[k] = m} \ reached
<1>1. DOMAIN taken = 1..Len(taken)
  <2>1. taken \in Seq(Msg)
    BY Zenon DEF Types, RecvTypes
  <2> QED BY <2>1
<1>2. lost \subseteq Lost
  BY Zenon, <1>1 DEF Lost, Reached, Has
<1>3. Finished \subseteq cancelled
  BY Zenon DEF Finished
<1>4. IsFiniteSet(Lost) /\ IsFiniteSet(cancelled)
  BY Zenon, FiniteBooks DEF Lost
<1>5. Cardinality(Lost) <= Cardinality(Finished) => Cardinality(lost) <= Cardinality(cancelled)
  BY Zenon, <1>2, <1>3, <1>4, Balance
<1> QED BY Zenon, <1>5 DEF RecvBook, OnlyCancellationLoses

-----------------------------------------------------------------------------
(* The way of a command: a task's place in the queue for slots, the         *)
(* channel, the actor's hands, the wire.  Whatever is in line behind a send *)
(* had not completed when that send was called.                             *)

Free(st) == {p \in Cmd \X Cmd : p[1] # CloseCmd => p[2] \notin st[p[1]]}
Known(st) == {x \in Cmd : x <= Len(st)}

SendCalls ==
  /\ \A i \in Sends : sends[i] # "none" => i <= Len(sent)
  /\ \A i \in 1..Len(sent) : \A j \in Sends : j \in sent[i] => sends[j] = "done"
SlotQueue ==
  /\ \A i \in Sends : i \in spawned => sends[i] = "pending" /\ ~Has(slots, i)
  /\ \A i \in Sends : Has(slots, i) => sends[i] = "pending"
  /\ Chain(Differ(Cmd), slots)
AllKnown(E, a, b, c, d) == Among(E, a) /\ Among(E, b) /\ Among(E, c) /\ Among(E, d)
SendBook ==
  /\ SendCalls /\ SlotQueue
  /\ AllKnown(Known(sent), wire, Held("sink"), cmds, slots)
  /\ Lined(Free(sent), wire, Held("sink"), cmds, slots)

(* Which command may stand behind which. *)
LEMMA FreePairs == \A st : \A x, y \in Cmd : <<x, y>> \in Free(st) <=> (x # CloseCmd => y \notin st[x])
BY DEF Free

(* The items of a sequence with one more, or one less. *)
LEMMA AmongMoves ==
  ASSUME NEW S, NEW E, NEW s \in Seq(S), Among(E, s)
  PROVE  /\ \A x \in S : x \in E => Among(E, Append(s, x))
         /\ s # <<>> => Among(E, Tail(s)) /\ Head(s) \in E
         /\ \A F : E \subseteq F => Among(F, s)
<1>1. ASSUME NEW x \in S, x \in E PROVE Among(E, Append(s, x))
  <2>1. \A k \in 1..Len(Append(s, x)) :
          (k \in 1..Len(s) /\ Append(s, x)[k] = s[k]) \/ (k = Len(s) + 1 /\ Append(s, x)[k] = x)
    BY Zenon, AppendAt
  <2> QED BY Zenon, <1>1, <2>1 DEF Among
<1>2. ASSUME s # <<>> PROVE Among(E, Tail(s)) /\ Head(s) \in E
  <2>1. /\ 1 \in 1..Len(s) /\ Head(s) = s[1]
        /\ \A i \in 1..Len(Tail(s)) : i + 1 \in 1..Len(s) /\ Tail(s)[i] = s[i + 1]
    BY Zenon, <1>2, TailAt
  <2> QED BY Zenon, <2>1 DEF Among
<1>3. \A F : E \subseteq F => Among(F, s)
  BY Zenon DEF Among
<1> QED BY Zenon, <1>1, <1>2, <1>3

(* What the actor holds for the sink. *)
LEMMA HeldCommand ==
  ASSUME Types
  PROVE  /\ Held("sink") \in Seq(Cmd) /\ <<>> \in Seq(Cmd)
         /\ actor.at = "sink" => Single(Held("sink"), actor.item) /\ actor.item \in Cmd
         /\ actor.at # "sink" => Held("sink") = <<>>
<1>1. CASE actor.at = "sink"
  <2>1. Held("sink") = <<actor.item>> /\ actor.item \in Cmd
    BY Zenon, <1>1 DEF Held, Types, ActorTypes
  <2>2. <<actor.item>> \in Seq(Cmd) /\ <<>> \in Seq(Cmd) /\ Single(<<actor.item>>, actor.item)
    BY Zenon, <2>1, SingleAt
  <2> QED BY Zenon, <1>1, <2>1, <2>2
<1>2. CASE actor.at # "sink"
  <2>1. <<>> \in Seq(Cmd)
    OBVIOUS
  <2> QED BY Zenon, <1>2, <2>1 DEF Held
<1> QED BY Zenon, <1>1, <1>2

(* A send that has not completed may stand behind every call so far. *)
LEMMA NewcomerLast ==
  ASSUME NEW E, NEW st, NEW x \in Cmd, E \subseteq Cmd, NEW s, Among(E, s),
         \A y \in E : y # CloseCmd => x \notin st[y]
  PROVE  After(Free(st), s, x)
BY Zenon, FreePairs DEF After, Among

(* The step of a call to send(): the ones before it stay in line, and so    *)
(* does the new command when it is queued at once.                          *)
LEMMA SendCallStep ==
  ASSUME Types, SendBook, NEW i \in Sends, SendFast(i) \/ SendSlow(i) \/ SendClosed(i)
  PROVE  SendBook'
<1> DEFINE h == Held("sink")
           Status == {"none", "pending", "done", "failed"}
<1>1. /\ wire \in Seq(Cmd) /\ h \in Seq(Cmd) /\ cmds \in Seq(Cmd) /\ slots \in Seq(Cmd)
      /\ sends \in [Sends -> Status] /\ sent \in Seq(SUBSET Sends) /\ i \in Cmd
  BY Zenon, HeldCommand DEF Types, SendTypes, Cmd
<1>2. PICK status \in {"pending", "done", "failed"} : SendCall(i, status)
  BY Zenon DEF SendFast, SendSlow, SendClosed
<1>3. /\ i = Len(sent) + 1 /\ sends' = [sends EXCEPT ![i] = status]
      /\ sent' = Append(sent, {j \in Sends : sends[j] = "done"}) /\ wire' = wire /\ h' = h
  BY Zenon, <1>2 DEF SendCall, Held
<1> HIDE DEF h
<1>4. sends'[i] = status /\ \A j \in Sends : j # i => sends'[j] = sends[j]
  BY <1>1, <1>3
<1>5. /\ Len(sent) \in Nat /\ Len(sent') = i /\ ~(i <= Len(sent))
      /\ \A k \in 1..Len(sent) : sent'[k] = sent[k]
      /\ sent'[i] = {j \in Sends : sends[j] = "done"}
      /\ \A k \in 1..i : k \in 1..Len(sent) \/ k = i
      /\ \A j \in Sends : j <= Len(sent) => j <= i
      /\ i <= i
  <2>1. {j \in Sends : sends[j] = "done"} \in SUBSET Sends
    BY Zenon
  <2>2. PICK D \in SUBSET Sends : D = {j \in Sends : sends[j] = "done"}
    BY Zenon, <2>1
  <2> QED BY <1>1, <1>3, <2>2 DEF Sends
<1>6. sends[i] = "none" /\ SendCalls /\ SlotQueue
  BY Zenon, <1>5 DEF SendBook, SendCalls
<1>7. SendCalls'
  <2>1. \A j \in Sends : sends'[j] # "none" => j <= Len(sent')
    BY Zenon, <1>4, <1>5, <1>6 DEF SendCalls
  <2>2. \A j \in Sends : sends[j] = "done" => sends'[j] = "done"
    BY Zenon, <1>4, <1>6
  <2>3. \A k \in 1..Len(sent) : \A j \in Sends : j \in sent'[k] => sends'[j] = "done"
    BY Zenon, <1>5, <1>6, <2>2 DEF SendCalls
  <2>4. \A j \in Sends : j \in sent'[i] => sends'[j] = "done"
    BY Zenon, <1>5, <2>2
  <2> QED BY Zenon, <1>5, <2>1, <2>3, <2>4 DEF SendCalls
<1>8. ~Has(slots, i) /\ i \notin spawned
  BY Zenon, <1>6 DEF SlotQueue
<1>9. slots' = slots /\ (spawned' = spawned \/ (spawned' = spawned \cup {i} /\ status = "pending"))
  <2>1. CASE SendSlow(i)
    <3>1. sends' = [sends EXCEPT ![i] = "pending"] /\ slots' = slots /\ spawned' = spawned \cup {i}
      BY Zenon, <2>1 DEF SendSlow, SendCall
    <3>2. sends'[i] = "pending"
      BY <1>1, <3>1
    <3> QED BY Zenon, <1>4, <3>1, <3>2
  <2> QED BY Zenon, <2>1 DEF SendFast, SendClosed
<1>10. SlotQueue'
  <2>1. \A j \in Sends : j \in spawned' => sends'[j] = "pending" /\ ~Has(slots', j)
    BY Zenon, <1>4, <1>6, <1>8, <1>9 DEF SlotQueue
  <2>2. \A j \in Sends : Has(slots', j) => sends'[j] = "pending"
    BY Zenon, <1>4, <1>6, <1>8, <1>9 DEF SlotQueue
  <2> QED BY Zenon, <1>6, <1>9, <2>1, <2>2 DEF SlotQueue
<1>11. /\ Known(sent) \subseteq Known(sent') /\ Known(sent) \subseteq Cmd /\ i \in Known(sent')
       /\ \A x \in Known(sent) : x # CloseCmd => x \in 1..Len(sent) /\ sent'[x] = sent[x]
  <2>1. \A x \in Cmd : x <= Len(sent) => x <= Len(sent') /\ (x # CloseCmd => x \in 1..Len(sent))
    BY <1>5 DEF Cmd, Sends, CloseCmd
  <2> QED BY Zenon, <1>1, <1>5, <2>1 DEF Known
<1>12. AllKnown(Known(sent), wire, h, cmds, slots) /\ Lined(Free(sent), wire, h, cmds, slots)
  BY Zenon DEF SendBook, h
<1>13. AllKnown(Known(sent'), wire, h, cmds, slots)
  BY Zenon, <1>1, <1>11, <1>12, AmongMoves DEF AllKnown
<1>14. Lined(Free(sent'), wire, h, cmds, slots)
  <2>1. \A x, y \in Known(sent) : <<x, y>> \in Free(sent) => <<x, y>> \in Free(sent')
    BY Zenon, <1>11, FreePairs
  <2> QED BY Zenon, <1>12, <2>1, LinedMore DEF AllKnown
<1>15. CASE cmds' = cmds
  BY Zenon, <1>3, <1>7, <1>9, <1>10, <1>13, <1>14, <1>15 DEF SendBook, h
<1>16. CASE SendFast(i)
  <2>1. slots = <<>> /\ cmds' = Append(cmds, i)
    BY Zenon, <1>16 DEF SendFast
  <2>2. \A y \in Known(sent) : y # CloseCmd => i \notin sent'[y]
    <3>1. "none" # "done"
      OBVIOUS
    <3> QED BY Zenon, <1>6, <1>11, <3>1 DEF SendCalls
  <2>3. /\ After(Free(sent'), wire, i) /\ After(Free(sent'), h, i)
        /\ After(Free(sent'), cmds, i) /\ After(Free(sent'), slots, i)
    BY Zenon, <1>1, <1>11, <1>12, <2>2, NewcomerLast DEF AllKnown
  <2>4. Lined(Free(sent'), wire, h, Append(cmds, i), slots)
    BY Zenon, <1>1, <1>14, <2>1, <2>3, LinedAdd
  <2>5. AllKnown(Known(sent'), wire, h, Append(cmds, i), slots)
    BY Zenon, <1>1, <1>11, <1>13, AmongMoves DEF AllKnown
  <2> QED BY Zenon, <1>3, <1>7, <1>9, <1>10, <2>1, <2>4, <2>5 DEF SendBook, h
<1> QED BY Zenon, <1>15, <1>16 DEF SendSlow, SendClosed

(* A waiting task gets its slot, or learns that the channel is closed. *)
LEMMA SlotGrantedStep == ASSUME Types, SendBook, SlotGranted PROVE SendBook'
<1> DEFINE h == Held("sink")
           x == Head(slots)
<1>1. /\ wire \in Seq(Cmd) /\ h \in Seq(Cmd) /\ cmds \in Seq(Cmd) /\ slots \in Seq(Cmd) /\ slots # <<>>
      /\ sends \in [Sends -> {"none", "pending", "done", "failed"}]
  BY Zenon, HeldCommand DEF Types, SendTypes, SlotGranted
<1>2. /\ x \in Cmd /\ \A j \in Sends : j \in Cmd /\ j # CloseCmd
      /\ Tail(slots) \in Seq(Cmd) /\ \A j \in 1..Len(Tail(slots)) : Tail(slots)[j] \in Cmd
  <2>1. x \in Cmd /\ Tail(slots) \in Seq(Cmd)
    BY Zenon, <1>1, TailAt
  <2>2. \A j \in 1..Len(Tail(slots)) : Tail(slots)[j] \in Cmd
    BY <2>1
  <2>3. \A j \in Sends : j \in Cmd /\ j # CloseCmd
    BY DEF Sends, Cmd, CloseCmd
  <2> QED BY Zenon, <2>1, <2>2, <2>3
<1>3. /\ slots' = Tail(slots) /\ (cmds' = cmds \/ cmds' = Append(cmds, x))
      /\ UNCHANGED <<spawned, sent, wire>> /\ h' = h
  BY Zenon DEF SlotGranted, Held
<1>4. \A j \in Sends : j # x => sends'[j] = sends[j]
  <2>1. CASE x = CloseCmd
    BY Zenon, <2>1 DEF SlotGranted
  <2>2. CASE x # CloseCmd
    <3>1. PICK v \in {"failed", "done"} : sends' = [sends EXCEPT ![x] = v]
      BY Zenon, <2>2 DEF SlotGranted
    <3> QED BY <1>1, <3>1
  <2> QED BY Zenon, <2>1, <2>2
<1>5. /\ SendCalls /\ SlotQueue
      /\ AllKnown(Known(sent), wire, h, cmds, slots) /\ Lined(Free(sent), wire, h, cmds, slots)
  BY Zenon DEF SendBook
<1>6. \A y : Has(slots, y) <=> Has(slots', y) \/ y = x
  BY Zenon, <1>1, <1>3, HasTail
<1>7. /\ Chain(Differ(Cmd), slots')
      /\ x # CloseCmd => ~Has(slots', x)
  <2>1. /\ Chain(Differ(Cmd), Tail(slots))
        /\ \A j \in 1..Len(Tail(slots)) : <<x, Tail(slots)[j]>> \in Differ(Cmd)
    BY Zenon, <1>1, <1>5, ChainTail DEF SlotQueue
  <2> QED BY Zenon, <1>2, <1>3, <2>1, DifferPairs DEF Has
<1>8. x \in Sends => sends[x] = "pending" /\ x \notin spawned
  BY Zenon, <1>5, <1>6 DEF SlotQueue
<1> HIDE DEF h, x
<1>9. SendCalls'
  <2>1. "pending" # "done" /\ "pending" # "none"
    OBVIOUS
  <2>2. \A j \in Sends : (sends[j] = "done" => sends'[j] = "done") /\ (sends'[j] # "none" => sends[j] # "none")
    BY Zenon, <1>4, <1>8, <2>1
  <2> QED BY Zenon, <1>3, <1>5, <2>2 DEF SendCalls
<1>10. SlotQueue'
  <2>1. \A j \in Sends : j \in spawned' => sends'[j] = "pending" /\ ~Has(slots', j)
    BY Zenon, <1>3, <1>4, <1>5, <1>6, <1>8 DEF SlotQueue
  <2>2. \A j \in Sends : Has(slots', j) => sends'[j] = "pending"
    BY Zenon, <1>2, <1>4, <1>5, <1>6, <1>7 DEF SlotQueue
  <2> QED BY Zenon, <1>7, <2>1, <2>2 DEF SlotQueue
<1>11. /\ Among(Known(sent), Tail(slots)) /\ Among(Known(sent), Append(cmds, x))
  <2>1. Among(Known(sent), Tail(slots)) /\ x \in Known(sent)
    BY Zenon, <1>1, <1>5, AmongMoves DEF AllKnown, x
  <2> QED BY Zenon, <1>1, <1>2, <1>5, <2>1, AmongMoves DEF AllKnown
<1>12. /\ Lined(Free(sent), wire, h, cmds, Tail(slots))
       /\ Lined(Free(sent), wire, h, Append(cmds, x), Tail(slots))
  BY Zenon, <1>1, <1>5, LinedDrop, LinedShift DEF x
<1>13. AllKnown(Known(sent), wire, h, cmds', slots') /\ Lined(Free(sent), wire, h, cmds', slots')
  BY Zenon, <1>3, <1>5, <1>11, <1>12 DEF AllKnown
<1> QED BY Zenon, <1>3, <1>9, <1>10, <1>13 DEF SendBook, h

(* Steps that leave the calls and the queue for slots alone, and move the   *)
(* commands in line. *)
LEMMA CommandMoves ==
  ASSUME SendBook, UNCHANGED <<spawned, slots, sends, sent>>,
         AllKnown(Known(sent), wire', Held("sink")', cmds', slots),
         Lined(Free(sent), wire', Held("sink")', cmds', slots)
  PROVE  SendBook'
BY Zenon DEF SendBook, SendCalls, SlotQueue

(* Every step keeps the commands in line. *)
LEMMA SendBookStep == Types /\ SendBook /\ [Next]_vars => SendBook'
<1> SUFFICES ASSUME Types, SendBook, [Next]_vars PROVE SendBook'
  OBVIOUS
<1> DEFINE h == Held("sink")
<1>1. /\ wire \in Seq(Cmd) /\ h \in Seq(Cmd) /\ cmds \in Seq(Cmd) /\ slots \in Seq(Cmd) /\ <<>> \in Seq(Cmd)
      /\ sent \in Seq(SUBSET Sends) /\ spawned \subseteq Sends
      /\ actor.at = "sink" => Single(h, actor.item) /\ actor.item \in Cmd
      /\ actor.at # "sink" => h = <<>>
  BY Zenon, HeldCommand DEF Types, SendTypes
<1>2. /\ SendCalls /\ SlotQueue
      /\ AllKnown(Known(sent), wire, h, cmds, slots) /\ Lined(Free(sent), wire, h, cmds, slots)
  BY Zenon DEF SendBook
<1>3. /\ actor'.at = "sink" => h' = <<actor'.item>>
      /\ actor'.at # "sink" => h' = <<>>
      /\ actor' = actor => h' = h
  BY Zenon DEF Held
<1>4. /\ Known(sent) \subseteq Cmd /\ CloseCmd \in Known(sent) /\ CloseCmd \in Cmd
      /\ \A y \in Known(sent) : y # CloseCmd => y \in 1..Len(sent) /\ CloseCmd \notin sent[y]
  <2>1. CloseCmd <= Len(sent) /\ \A y \in Cmd : y # CloseCmd /\ y <= Len(sent) => y \in 1..Len(sent)
    BY <1>1 DEF Cmd, Sends, CloseCmd
  <2>2. \A y \in 1..Len(sent) : CloseCmd \notin sent[y]
    BY <1>1 DEF Sends, CloseCmd
  <2> QED BY Zenon, <2>1, <2>2 DEF Known, Cmd
<1> HIDE DEF h
<1>5. ASSUME NEW x \in Known(sent), \A y \in Known(sent) : y # CloseCmd => x \notin sent[y]
      PROVE  /\ AllKnown(Known(sent), wire, h, cmds, Append(slots, x))
             /\ Lined(Free(sent), wire, h, cmds, Append(slots, x))
             /\ slots = <<>> => /\ AllKnown(Known(sent), wire, h, Append(cmds, x), slots)
                                /\ Lined(Free(sent), wire, h, Append(cmds, x), slots)
  <2>1. x \in Cmd
    BY Zenon, <1>4
  <2>2. /\ After(Free(sent), wire, x) /\ After(Free(sent), h, x)
        /\ After(Free(sent), cmds, x) /\ After(Free(sent), slots, x)
    BY Zenon, <1>2, <1>4, <1>5, <2>1, NewcomerLast DEF AllKnown
  <2>3. Among(Known(sent), Append(slots, x)) /\ Among(Known(sent), Append(cmds, x))
    BY Zenon, <1>1, <1>2, <2>1, AmongMoves DEF AllKnown
  <2>4. /\ Lined(Free(sent), wire, h, cmds, Append(slots, x))
        /\ slots = <<>> => Lined(Free(sent), wire, h, Append(cmds, x), slots)
    BY Zenon, <1>1, <1>2, <2>1, <2>2, LinedAdd
  <2> QED BY Zenon, <1>2, <2>3, <2>4 DEF AllKnown
<1>6. ASSUME NEW i \in Sends, SendPoll(i) PROVE SendBook'
  <2>1. /\ i \in spawned /\ spawned' = spawned \ {i} /\ slots' = Append(slots, i)
        /\ UNCHANGED <<cmds, sends, sent, wire, actor>>
    BY Zenon, <1>6 DEF SendPoll
  <2>2. sends[i] = "pending" /\ ~Has(slots, i)
    BY Zenon, <1>2, <2>1 DEF SlotQueue
  <2>3. i \in Known(sent) /\ \A y \in Known(sent) : y # CloseCmd => i \notin sent[y]
    <3>1. "pending" # "none" /\ "pending" # "done"
      OBVIOUS
    <3> QED BY Zenon, <1>2, <1>4, <2>2, <3>1 DEF SendCalls, Known, Cmd
  <2>4. \A y : Has(Append(slots, i), y) <=> Has(slots, y) \/ y = i
    BY Zenon, <1>1, <1>4, <2>3, HasAppend
  <2>5. Chain(Differ(Cmd), Append(slots, i))
    <3>1. \A k \in 1..Len(slots) : slots[k] \in Cmd
      BY <1>1
    <3>2. \A k \in 1..Len(slots) : <<slots[k], i>> \in Differ(Cmd)
      BY Zenon, <1>4, <2>2, <2>3, <3>1, DifferPairs DEF Has
    <3> QED BY Zenon, <1>1, <1>2, <1>4, <2>3, <3>2, ChainAppend DEF SlotQueue
  <2>6. SlotQueue'
    <3>1. \A j \in Sends : j \in spawned' => sends'[j] = "pending" /\ ~Has(slots', j)
      BY Zenon, <1>2, <2>1, <2>4 DEF SlotQueue
    <3>2. \A j \in Sends : Has(slots', j) => sends'[j] = "pending"
      BY Zenon, <1>2, <2>1, <2>2, <2>4 DEF SlotQueue
    <3> QED BY Zenon, <2>1, <2>5, <3>1, <3>2 DEF SlotQueue
  <2>7. SendCalls'
    BY Zenon, <1>2, <2>1 DEF SendCalls
  <2> QED BY Zenon, <1>3, <1>5, <2>1, <2>3, <2>6, <2>7 DEF SendBook, h
<1>7. CASE ActorCommand
  <2>1. /\ actor.at # "sink" /\ cmds # <<>> /\ cmds' = Tail(cmds) /\ UNCHANGED <<spawned, slots, sends, sent, wire>>
        /\ h = <<>> /\ h' = <<Head(cmds)>>
    <3>1. actor.at # "sink" /\ actor' = [at |-> "sink", item |-> Head(cmds)]
      BY Zenon, <1>7 DEF ActorCommand, ActorGoes
    <3> QED BY Zenon, <1>1, <1>3, <1>7, <3>1 DEF ActorCommand
  <2>2. Head(cmds) \in Cmd /\ Single(h', Head(cmds))
    BY Zenon, <1>1, <2>1, TailAt, SingleAt
  <2>3. h' = Append(h, Head(cmds))
    BY Zenon, <2>1, <2>2 DEF Single
  <2>4. Lined(Free(sent), wire, h', Tail(cmds), slots)
    BY Zenon, <1>1, <1>2, <2>1, <2>3, LinedShift
  <2>5. Among(Known(sent), Tail(cmds)) /\ Head(cmds) \in Known(sent)
    BY Zenon, <1>1, <1>2, <2>1, AmongMoves DEF AllKnown
  <2>6. AllKnown(Known(sent), wire, h', Tail(cmds), slots)
    BY Zenon, <1>1, <1>2, <2>2, <2>3, <2>5, AmongMoves DEF AllKnown
  <2> QED BY Zenon, <2>1, <2>4, <2>6, CommandMoves DEF h
<1>8. CASE SinkDone \/ SinkFails
  <2>1. /\ actor.at = "sink" /\ UNCHANGED <<cmds, spawned, slots, sends, sent>>
        /\ wire' = Append(wire, actor.item) \/ wire' = wire
    BY Zenon, <1>8 DEF SinkDone, SinkFails, sendVars
  <2>2. actor'.at \in {"drain", "select", "finish"}
    BY Zenon, <1>8, GoesTo DEF SinkDone, SinkFails
  <2>3. h' = <<>> /\ Single(h, actor.item) /\ actor.item \in Cmd
    BY Zenon, <1>1, <1>3, <2>1, <2>2
  <2>4. h # <<>> /\ Head(h) = actor.item /\ Tail(h) = <<>>
    BY Zenon, <2>3 DEF Single
  <2>5. /\ Lined(Free(sent), Append(wire, Head(h)), Tail(h), cmds, slots)
        /\ Lined(Free(sent), wire, Tail(h), cmds, slots)
    BY Zenon, <1>1, <1>2, <2>4, LinedShift, LinedDrop
  <2>6. Among(Known(sent), Tail(h)) /\ Head(h) \in Known(sent)
    BY Zenon, <1>1, <1>2, <2>4, AmongMoves DEF AllKnown
  <2>7. Among(Known(sent), Append(wire, actor.item))
    <3>1. actor.item \in Known(sent) /\ Among(Known(sent), wire)
      BY Zenon, <1>2, <2>4, <2>6 DEF AllKnown
    <3> QED BY Zenon, <1>1, <2>3, <3>1, AmongMoves
  <2>8. AllKnown(Known(sent), wire', h', cmds', slots)
    BY Zenon, <1>2, <2>1, <2>3, <2>4, <2>6, <2>7 DEF AllKnown
  <2>9. Lined(Free(sent), wire', h', cmds', slots)
    BY Zenon, <2>1, <2>3, <2>4, <2>5
  <2> QED BY Zenon, <2>1, <2>8, <2>9, CommandMoves DEF h
<1>9. CASE CloseSend
  <2>1. /\ UNCHANGED <<spawned, sends, sent, wire, actor>>
        /\ \/ UNCHANGED <<cmds, slots>>
           \/ slots = <<>> /\ cmds' = Append(cmds, CloseCmd) /\ UNCHANGED slots
           \/ slots' = Append(slots, CloseCmd) /\ UNCHANGED cmds
    BY Zenon, <1>9 DEF CloseSend
  <2>2. h' = h
    BY Zenon, <1>3, <2>1
  <2>3. AllKnown(Known(sent), wire, h, cmds', slots') /\ Lined(Free(sent), wire, h, cmds', slots')
    BY Zenon, <1>2, <1>4, <1>5, <2>1
  <2>4. SendCalls'
    BY Zenon, <1>2, <2>1 DEF SendCalls
  <2>5. SlotQueue'
    <3>1. CASE slots' = slots
      BY Zenon, <1>2, <2>1, <3>1 DEF SlotQueue
    <3>2. CASE slots' = Append(slots, CloseCmd)
      <4>1. \A y : Has(Append(slots, CloseCmd), y) <=> Has(slots, y) \/ y = CloseCmd
        BY Zenon, <1>1, <1>4, HasAppend
      <4>2. \A j \in Sends : j # CloseCmd
        BY DEF Sends, CloseCmd
      <4>3. Chain(Differ(Cmd), Append(slots, CloseCmd))
        <5>1. \A k \in 1..Len(slots) : slots[k] \in Cmd
          BY <1>1
        <5>2. \A k \in 1..Len(slots) : <<slots[k], CloseCmd>> \in Differ(Cmd)
          BY Zenon, <1>4, <5>1, DifferPairs
        <5> QED BY Zenon, <1>1, <1>2, <1>4, <5>2, ChainAppend DEF SlotQueue
      <4> QED BY Zenon, <1>2, <2>1, <3>2, <4>1, <4>2, <4>3 DEF SlotQueue
    <3> QED BY Zenon, <2>1, <3>1, <3>2
  <2> QED BY Zenon, <2>1, <2>2, <2>3, <2>4, <2>5 DEF SendBook, h
<1>10. CASE UNCHANGED <<sendVars, wire>> /\ h' = h
  BY Zenon, <1>2, <1>10, CommandMoves DEF sendVars, h
<1>11. ASSUME ActorNext, ~ActorCommand, ~SinkDone, ~SinkFails PROVE UNCHANGED <<sendVars, wire>> /\ h' = h
  <2>1. UNCHANGED <<sendVars, wire>> /\ actor.at # "sink"
    BY Zenon, <1>11 DEF ActorNext, ActorNoSenders, ActorMessage, ActorCloseFrame,
       ActorStreamEnds, ActorForward, ActorNoReceiver, ActorDrain, ActorEnds
  <2>2. actor'.at \in {"finish", "over", "forward", "select"} \/ actor' = actor
    BY Zenon, <1>11, GoesTo DEF ActorNext, ActorNoSenders, ActorMessage, ActorCloseFrame,
       ActorStreamEnds, ActorForward, ActorNoReceiver, ActorDrain, ActorEnds
  <2> QED BY Zenon, <1>1, <1>3, <2>1, <2>2
<1>12. ASSUME RecvNext PROVE UNCHANGED <<sendVars, wire, actor>>
  BY Zenon, <1>12 DEF RecvNext, CallReturns, RecvFast, RecvDisconnected, RecvSlow, RecvPoll,
     RecvTake, RecvEnds, RecvSettle, RecvCancel, RecvCall, RecvResult
<1>13. ASSUME CloseNext, ~CloseSend PROVE UNCHANGED <<sendVars, wire, actor>>
  BY Zenon, <1>13 DEF CloseNext, CloseCall, CloseTake, CloseLock, CloseDrain, CloseEnds, Drop
<1>14. ASSUME UNCHANGED vars PROVE UNCHANGED <<sendVars, wire, actor>>
  BY Zenon, <1>14 DEF vars, sendVars
<1>15. CASE SendNext
  BY Zenon, <1>6, <1>15, SendCallStep, SlotGrantedStep DEF SendNext
<1> QED BY Zenon, <1>3, <1>7, <1>8, <1>9, <1>10, <1>11, <1>12, <1>13, <1>14, <1>15 DEF Next

(* The commands in line are the property of the channel. *)
LEMMA SendBookOrders == ASSUME Types, SendBook PROVE AwaitedSendsInOrder
<1>1. /\ wire \in Seq(Cmd) /\ Held("sink") \in Seq(Cmd) /\ cmds \in Seq(Cmd) /\ slots \in Seq(Cmd)
  BY Zenon, HeldCommand DEF Types, SendTypes
<1>2. Line \in Seq(Cmd) /\ Chain(Free(sent), Line)
  BY Zenon, <1>1, LinedChain DEF SendBook, Line
<1>3. DOMAIN Line = 1..Len(Line) /\ \A k \in 1..Len(Line) : Line[k] \in Cmd
  BY <1>2
<1> QED BY Zenon, <1>2, <1>3, FreePairs DEF Chain, AwaitedSendsInOrder

-----------------------------------------------------------------------------
(* The inductive invariant. *)
AInv == Types /\ NotClosed /\ MsgBook /\ RecvBook /\ SendBook

(* The start. *)
LEMMA InitBooks == Init => AInv
<1> SUFFICES ASSUME Init PROVE AInv
  OBVIOUS
<1>1. Types
  BY Zenon, InitTypes
<1>2. NotClosed
  BY Zenon, HasNothing DEF Init, NotClosed
<1>3. Held("forward") = <<>> /\ Held("sink") = <<>>
  BY Zenon DEF Init, Held
<1>4. MsgBook
  <2>1. Lined(Up, <<>>, <<>>, <<>>, <<>>)
    BY Zenon, EmptyLined DEF Lined
  <2>2. stream.count = 0 /\ 0 \in 0..0
    <3>1. stream.count = 0
      BY Zenon DEF Init
    <3>2. 0 \in 0..0
      OBVIOUS
    <3> QED BY Zenon, <3>1, <3>2
  <2>3. \A x \in Messages : ~(x <= 0)
    BY DEF Messages
  <2>4. Dense(<<>>, <<>>, <<>>, 0)
    BY Zenon, <2>3, HasNothing DEF Dense
  <2> QED BY Zenon, <1>3, <2>1, <2>2, <2>4 DEF Init, MsgBook
<1>5. RecvBook
  <2>1. \A r \in Recvs : recvs[r] = None /\ due[r] = None
    BY Zenon DEF Init
  <2>2. Queued
    BY Zenon, <2>1, HasNothing, EmptyLined DEF Init, Queued
  <2>3. Lost = {} /\ Finished = {}
    BY Zenon, <2>1, HasNothing, StatesDiffer DEF Init, Lost, Finished
  <2>4. Cardinality({}) <= Cardinality({})
    BY FS_EmptySet
  <2> QED BY Zenon, <2>2, <2>3, <2>4 DEF RecvBook
<1>6. SendBook
  <2>1. \A k : k \notin 1..Len(<<>>)
    OBVIOUS
  <2>2. SendCalls
    BY Zenon, <2>1 DEF Init, SendCalls
  <2>3. SlotQueue
    BY Zenon, HasNothing, EmptyLined DEF Init, SlotQueue
  <2>4. \A E : Among(E, <<>>)
    BY Zenon, <2>1 DEF Among
  <2>5. \A R : Lined(R, <<>>, <<>>, <<>>, <<>>)
    BY Zenon, EmptyLined DEF Lined
  <2> QED BY Zenon, <1>3, <2>2, <2>3, <2>4, <2>5 DEF Init, SendBook, AllKnown
<1> QED BY Zenon, <1>1, <1>2, <1>4, <1>5, <1>6 DEF AInv

(* The invariant holds in every state of the tokio client. *)
THEOREM Invariant == Spec => []AInv
<1>1. Init => AInv
  BY Zenon, InitBooks
<1>2. AInv /\ [Next]_vars => AInv'
  <2> SUFFICES ASSUME AInv, [Next]_vars PROVE AInv'
    OBVIOUS
  <2>1. Types'
    BY Zenon, SendTypesStep, ActorTypesStep, RecvTypesStep, RestTypesStep DEF AInv, Types
  <2>2. NotClosed' /\ MsgBook' /\ RecvBook' /\ SendBook'
    BY Zenon, <2>1, NotClosedStep, MsgBookStep, RecvBookStep, SendBookStep DEF AInv
  <2> QED BY Zenon, <2>1, <2>2 DEF AInv
<1> QED BY <1>1, <1>2, PTL DEF Spec

(* Every variable keeps its type and no channel exceeds its capacity. *)
THEOREM TypeCorrect == Spec => []TypeOK
<1>1. AInv => TypeOK
  BY Zenon DEF AInv, Types, SendTypes, ActorTypes, RecvTypes, RestTypes, TypeOK, Cmd, Msg
<1> QED BY <1>1, Invariant, PTL

(* The peer's messages leave the channel in order and without a gap, and    *)
(* none goes missing before the application closes (tx_msg.send().await,    *)
(* try_recv(), rx.recv()).                                                  *)
THEOREM MessagesKeepOrder == Spec => []MessagesInOrder
<1>1. AInv => MessagesInOrder
  BY Zenon, MsgBookOrders DEF AInv
<1> QED BY <1>1, Invariant, PTL

(* Before close(), the messages that reached no caller are at most as many  *)
(* as the recv() calls the application cancelled.                           *)
THEOREM TimeoutsLoseNothing == Spec => []OnlyCancellationLoses
<1>1. AInv => OnlyCancellationLoses
  BY Zenon, RecvBookBounds DEF AInv
<1> QED BY <1>1, Invariant, PTL

(* Sends that the application awaits reach the socket in the order it made  *)
(* them, whether a send took the fast path or a task of its own.            *)
THEOREM SendsKeepOrder == Spec => []AwaitedSendsInOrder
<1>1. AInv => AwaitedSendsInOrder
  BY Zenon, SendBookOrders DEF AInv
<1> QED BY <1>1, Invariant, PTL
=============================================================================
