---------------------------- MODULE MCFixDecode -----------------------------
(* FixDecode for TLC: headers of each message type and unfinished ones, and *)
(* books of one sound entry followed by an entry of every shape.            *)
EXTENDS FixDecode

Header(type) ==
  <<Fld(35, type), Fld(49, "v"), Fld(56, "v"), Fld(34, "v"), Fld(52, "v")>>

MCHeaders ==
  {Header("W"), Header("X"), Header("A"), Header(""), <<Fld(35, "W"), Fld(49, "v")>>,
   <<Fld(35, "W"), Fld(1128, "v"), Fld(49, "v")>>}

MCAlphabet ==
  {Fld(tag, "v") : tag \in {0, 9, 34, 52, 56, 55, 43, 97}}
    \cup {Fld(34, ""), Fld(269, "0"), Fld(279, "0")}
    \cup {Fld(268, d) : d \in {"0", "1", "2", "3", "01"}}

Absent == "absent"
Some2(tag, v) == IF v = Absent THEN <<>> ELSE <<Fld(tag, v)>>

Sound(type) ==
  (IF type = "X" THEN <<Fld(279, "0"), Fld(55, "s")>> ELSE <<>>)
    \o <<Fld(269, "0"), Fld(270, "in"), Fld(271, "in"), Fld(272, "d"), Fld(273, "t")>>

MCBooks ==
  {LET lead == IF type = "W" THEN <<Fld(269, t)>> ELSE <<Fld(279, a)>>
       rest == IF type = "W" THEN Some2(279, a) ELSE Some2(269, t)
       e == lead \o rest \o Some2(55, s) \o Some2(270, p) \o Some2(271, q) \o Some2(272, d)
              \o <<Fld(273, "t")>>
   IN [fields |-> Framing \o Header(type) \o Some2(55, y) \o <<Fld(268, "2")>> \o Trailer,
       entry_fields |-> Sound(type) \o e,
       entry_starts |-> <<0, Len(Sound(type))>>,
       group |-> [count |-> 2, lead |-> IF type = "W" THEN 269 ELSE 279]] :
   type \in {"W", "X"}, t \in {"", "0", "2", "3"}, a \in {"", "0", "2", "9"},
   s \in {Absent, "", "s"}, y \in {Absent, "s"},
   p \in {Absent, "", "bad", "neg", "zero", "in", "above"},
   q \in {Absent, "bad", "neg", "zero", "in"}, d \in {Absent, "d"}}
=============================================================================
