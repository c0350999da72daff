----------------------------- MODULE FixDecode ------------------------------
(***************************************************************************)
(* The FIXT.1.1 decoder (src/fix.rs): decode_frame() walks the body once,   *)
(* field by field, into scalars and the entries of one repeating group;     *)
(* parse_kalshi_book() then reads book entries out of the slices.  Both are *)
(* pure; here a step is one turn of the loop, and the next field is chosen  *)
(* as it is read, so that every body is walked.                             *)
(*                                                                          *)
(* A field is its tag and a value; a value is a name for a class of byte    *)
(* strings that the decoder treats alike.  Tag 0 is a field that            *)
(* parse_field() refuses.                                                   *)
(***************************************************************************)
EXTENDS Integers, Sequences, FiniteSets, SequencesExt

CONSTANTS
  Headers,      \* how a body may start
  Alphabet,     \* the fields that may follow
  MaxMore,      \* how many of them
  MaxFields,    \* MAX_FIELDS
  MaxGroup,     \* MAX_GROUP_ENTRIES
  Books         \* decoded frames handed to parse_kalshi_book() as they are

VARIABLES
  body,      \* the fields of the body read so far (history)
  decoded,   \* fields, entry_fields, entry_starts and group
  status,    \* where decoding stands
  book,      \* the entries of KalshiBook built so far
  more       \* fields read after the prefix

vars == <<body, decoded, status, book, more>>

Fld(tag, value) == [tag |-> tag, value |-> value]
NoGroup == [count |-> -1, lead |-> 0]
Tags(s) == {s[i].tag : i \in DOMAIN s}
Value(s, tag) == s[CHOOSE i \in DOMAIN s : s[i].tag = tag].value

(* parse_decimal() on the values of tag 268: what it accepts.               *)
Decimal == [d \in {"0", "1", "2", "3"} |->
             CASE d = "0" -> 0 [] d = "1" -> 1 [] d = "2" -> 2 [] d = "3" -> 3]

(* fields starts with BeginString and BodyLength.                           *)
Framing == <<Fld(8, "FIXT.1.1"), Fld(9, "n")>>
Trailer == <<Fld(10, "n")>>

Empty == [fields |-> Framing, entry_fields |-> <<>>, entry_starts |-> <<>>, group |-> NoGroup]

Init ==
  /\ \/ body = <<>> /\ decoded = Empty /\ status = "framing"
     \/ decoded \in Books /\ body = <<>> /\ status = "given"
  /\ book = <<>> /\ more = 0

-----------------------------------------------------------------------------
(* decode_frame(): one field of the body.                                   *)

(* Decoded::entry(), and the entry under way.                               *)
Entry(d, k) ==
  SubSeq(d.entry_fields, d.entry_starts[k] + 1,
         IF k < Len(d.entry_starts) THEN d.entry_starts[k + 1] ELSE Len(d.entry_fields))

(* group_lead_tag(): 0 for an error.                                        *)
LeadTag(fields) ==
  IF 35 \notin Tags(fields) THEN 0
  ELSE CASE Value(fields, 35) = "W" -> 269 [] Value(fields, 35) = "X" -> 279 [] OTHER -> 0

(* Before tag 268.                                                          *)
ScalarRefused(f) ==
  \/ f.tag \in {269, 279} \/ f.tag \in Tags(decoded.fields)
  \/ f.tag = 268 /\ (IF f.value \in DOMAIN Decimal THEN Decimal[f.value] > MaxGroup ELSE TRUE)
  \/ f.tag = 268 /\ LeadTag(decoded.fields) = 0

(* Slip: an entry's duplicates are looked for among the scalars.            *)
EntryRefusedScalars(f) ==
  \/ f.tag = 268
  \/ f.tag = decoded.group.lead /\ Len(decoded.entry_starts) = decoded.group.count
  \/ f.tag # decoded.group.lead
       /\ (decoded.entry_starts = <<>> \/ f.tag \in Tags(decoded.fields))

(* After it.                                                                *)
EntryRefused(f) ==
  \/ f.tag = 268
  \/ f.tag = decoded.group.lead /\ Len(decoded.entry_starts) = decoded.group.count
  \/ f.tag # decoded.group.lead
       /\ IF decoded.entry_starts = <<>> THEN TRUE
          ELSE f.tag \in Tags(Entry(decoded, Len(decoded.entry_starts)))

Refused(f) ==
  \/ Len(body) + 3 > MaxFields
  \/ f.tag = 0 \/ f.tag \in 8..10
  \/ IF decoded.group = NoGroup THEN ScalarRefused(f) ELSE EntryRefused(f)

(* A field that is kept: a scalar, the count, the lead of an entry, or a    *)
(* further field of the entry under way.                                    *)
Kept(d, f) ==
  IF d.group = NoGroup
  THEN [d EXCEPT !.fields = Append(@, f),
                 !.group = IF f.tag = 268 THEN [count |-> Decimal[f.value], lead |-> LeadTag(d.fields)]
                           ELSE @]
  ELSE [d EXCEPT !.entry_fields = Append(@, f),
                 !.entry_starts = IF f.tag = d.group.lead THEN Append(@, Len(d.entry_fields)) ELSE @]

Keep(f) ==
  /\ ~Refused(f)
  /\ decoded' = Kept(decoded, f) /\ body' = Append(body, f)
  /\ UNCHANGED <<status, book>>

Refuse(f) ==
  /\ Refused(f)
  /\ body' = Append(body, f) /\ status' = "refused"
  /\ UNCHANGED <<decoded, book>>

(* BeginString, BodyLength, trailer and checksum are checked before the     *)
(* body is walked.                                                          *)
FramingFails ==
  /\ status = "framing"
  /\ status' = "unframed"
  /\ UNCHANGED <<body, decoded, book, more>>

(* The prefix holds no group; it is kept field by field.                    *)
FramingPasses ==
  /\ status = "framing"
  /\ \E p \in Headers : body' = p /\ decoded' = FoldLeft(Kept, decoded, p)
  /\ status' = "walk"
  /\ UNCHANGED <<book, more>>

Field(f) ==
  /\ status = "walk" /\ more < MaxMore
  /\ more' = more + 1
  /\ Keep(f) \/ Refuse(f)

-----------------------------------------------------------------------------
(* The end of the body: the count, then validate_standard_header().         *)

(* optional_before[optional_cursor..] behind a field that matched.          *)
After(optional, tag) ==
  SubSeq(optional, (CHOOSE i \in DOMAIN optional : optional[i] = tag) + 1, Len(optional))

(* require_standard_header_field(): the cursor behind tag, or 0.            *)
RECURSIVE Require(_, _, _, _)
Require(fields, cursor, tag, optional) ==
  CASE cursor = 0 \/ cursor > Len(fields) -> 0
    [] cursor \in DOMAIN fields /\ fields[cursor].tag = tag ->
         IF fields[cursor].value = "" THEN 0 ELSE cursor + 1
    [] OTHER ->
         IF fields[cursor].tag \in Range(optional)
         THEN Require(fields, cursor + 1, tag, After(optional, fields[cursor].tag)) ELSE 0

BeforeSender == <<1128, 1156, 1129>>
BeforeSeqNum == <<115, 128, 90, 91>>
BeforeTime == <<50, 142, 57, 143, 116, 144, 129, 145, 43, 97>>

validate_standard_header(fields) ==
  /\ Len(fields) >= 3 /\ fields[3].tag = 35 /\ fields[3].value # ""
  /\ LET a == Require(fields, 4, 49, BeforeSender)
         b == Require(fields, a, 56, <<>>)
         c == Require(fields, b, 34, BeforeSeqNum)
     IN  Require(fields, c, 52, BeforeTime) # 0

CountMatches ==
  decoded.group # NoGroup => Len(decoded.entry_starts) = decoded.group.count

Accepts == CountMatches /\ validate_standard_header(decoded.fields)

(* The checksum is pushed behind the scalars.                               *)
Finish ==
  /\ status = "walk"
  /\ IF Accepts
     THEN status' = "decoded" /\ decoded' = [decoded EXCEPT !.fields = @ \o Trailer]
     ELSE status' = "refused" /\ UNCHANGED decoded
  /\ UNCHANGED <<body, book, more>>

-----------------------------------------------------------------------------
(* parse_kalshi_book(): the scalars, then one entry at a time.              *)

Present(s, tag) == IF tag \in Tags(s) THEN Value(s, tag) # "" ELSE FALSE   \* required_value()

BookHeader ==
  /\ Present(decoded.fields, 35) /\ Value(decoded.fields, 35) \in {"W", "X"}
  /\ Present(decoded.fields, 34) /\ Present(decoded.fields, 268)
  /\ Value(decoded.fields, 35) = "W" => Present(decoded.fields, 55)

Incremental == Value(decoded.fields, 35) = "X"
Number(v) == v \in {"neg", "zero", "in", "above"}    \* fix_number()

(* Bids and offers that are not deleted need a size.                        *)
ActiveSize(e) == Value(e, 269) \in {"0", "1"} /\ ~(Incremental /\ Value(e, 279) = "2")

EntryAccepted(e) ==
  /\ Present(e, 269)
  /\ Value(e, 269) \in {"0", "1"} \/ (Incremental /\ Value(e, 269) = "2")
  /\ Incremental => /\ Present(e, 279) /\ Value(e, 279) \in {"0", "1", "2"}
                    /\ Present(e, 55)
  /\ \A tag \in {270, 271} : Present(e, tag) /\ Number(Value(e, tag))
  /\ Value(e, 270) \in {"zero", "in"}
  /\ Value(e, 271) # "neg"
  /\ ActiveSize(e) => Value(e, 271) # "zero"
  /\ Present(e, 272) /\ Present(e, 273)

Level(e) ==
  [action |-> IF Incremental THEN Value(e, 279) ELSE "None",
   symbol |-> IF Incremental THEN Value(e, 55) ELSE "None",
   type |-> Value(e, 269), price |-> Value(e, 270), size |-> Value(e, 271)]

BookStarts ==
  /\ status \in {"decoded", "given"}
  /\ status' = IF BookHeader THEN "book" ELSE "no book"
  /\ UNCHANGED <<body, decoded, book, more>>

BookEntry ==
  /\ status = "book" /\ Len(book) < Len(decoded.entry_starts)
  /\ LET e == Entry(decoded, Len(book) + 1) IN
       IF EntryAccepted(e) THEN book' = Append(book, Level(e)) /\ UNCHANGED status
       ELSE status' = "no book" /\ UNCHANGED book
  /\ UNCHANGED <<body, decoded, more>>

BookEnds ==
  /\ status = "book" /\ Len(book) = Len(decoded.entry_starts)
  /\ status' = "booked"
  /\ UNCHANGED <<body, decoded, book, more>>

Next ==
  \/ FramingFails \/ FramingPasses \/ \E f \in Alphabet : Field(f)
  \/ Finish \/ BookStarts \/ BookEntry \/ BookEnds

Spec == Init /\ [][Next]_vars

-----------------------------------------------------------------------------
(* The frames the decoder accepts, said without a cursor.                   *)

Position(tag, order) == CHOOSE i \in DOMAIN order : order[i] = tag

(* s is made of some of the optional tags, in their order, each once.       *)
Optional(s, order) ==
  /\ Tags(s) \subseteq Range(order)
  /\ \A i, j \in DOMAIN s : i < j => Position(s[i].tag, order) < Position(s[j].tag, order)

StandardHeader(b) ==
  \E s, q, t \in DOMAIN b :
    /\ s + 1 < q /\ q < t
    /\ b[1].tag = 35 /\ b[s].tag = 49 /\ b[s + 1].tag = 56 /\ b[q].tag = 34 /\ b[t].tag = 52
    /\ \A i \in {1, s, s + 1, q, t} : b[i].value # ""
    /\ Optional(SubSeq(b, 2, s - 1), BeforeSender)
    /\ Optional(SubSeq(b, s + 2, q - 1), BeforeSeqNum)
    /\ Optional(SubSeq(b, q + 1, t - 1), BeforeTime)

Distinct(s) == \A i, j \in DOMAIN s : s[i].tag = s[j].tag => i = j

Scalars(b) ==
  /\ Distinct(b) /\ Tags(b) \cap {0, 8, 9, 10, 269, 279} = {}

(* Where an entry of the group starts, and where it ends.                   *)
Leads(b, g) == {i \in g + 1 .. Len(b) : b[i].tag = IF b[1].value = "W" THEN 269 ELSE 279}
EntryAt(b, g, i) ==
  SubSeq(b, i, IF \E j \in Leads(b, g) : j > i
               THEN (CHOOSE j \in Leads(b, g) : j > i /\ \A k \in Leads(b, g) : k > i => j <= k) - 1
               ELSE Len(b))

Group(b, g) ==
  /\ b[1].value \in {"W", "X"}
  /\ b[g].value \in DOMAIN Decimal /\ Decimal[b[g].value] <= MaxGroup
  /\ Cardinality(Leads(b, g)) = Decimal[b[g].value]
  /\ g < Len(b) => g + 1 \in Leads(b, g)
  /\ Tags(SubSeq(b, g + 1, Len(b))) \cap {0, 8, 9, 10, 268} = {}
  /\ \A i \in Leads(b, g) : Distinct(EntryAt(b, g, i))

Grammar(b) ==
  /\ Len(b) + 2 <= MaxFields
  /\ StandardHeader(b)
  /\ IF 268 \in Tags(b)
     THEN LET g == CHOOSE i \in DOMAIN b : b[i].tag = 268 /\ \A j \in 1..i-1 : b[j].tag # 268
          IN  Scalars(SubSeq(b, 1, g)) /\ Group(b, g)
     ELSE Scalars(b)

(* decode_frame() accepts exactly the frames of the grammar above, and what *)
(* it returns is the frame: the scalars, the entries and the checksum are   *)
(* its fields, and every entry starts with the lead tag and has no other.   *)
(* parse_kalshi_book() only returns a book whose every level is usable:     *)
(* one level for each entry, of an allowed type (a trade only when the      *)
(* frame is incremental), with a known action and a symbol exactly when the *)
(* frame is incremental, a price in [0, 1] and, unless it deletes or        *)
(* reports a trade, a positive size.                                        *)
DecodesAsSpecified ==
  /\ status = "refused" => ~Grammar(body)
  /\ status = "decoded" =>
       /\ Grammar(body)
       /\ Framing \o body = Front(decoded.fields) \o decoded.entry_fields
       /\ Last(decoded.fields) = Trailer[1]
       /\ \A k \in DOMAIN decoded.entry_starts :
            LET e == Entry(decoded, k) IN
            /\ Head(e).tag = decoded.group.lead
            /\ decoded.group.lead \notin Tags(Tail(e))
  /\ status = "booked" =>
       /\ Len(book) = Decimal[Value(decoded.fields, 268)]
       /\ \A k \in DOMAIN book :
            /\ \/ book[k].type \in {"0", "1"}
               \/ book[k].type = "2" /\ Value(decoded.fields, 35) = "X"
            /\ book[k].action \in {"None", "0", "1", "2"}
            /\ book[k].price \in {"zero", "in"}
            /\ book[k].size \in {"zero", "in", "above"}
            /\ book[k].action = "None" <=> Value(decoded.fields, 35) = "W"
            /\ book[k].symbol = "None" <=> Value(decoded.fields, 35) = "W"
            /\ book[k].size = "zero" => book[k].action = "2" \/ book[k].type = "2"
=============================================================================
