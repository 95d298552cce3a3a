------------------------------- MODULE FromPost -------------------------------
(***************************************************************************)
(* from_post (src/index.js): finds the header lines, the data and the last *)
(* =yend line of a post, reads the properties of its lines, decodes the    *)
(* data, and notes in a list of warnings whatever does not fit together.   *)
(*                                                                         *)
(* An article is a sequence of lines, the last of which may lack its line  *)
(* end.  A line is a control line, =y and a tag with fields, or a line of  *)
(* content, named by the bytes it decodes to.  A CRC32 is named by the     *)
(* data it is of.                                                          *)
(***************************************************************************)
EXTENDS Integers, SequencesExt

\* What may be written after the = of a property.
Number(n) == [is |-> "number", n |-> n]
Crc(data) == [is |-> "crc", of |-> data]
Text      == [is |-> "text"]
Empty     == [is |-> "empty"]
Absent    == [is |-> "absent"]      \* there is no such property

Field(prop, val)     == [prop |-> prop, val |-> val]    \* prop "": no property at all
Control(tag, fields) == [tag |-> tag, fields |-> fields, bytes |-> <<>>]
Content(bytes)       == [tag |-> "", fields |-> <<>>, bytes |-> bytes]

Given(v)    == v.is \notin {"absent", "empty"}          \* true as a condition
Over(v, w)  == v.is = "number" /\ w.is = "number" /\ v.n > w.n
Invalid(v)  == Given(v) /\ v.is # "number"

When(condition, warning) == IF condition THEN {warning} ELSE {}

-----------------------------------------------------------------------------
(* decoderParseLines.                                                      *)

\* The name of the file takes the rest of its line.
Fields(line) ==
    LET names == {i \in DOMAIN line.fields : line.fields[i].prop = "name"}
    IN  IF line.tag = "begin" /\ names # {} THEN SubSeq(line.fields, 1, Min(names))
        ELSE line.fields

decoderParseLine(read, line) ==
    LET fields == Fields(line)
        Of(p)  == {i \in DOMAIN fields : fields[i].prop = p}
        props  == {fields[i].prop : i \in DOMAIN fields} \ {""}
        yprops == [p \in props |-> fields[Max(Of(p))].val]
    IN  [ydata    |-> [t \in DOMAIN read.ydata \union {line.tag} |->
                         IF t = line.tag THEN yprops ELSE read.ydata[t]],
         warnings |-> UNION {read.warnings,
                             When(Of("") # {}, "ignored_line_data"),
                             When(\E p \in props : Cardinality(Of(p)) > 1, "duplicate_property"),
                             When(line.tag \in DOMAIN read.ydata, "duplicate_line")}]

decoderParseLines(lines, ydata) ==
    FoldLeft(decoderParseLine, [ydata |-> ydata, warnings |-> {}], lines)

-----------------------------------------------------------------------------
(* The checks of the properties.                                           *)

NUMERICAL_FIELDS == {<<"begin", "line">>, <<"begin", "total">>, <<"begin", "part">>,
                     <<"begin", "size">>, <<"part", "begin">>, <<"part", "end">>,
                     <<"end", "size">>, <<"end", "part">>}

Prop(ydata, tag, prop) ==
    IF tag \in DOMAIN ydata /\ prop \in DOMAIN ydata[tag] THEN ydata[tag][prop] ELSE Absent

MissingRequired(ydata) ==
    \/ ~Given(Prop(ydata, "begin", "line")) \/ ~Given(Prop(ydata, "begin", "size"))
    \/ Prop(ydata, "begin", "name") = Absent
    \/ ~Given(Prop(ydata, "end", "size"))

NumberWarnings(ydata) ==
    UNION {LET v == Prop(ydata, f[1], f[2])
           IN  When(Invalid(v), "invalid_prop")
               \union When(v = Number(0) /\ f[2] # "size", "zero_prop")
           : f \in NUMERICAL_FIELDS}

\* Fault: the two part numbers are not compared.
PartWarningsFault(ydata) ==
    LET begin == Prop(ydata, "begin", "part")   end == Prop(ydata, "end", "part")
        total == Prop(ydata, "begin", "total")
    IN  When(Over(begin, total) \/ Over(end, total), "part_number_exceeds_total")

PartWarnings(ydata) ==
    LET begin == Prop(ydata, "begin", "part")   end == Prop(ydata, "end", "part")
        total == Prop(ydata, "begin", "total")
    IN  IF Given(begin) /\ Given(end) /\ begin # end THEN {"part_number_mismatch"}
        ELSE When(Over(begin, total) \/ Over(end, total), "part_number_exceeds_total")

\* Fault: a part may not begin where it ends.
RangeWarningsFault(ydata) ==
    LET begin == Prop(ydata, "part", "begin")   end == Prop(ydata, "part", "end")
    IN  IF Given(begin) /\ Given(end)
        THEN When(~Over(end, begin), "invalid_part_range")
        ELSE {}

\* The range of =ypart against the size of the part and that of the file.
RangeWarnings(ydata) ==
    LET begin == Prop(ydata, "part", "begin")   end == Prop(ydata, "part", "end")
        size  == Prop(ydata, "end", "size")
        Fits  == /\ \A v \in {begin, end, size} : v.is = "number"
                 /\ size.n = end.n - begin.n + 1
        Multi == \E v \in {Prop(ydata, "begin", "total"), Prop(ydata, "begin", "part"),
                           Prop(ydata, "end", "part")} : Over(v, Number(1))
    IN  IF ~Given(begin) \/ ~Given(end) THEN When(Multi, "missing_part_range")
        ELSE IF Over(begin, end) THEN {"invalid_part_range"}
        ELSE IF ~Fits THEN {"size_mismatch_part_range"}
        ELSE When(Over(end, Prop(ydata, "begin", "size")), "part_range_exceeds_size")

SizeWarnings(ydata) ==
    LET file == Prop(ydata, "begin", "size")   part == Prop(ydata, "end", "size")
    IN  When(IF Given(Prop(ydata, "begin", "part")) THEN Over(part, file)
             ELSE file # part, "size_mismatch")

\* The two CRC32s, the second only where there is no =ypart line.
CrcWarnings(ydata, data) ==
    LET pcrc32 == Prop(ydata, "end", "pcrc32")   crc32 == Prop(ydata, "end", "crc32")
    IN  UNION {When(Given(pcrc32) /\ pcrc32.is # "crc", "invalid_prop"),
               When(Given(crc32) /\ crc32.is # "crc", "invalid_prop"),
               When(Given(pcrc32) /\ pcrc32 # Crc(data), "pcrc32_mismatch"),
               When(Given(crc32) /\ "part" \notin DOMAIN ydata /\ crc32 # Crc(data),
                    "crc32_mismatch")}

Warnings(ydata, data) ==
    UNION {NumberWarnings(ydata), PartWarnings(ydata), RangeWarnings(ydata),
           SizeWarnings(ydata), CrcWarnings(ydata, data),
           When(Prop(ydata, "end", "size") # Number(Len(data)), "data_size_mismatch")}

-----------------------------------------------------------------------------
(* from_post.                                                              *)

DecoderError(code) == [error |-> code]

\* A control line in the middle of the data decodes to something.
Decoded(line) == IF line.tag = "" THEN line.bytes ELSE <<0>>

Parsed(read, data, further) ==
    IF MissingRequired(read.ydata) THEN DecoderError("missing_required_properties")
    ELSE [error |-> "", props |-> read.ydata, data |-> data,
          warnings |-> UNION {read.warnings, further, Warnings(read.ydata, data)}]

\* The header lines end before a line of content, or with an =yend: then there is no data.
from_post(article) ==
    LET lines  == article.lines
        starts == {i \in DOMAIN lines : lines[i].tag = "begin"}
        start  == Min(starts)
        head   == Min({i \in start..Len(lines) :
                         lines[i].tag = "end" \/ i = Len(lines) \/ lines[i + 1].tag = ""})
        read   == decoderParseLines(SubSeq(lines, start, head), <<>>)
        ends   == {i \in (head + 2)..Len(lines) : lines[i].tag = "end"}
        end    == Max(ends)
        last   == decoderParseLines(<<lines[end]>>, read.ydata)
        Unterminated(i) == i = Len(lines) /\ ~article.ended
    IN  IF starts = {} THEN DecoderError("no_start_found")
        ELSE IF Unterminated(head) THEN DecoderError("no_end_found")
        ELSE IF lines[head].tag = "end" THEN Parsed(read, <<>>, {})
        ELSE IF ends = {} THEN DecoderError("no_end_found")
        ELSE Parsed([last EXCEPT !.warnings = @ \union read.warnings],
                    FlattenSeq([i \in 1..(end - head - 1) |-> Decoded(lines[head + i])]),
                    When(Unterminated(end), "missing_yend_newline"))
=============================================================================
