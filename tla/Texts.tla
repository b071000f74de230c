-------------------------------- MODULE Texts --------------------------------
(***************************************************************************)
(* The pure conversions between what comes from outside as a list and what *)
(* the engine decides on: the rating in a customer's text, the JSON object *)
(* in a model's reply, the list of labels to write back.  A text is a      *)
(* sequence of characters, each one the string that names it.              *)
(***************************************************************************)
EXTENDS Naturals, Sequences

NoRating == "no rating"
NoLabel == "no label"     \* the empty string

\* unicode.IsDigit holds of more than the ASCII digits; those take several
\* bytes, so that one alone is no token of length 1.
AsciiDigit == {"0", "1", "2", "3", "4", "5", "6", "7", "8", "9"}
OtherDigit == {"arabic 3"}
IsDigit(char) == char \in AsciiDigit \union OtherDigit
Ratings == {"1", "2", "3", "4", "5"}

\* strings.FieldsFunc: the tokens closed so far and the one being read.
Close(scan) ==
    IF scan.open = <<>> THEN scan.closed ELSE Append(scan.closed, scan.open)
Scan(text) ==
    LET scan[n \in 0 .. Len(text)] ==
            IF n = 0 THEN [closed |-> <<>>, open |-> <<>>]
            ELSE IF IsDigit(text[n])
            THEN [scan[n - 1] EXCEPT !.open = Append(@, text[n])]
            ELSE [closed |-> Close(scan[n - 1]), open |-> <<>>]
    IN  scan
Fields(text) == Close(Scan(text)[Len(text)])

\* Any digit of the text will do.
AnyDigit(text) ==
    LET hits == {i \in DOMAIN text : text[i] \in Ratings}
    IN  IF hits = {} THEN NoRating
        ELSE text[CHOOSE i \in hits : \A j \in hits : i <= j]

ParseRating(text) ==
    LET tokens == Fields(text)
        hits == {i \in DOMAIN tokens :
                    Len(tokens[i]) = 1 /\ tokens[i][1] \in Ratings}
    IN  IF hits = {} THEN NoRating
        ELSE tokens[CHOOSE i \in hits : \A j \in hits : i <= j][1]

\* The object ends at its first closing brace.
FirstClose(text) ==
    LET open == {i \in DOMAIN text : text[i] = "{"}
        close == {i \in DOMAIN text : text[i] = "}"}
        start == CHOOSE i \in open : \A j \in open : i <= j
        end == CHOOSE i \in close : \A j \in close : i <= j
    IN  IF open # {} /\ close # {} /\ start < end
        THEN SubSeq(text, start, end) ELSE text

\* From the first opening brace to the last closing one.
ExtractJSON(text) ==
    LET open == {i \in DOMAIN text : text[i] = "{"}
        close == {i \in DOMAIN text : text[i] = "}"}
        start == CHOOSE i \in open : \A j \in open : i <= j
        end == CHOOSE i \in close : \A j \in close : i >= j
    IN  IF open # {} /\ close # {} /\ start < end
        THEN SubSeq(text, start, end) ELSE text

\* The list without the entries of a label, built entry by entry.
Without(list, label) ==
    LET kept[n \in 0 .. Len(list)] ==
            IF n = 0 THEN <<>>
            ELSE IF list[n] = label THEN kept[n - 1]
            ELSE Append(kept[n - 1], list[n])
    IN  kept[Len(list)]

\* The label is added without a look at the list.
AddAnyway(current, remove, add) ==
    LET kept == Without(current, remove)
    IN  IF add # NoLabel THEN Append(kept, add) ELSE kept

ReplaceLabelList(current, remove, add) ==
    LET kept == Without(current, remove)
    IN  IF add # NoLabel /\ \A i \in DOMAIN kept : kept[i] # add
        THEN Append(kept, add) ELSE kept

-----------------------------------------------------------------------------
(* What the conversions are for *)

\* A rating with no digit beside it, in whatever script.
IsolatedAt(text, i) ==
    /\ text[i] \in Ratings
    /\ \A j \in {i - 1, i + 1} \intersect DOMAIN text : ~IsDigit(text[j])

\* One object: its braces are the first and the last.
OneObject(text, i, j) ==
    /\ i < j /\ text[i] = "{" /\ text[j] = "}"
    /\ \A k \in DOMAIN text : k < i \/ k > j => text[k] \notin {"{", "}"}

ElementsOf(list) == {list[i] : i \in DOMAIN list}
PlacesOf(list, l) == {i \in DOMAIN list : list[i] = l}
=============================================================================
