------------------------------- MODULE ListCards -------------------------------
(***************************************************************************)
(* What the list cards of the router share (router/index.ts,               *)
(* router/card-helpers.ts, card/pure.ts clampInt): the arithmetic of a     *)
(* page, the controls below a list, and what a click on them asks for.     *)
(*                                                                         *)
(* A click carries the value of its button and, from an input box, a text. *)
(* A text is a number when it is made of digits, and a word otherwise; the *)
(* empty text is NoInput.                                                  *)
(***************************************************************************)
EXTENDS Integers, Sequences, FiniteSets

NoInput == [kind |-> "empty", number |-> 0]
DigitsOf(n) == [kind |-> "digits", number |-> n]
Word == [kind |-> "word", number |-> 0]
(* The offset a click asks for, or why not.                                *)
At(offset) == [ok |-> TRUE, offset |-> offset]
Refused == [ok |-> FALSE, offset |-> 0]

ClampInt(n, low, high) == IF n < low THEN low ELSE IF n > high THEN high ELSE n

PageCount(total, size) == IF total = 0 THEN 1 ELSE (total + size - 1) \div size

(* pageInfo: the offset is kept within the pages there are.                *)
PageInfo(total, offset, size) ==
    LET safe == ClampInt(offset, 0, (PageCount(total, size) - 1) * size)
    IN  [pages |-> PageCount(total, size), offset |-> safe, page |-> safe \div size + 1]

(* pageSlice: the items of that page.                                      *)
PageSlice(items, offset, size) ==
    LET info == PageInfo(Len(items), offset, size)
        last == IF info.offset + size > Len(items) THEN Len(items) ELSE info.offset + size
    IN  [items |-> SubSeq(items, info.offset + 1, last), offset |-> info.offset,
         page |-> info.page, pages |-> info.pages, bar |-> Len(items) > size]

(* parseJumpOffset: pages count from one.                                  *)
ParseJumpOffset(input, size) ==
    IF input.kind = "digits" /\ input.number >= 1 THEN At((input.number - 1) * size) ELSE Refused

(* paginationBar: the offsets of its buttons, those there are.             *)
PaginationBar(slice, size, total) ==
    (IF slice.offset > 0 THEN {slice.offset - size} ELSE {})
        \cup (IF slice.offset + size < total THEN {slice.offset + size} ELSE {})

(* pagingOffset (/ls, /ws, /order): the input box first, else the button.  *)
PagingOffset(offset, input, size) ==
    IF input = NoInput THEN At(IF offset < 0 THEN 0 ELSE offset) ELSE ParseJumpOffset(input, size)

(* normalizePageArgs (/resume, /active): also brought to the start of its  *)
(* page, of a page no larger than the card may have.                       *)
NormalizePageArgs(size, offset, input, maxSize) ==
    LET pageSize == ClampInt(size, 1, maxSize)
        asked == PagingOffset(offset, input, pageSize)
    IN  [ok |-> asked.ok, size |-> pageSize, offset |-> (asked.offset \div pageSize) * pageSize]

(* searchQueryFrom: the clear button, an empty text and blanks end the     *)
(* filter.                                                                 *)
SearchQueryFrom(input, cleared) == IF cleared \/ input = NoInput THEN NoInput ELSE input

(* searchBar: the clear button is there when something is filtered.        *)
SearchBar(query) == {FALSE} \cup (IF query = NoInput THEN {} ELSE {TRUE})

=============================================================================
