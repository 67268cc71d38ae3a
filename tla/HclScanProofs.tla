--------------------------- MODULE HclScanProofs ---------------------------
(***************************************************************************)
(* The two readers of HclScan agree on every token of every file, at any   *)
(* depth, that uses none of the rare spellings.                            *)
(***************************************************************************)
EXTENDS HclScan, TLAPS

\* A template is only ever opened in a string.
Grounded(stack) ==
  \A i \in DOMAIN stack :
    stack[i] = "template" => \E j \in DOMAIN stack : j < i /\ stack[j] = "string"

LEMMA FrameList ==
  Frame = {"string", "template", "brace", "block", "line", "comment", "heredoc"}
BY DEF Frame, ClosedBy

LEMMA OpenedFrame ==
  ASSUME NEW token \in DOMAIN Opened
  PROVE  /\ Opened[token] \in Frame
         /\ Opened[token] = "template" => token \in {"template", "escaped_template"}
BY FrameList DEF Opened

LEMMA OpenersAreOpened ==
  ASSUME NEW stack
  PROVE  /\ HclOpeners(stack) \subseteq DOMAIN Opened
         /\ StripOpeners(stack) \subseteq DOMAIN Opened
         /\ "escaped_template" \notin HclOpeners(stack)
         /\ "template" \in HclOpeners(stack) => Top(stack) = "string"
BY DEF HclOpeners, StripOpeners, CodeOpeners, Opened

LEMMA TopIsFrame ==
  ASSUME NEW stack \in Seq(Frame)
  PROVE  /\ stack = <<>> => Top(stack) = "file"
         /\ stack # <<>> => /\ Len(stack) \in DOMAIN stack
                            /\ Top(stack) = stack[Len(stack)] /\ Top(stack) \in Frame
BY DEF Top

\* A reader stays a reader.
LEMMA ReadType ==
  ASSUME NEW reader \in Reader, NEW token, NEW openers \in SUBSET DOMAIN Opened
  PROVE  Read(reader, token, openers) \in Reader
<1>1. reader.stack \in Seq(Frame) /\ reader.described \in BOOLEAN /\ reader.bare \in BOOLEAN
  BY DEF Reader
<1>2. ASSUME reader.stack # <<>>
      PROVE  AfterClose(reader) \in Reader
  <2>1. SubSeq(reader.stack, 1, Len(reader.stack) - 1) \in Seq(Frame)
    BY <1>1, <1>2
  <2>2. (reader.bare \/ (Top(reader.stack) = "block" /\ ~reader.described)) \in BOOLEAN
    OBVIOUS
  <2> QED BY <1>1, <2>1, <2>2 DEF AfterClose, Reader
<1>3. ASSUME token \in openers
      PROVE  AfterOpen(reader, token) \in Reader
  <2>1. Append(reader.stack, Opened[token]) \in Seq(Frame)
    BY <1>1, <1>3, OpenedFrame
  <2>2. (reader.described /\ token # "header") \in BOOLEAN
    OBVIOUS
  <2> QED BY <1>1, <2>1, <2>2 DEF AfterOpen, Reader
<1>4. [reader EXCEPT !.described = TRUE] \in Reader
  BY DEF Reader
<1> QED BY <1>2, <1>3, <1>4 DEF Read, Closes

LEMMA ReadersType ==
  ASSUME NEW reader \in Reader, NEW token
  PROVE  ReadHcl(reader, token) \in Reader /\ ReadStripped(reader, token) \in Reader
BY ReadType, OpenersAreOpened DEF ReadHcl, ReadStripped

\* The language's reader opens templates in strings.
LEMMA ReadGrounded ==
  ASSUME NEW reader \in Reader, NEW token, Grounded(reader.stack)
  PROVE  Grounded(ReadHcl(reader, token).stack)
<1> DEFINE stack == reader.stack
           next == ReadHcl(reader, token).stack
<1>1. stack \in Seq(Frame)
  BY DEF Reader
<1>2. CASE Closes(reader, token)
  <2>1. next = SubSeq(stack, 1, Len(stack) - 1) /\ stack # <<>>
    BY <1>2 DEF ReadHcl, Read, Closes, AfterClose
  <2>2. /\ DOMAIN next = 1..(Len(stack) - 1)
        /\ \A i \in DOMAIN next : i \in DOMAIN stack /\ next[i] = stack[i]
    BY <1>1, <2>1
  <2>3. \A i \in DOMAIN next, j \in DOMAIN stack : j < i => j \in DOMAIN next
    BY <1>1, <2>2
  <2> HIDE DEF next
  <2>4. Grounded(next)
    BY <2>2, <2>3 DEF Grounded
  <2> QED BY <2>4 DEF next
<1>3. CASE ~Closes(reader, token) /\ token \in HclOpeners(stack)
  <2>1. next = Append(stack, Opened[token])
    BY <1>3 DEF ReadHcl, Read, AfterOpen
  <2>2. Opened[token] \in Frame /\ (Opened[token] = "template" => token = "template")
    BY <1>3, OpenedFrame, OpenersAreOpened
  <2>3. /\ \A i \in DOMAIN stack : i \in DOMAIN next /\ i < Len(stack) + 1 /\ next[i] = stack[i]
        /\ \A i \in DOMAIN next : i \in DOMAIN stack \/ i = Len(stack) + 1
        /\ next[Len(stack) + 1] = Opened[token]
    BY <1>1, <2>1, <2>2
  <2>4. ASSUME Opened[token] = "template"
        PROVE  Len(stack) \in DOMAIN stack /\ stack[Len(stack)] = "string"
    <3>1. Top(stack) = "string"
      BY <1>3, <2>2, <2>4, OpenersAreOpened
    <3> QED BY <1>1, <3>1, TopIsFrame
  <2> HIDE DEF next
  <2>5. Grounded(next)
    BY <2>3, <2>4 DEF Grounded
  <2> QED BY <2>5 DEF next
<1>4. CASE ~Closes(reader, token) /\ token \notin HclOpeners(stack)
  <2>1. next = stack
    BY <1>4 DEF ReadHcl, Read, Reader
  <2> QED BY <2>1
<1> QED BY <1>2, <1>3, <1>4

\* All that Read takes from the openers is whether the token is one.
LEMMA SameOpeners ==
  ASSUME NEW reader, NEW token, NEW these, NEW those, token \in these <=> token \in those
  PROVE  Read(reader, token, these) = Read(reader, token, those)
BY DEF Read

\* strip_hcl and the language make the same of a token that may come next.
LEMMA SameRead ==
  ASSUME Rare = {}, NEW reader \in Reader, Grounded(reader.stack),
         NEW token \in MayFollow(reader.stack)
  PROVE  ReadStripped(reader, token) = ReadHcl(reader, token)
<1> DEFINE stack == reader.stack
           top == Top(stack)
<1>1. stack \in Seq(Frame)
  BY DEF Reader
<1>2. CASE InTemplate(stack)
  <2>1. top \in {"template", "brace"}
    BY <1>2 DEF InTemplate
  <2>2. token \in {"open", "close", "quote"}
    BY <1>2, <2>1 DEF MayFollow
  <2>3. StripOpeners(stack) = {"open", "quote"} /\ HclOpeners(stack) = CodeOpeners
    BY <1>2, <2>1 DEF StripOpeners, HclOpeners
  <2>4. token \in StripOpeners(stack) <=> token \in HclOpeners(stack)
    BY <2>2, <2>3 DEF CodeOpeners
  <2>5. ReadStripped(reader, token) = Read(reader, token, StripOpeners(stack))
    BY <1>2, <2>2 DEF ReadStripped
  <2> QED BY <2>4, <2>5, SameOpeners DEF ReadHcl
<1>3. CASE ~InTemplate(stack)
  <2>1. ReadStripped(reader, token) = Read(reader, token, StripOpeners(stack))
    BY <1>3 DEF ReadStripped
  <2>2. top # "template"
    <3>1. SUFFICES ASSUME top = "template" PROVE FALSE
      OBVIOUS
    <3>2. Len(stack) \in DOMAIN stack /\ stack[Len(stack)] = "template"
      BY <1>1, <3>1, TopIsFrame
    <3>3. InString(stack)
      BY <3>2 DEF Grounded, InString
    <3> QED BY <1>3, <3>1, <3>3 DEF InTemplate
  <2>3. CASE top = "string"
    <3>1. token # "escaped_template"
      BY <1>3, <2>3 DEF MayFollow
    <3>2. HclOpeners(stack) = {"template"} /\ StripOpeners(stack) = {"template", "escaped_template"}
      BY <1>3, <2>3 DEF StripOpeners, HclOpeners
    <3> QED BY <2>1, <3>1, <3>2, SameOpeners DEF ReadHcl
  <2>4. CASE top # "string"
    <3>1. StripOpeners(stack) = HclOpeners(stack)
      BY <1>3, <2>2, <2>4 DEF StripOpeners, HclOpeners
    <3> QED BY <2>1, <3>1 DEF ReadHcl
  <2> QED BY <2>3, <2>4
<1> QED BY <1>2, <1>3
=============================================================================
