------------------------------ MODULE HclScan ------------------------------
(***************************************************************************)
(* How scripts/check_governance.py reads a Terraform file (strip_hcl,      *)
(* blocks, has_attr), beside how the language reads it.                    *)
(*                                                                         *)
(* A file is a sequence of tokens; both readers are pushdown automata over *)
(* them, and share everything but the tokens they let open a frame in a    *)
(* given place.  "block" is the frame of a top-level variable or output    *)
(* block, "brace" of any other pair of brackets.  A frame that is neither  *)
(* of these is text, and is what strip_hcl blanks out.                     *)
(***************************************************************************)
EXTENDS Naturals, Sequences

CONSTANTS
  Rare,      \* spellings a file may use: subset of {"escaped_template", "comment_in_template"}
  MaxDepth   \* bound of the model: frames open at a time

ASSUME HclAssumption ==
  /\ Rare \subseteq {"escaped_template", "comment_in_template"}
  /\ MaxDepth \in Nat

\* "header" is a line that starts a variable or output block, label and brace
\* included; "attribute" is `description =` where an argument may begin;
\* "template" is ${ and "escaped_template" is $${, a literal ${ .
Token == {"header", "attribute", "open", "close", "quote", "escaped", "template",
          "escaped_template", "line_comment", "newline", "comment", "comment_end",
          "heredoc", "heredoc_end"}

Opened == [quote |-> "string", template |-> "template", escaped_template |-> "template",
           open |-> "brace", header |-> "block", line_comment |-> "line",
           comment |-> "comment", heredoc |-> "heredoc"]
ClosedBy == [string |-> "quote", template |-> "close", brace |-> "close", block |-> "close",
             line |-> "newline", comment |-> "comment_end", heredoc |-> "heredoc_end"]
Frame == DOMAIN ClosedBy

\* A reader in the middle of a file: the frames it is in, whether the block it
\* is in has its attribute, and whether some block ended without one.
Reader == [stack : Seq(Frame), described : BOOLEAN, bare : BOOLEAN]
AtStart == [stack |-> <<>>, described |-> FALSE, bare |-> FALSE]

Top(stack) == IF stack = <<>> THEN "file" ELSE stack[Len(stack)]
InString(stack) == \E i \in DOMAIN stack : stack[i] = "string"
InTemplate(stack) == InString(stack) /\ Top(stack) \in {"template", "brace"}

CodeOpeners == {"header", "open", "quote", "line_comment", "comment", "heredoc"}

\* What opens a frame for the language.
HclOpeners(stack) ==
  CASE Top(stack) \in {"file", "block", "brace", "template"} -> CodeOpeners
    [] Top(stack) = "string" -> {"template"}
    [] OTHER -> {}

\* Slip: a string ends at the next quote, whatever is interpolated.
StripOpeners_NoTemplate(stack) ==
  IF Top(stack) \in {"file", "block", "brace"} THEN CodeOpeners ELSE {}

\* What opens a frame for strip_hcl: skip_string takes every ${ for a template,
\* and skip_interp knows strings and braces, but no comment.
StripOpeners(stack) ==
  IF InTemplate(stack) THEN {"open", "quote"}
  ELSE CASE Top(stack) \in {"file", "block", "brace"} -> CodeOpeners
         [] Top(stack) = "string" -> {"template", "escaped_template"}
         [] OTHER -> {}

Closes(reader, token) == reader.stack # <<>> /\ token = ClosedBy[Top(reader.stack)]

\* A block that ends is where blocks yields it; has_attr has looked at its own
\* depth only.
AfterClose(reader) ==
  [stack     |-> SubSeq(reader.stack, 1, Len(reader.stack) - 1),
   described |-> reader.described,
   bare      |-> reader.bare \/ (Top(reader.stack) = "block" /\ ~reader.described)]

AfterOpen(reader, token) ==
  [stack     |-> Append(reader.stack, Opened[token]),
   described |-> reader.described /\ token # "header",
   bare      |-> reader.bare]

\* One token read: it closes the frame the reader is in, or opens another, or
\* is the attribute of the block, or is nothing to this reader.
Read(reader, token, openers) ==
  IF Closes(reader, token) THEN AfterClose(reader)
  ELSE IF token \in openers THEN AfterOpen(reader, token)
  ELSE IF token = "attribute" /\ Top(reader.stack) = "block"
    THEN [reader EXCEPT !.described = TRUE]
  ELSE reader

ReadHcl(reader, token) == Read(reader, token, HclOpeners(reader.stack))

\* Inside a template skip_interp sees only the quote and the brace of a token.
ReadStripped(reader, token) ==
  LET seen == CASE ~InTemplate(reader.stack) -> token
                [] InTemplate(reader.stack) /\ token = "header" -> "open"
                [] InTemplate(reader.stack) /\ token = "escaped" -> "quote"
                [] OTHER -> token
  IN Read(reader, seen, StripOpeners(reader.stack))

\* At the end of the file, blocks also yields the block it has not seen the end of.
Bare(reader) ==
  \/ reader.bare
  \/ ~reader.described /\ \E i \in DOMAIN reader.stack : reader.stack[i] = "block"

\* The tokens that may come next in a file that terraform validate accepts.
MayFollow(stack) ==
  LET top == Top(stack)
  IN IF InTemplate(stack)
       THEN {"open", "close", "quote"}
            \cup (IF "comment_in_template" \in Rare THEN {"comment"} ELSE {})
     ELSE CASE top = "file" -> {"header", "open", "line_comment", "comment", "newline"}
            [] top \in {"block", "brace"} ->
                 (CodeOpeners \ {"header"}) \cup {"attribute", "close", "newline"}
            [] top = "string" -> {"open", "close", "quote", "escaped", "template", "line_comment",
                                  "comment", "comment_end", "attribute"}
                                 \cup (Rare \cap {"escaped_template"})
            [] top = "line" -> Token \ {"heredoc"}
            [] OTHER -> Token

\* The next token of a file, within the model's bound on nesting.
Follows(token, stack) ==
  /\ token \in MayFollow(stack)
  /\ token \in HclOpeners(stack) => Len(stack) < MaxDepth
=============================================================================
