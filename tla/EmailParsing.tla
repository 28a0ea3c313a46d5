---------------------------- MODULE EmailParsing ----------------------------
(***************************************************************************)
(* ParseRFC822 (internal/ingest): from the bytes of a message to the email *)
(* that Ingest is called with.  The body is looked for by a walk over the  *)
(* MIME parts, which a sender may have arranged in any way and a broken    *)
(* mailer may have damaged anywhere; a message that ParseRFC822 refuses is *)
(* not looked at again (module ImapPoller).                                *)
(*                                                                         *)
(* A message is given by what the libraries find in it.  Decoding a header *)
(* and reducing HTML to text are functions of their own.                   *)
(***************************************************************************)
EXTENDS Integers, Sequences

CONSTANTS
  Raw,         \* the messages that may arrive, records as in RawMessage
  Header,      \* values of the From and Subject headers
  ParseAddress, DecodeHeader, \* functions on Header
  Html,        \* texts of HTML parts
  HtmlToText,  \* a function from Html to the text that is left of it
  PlainText,   \* texts of plain parts, Blank among them
  MessageId,   \* trimmed Message-IDs
  NoId,        \* the empty Message-ID
  NoEmail      \* no result yet

Blank == ""    \* the empty text

\* What NextPart returns: a part, or (part = FALSE) only the news that its
\* character set is not known.  Anything but inline text is an attachment.
MimePart ==
  [part : BOOLEAN, inline : BOOLEAN, readable : BOOLEAN,
   type : {"text/plain", "text/calendar"}, text : PlainText]
    \cup [part : BOOLEAN, inline : BOOLEAN, readable : BOOLEAN,
          type : {"text/html"}, text : Html]

\* opens: how CreateReader fares; ends: whether the walk reaches the end or
\* another error; rest: all that follows the header.
RawMessage ==
  [readable : BOOLEAN, from : Header, subject : Header, id : MessageId \cup {NoId},
   opens : {"ok", "charset", "error"}, parts : Seq(MimePart),
   ends : {"EOF", "error"}, rest : PlainText]

ASSUME RawAssumption == Raw \subseteq RawMessage

ASSUME TextAssumption ==
  /\ ParseAddress \in [Header -> Header] /\ DecodeHeader \in [Header -> Header]
  /\ HtmlToText \in [Html -> PlainText]

\* hashKey: sha256 over the parts, taken to have no collisions.
HashKey(from, subject, body) == <<"sha256", from, subject, body>>

ASSUME KeyAssumption ==
  /\ NoId \notin MessageId
  /\ \A from, subject \in Header, body \in PlainText :
       HashKey(from, subject, body) # NoId

\* submitEmail takes no submission without a sender ...
Submits(in) == in.from # ""

\* ... and gives this key to the others.
SubmittedKey(in) == HashKey(in.from, in.subject, in.body)

-----------------------------------------------------------------------------
VARIABLES
  raw,        \* the message
  walk,       \* where ParseRFC822 is
  next,       \* the part that NextPart returns next
  plainText,  \* the first plain text that was found
  htmlText,   \* the first HTML that was found
  parsed      \* the email

evars == <<raw, walk, next, plainText, htmlText, parsed>>

ParseInit ==
  /\ raw \in Raw
  /\ walk = "header" /\ next = 1
  /\ plainText = Blank /\ htmlText = Blank
  /\ parsed = NoEmail

\* mail.ReadMessage, the only error of ParseRFC822, and CreateReader.
ReadHeader ==
  /\ walk = "header"
  /\ walk' = IF ~raw.readable THEN "refused"
             ELSE IF raw.opens = "error" THEN "body" ELSE "parts"
  /\ UNCHANGED <<raw, next, plainText, htmlText, parsed>>

Keep(found, text) == IF found = Blank THEN text ELSE found

Usable(p) == p.part /\ p.inline /\ p.readable

\* Mutant: the last text wins.
TakeLast ==
  /\ walk = "parts" /\ next <= Len(raw.parts)
  /\ LET p == raw.parts[next] IN
       /\ plainText' = IF Usable(p) /\ p.type = "text/plain" THEN p.text ELSE plainText
       /\ htmlText'  = IF Usable(p) /\ p.type = "text/html"  THEN p.text ELSE htmlText
  /\ next' = next + 1
  /\ UNCHANGED <<raw, walk, parsed>>

\* One round of the loop in extractBody.
TakePart ==
  /\ walk = "parts" /\ next <= Len(raw.parts)
  /\ LET p == raw.parts[next] IN
       /\ plainText' = IF Usable(p) /\ p.type = "text/plain"
                       THEN Keep(plainText, p.text) ELSE plainText
       /\ htmlText'  = IF Usable(p) /\ p.type = "text/html"
                       THEN Keep(htmlText, p.text) ELSE htmlText
  /\ next' = next + 1
  /\ UNCHANGED <<raw, walk, parsed>>

\* The end of the message or an error: what was found so far is used.
EndParts ==
  /\ walk = "parts" /\ next > Len(raw.parts)
  /\ walk' = "body"
  /\ UNCHANGED <<raw, next, plainText, htmlText, parsed>>

Body == IF plainText # Blank THEN plainText
        ELSE IF htmlText # Blank THEN HtmlToText[htmlText]
        ELSE raw.rest

\* Mutant: the headers are hashed as they are.
HashRaw ==
  /\ walk = "body"
  /\ walk' = "done"
  /\ parsed' = [from    |-> ParseAddress[raw.from],
                subject |-> DecodeHeader[raw.subject],
                body    |-> Body,
                key     |-> IF raw.id # NoId THEN raw.id
                            ELSE HashKey(raw.from, raw.subject, Body)]
  /\ UNCHANGED <<raw, next, plainText, htmlText>>

BuildEmail ==
  /\ walk = "body"
  /\ walk' = "done"
  /\ parsed' =
       LET from == ParseAddress[raw.from]  subject == DecodeHeader[raw.subject]
       IN  [from |-> from, subject |-> subject, body |-> Body,
            key  |-> IF raw.id # NoId THEN raw.id ELSE HashKey(from, subject, Body)]
  /\ UNCHANGED <<raw, next, plainText, htmlText>>

ParseNext == ReadHeader \/ TakePart \/ EndParts \/ BuildEmail

ParseSpec == ParseInit /\ [][ParseNext]_evars

-----------------------------------------------------------------------------
(***************************************************************************)
(* Properties                                                              *)
(***************************************************************************)

\* The first text of type type that can be used and says something.
First(type, text) ==
  \E i \in 1 .. Len(raw.parts) :
    LET Found(j) == /\ Usable(raw.parts[j])
                    /\ raw.parts[j].type = type /\ raw.parts[j].text # Blank
    IN  Found(i) /\ raw.parts[i].text = text /\ \A j \in 1 .. i - 1 : ~Found(j)

Has(type) == raw.opens # "error" /\ \E text \in PlainText \cup Html : First(type, text)

\* Only a message whose header cannot be read is refused, whatever is wrong
\* with its parts (a refused one would be lost); and the body is the first
\* plain text, else the text of the first HTML, else all that follows the
\* header: attachments, unreadable parts and parts of an unknown character
\* set do not hide the ones behind them.
BodyIsBest ==
  /\ walk = "refused" => ~raw.readable
  /\ walk = "done" =>
       \/ Has("text/plain") /\ First("text/plain", parsed.body)
       \/ /\ ~Has("text/plain") /\ Has("text/html")
          /\ \E text \in Html : First("text/html", text) /\ parsed.body = HtmlToText[text]
       \/ ~Has("text/plain") /\ ~Has("text/html") /\ parsed.body = raw.rest

\* "The same sha256 scheme used by the HTTP adapter": a message without a
\* Message-ID has the key of the same email submitted over HTTP, so the two
\* adapters make one ticket of it, unless it has no sender and HTTP refuses
\* it; and no key is empty.
SameKeyOverHttp ==
  walk = "done" =>
    /\ raw.id = NoId /\ Submits(parsed) => parsed.key = SubmittedKey(parsed)
    /\ parsed.key # NoId

=============================================================================
