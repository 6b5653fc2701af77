--------------------------- MODULE CommandParser ---------------------------
(***************************************************************************)
(* parse_command of src/src/command.rs: how a line the operator typed is   *)
(* split into a sender, a recipient, a command, its argument and a         *)
(* payload.  A range of a text is where it begins and the position after   *)
(* its end.                                                                *)
(***************************************************************************)
EXTENDS Callsign, Commands

NoText == "none"  \* an absent recipient, sender or argument

HopChar == Alnum \cup {"@", "/"}

IsRelayFirst(call) == Char(call, 1) # "@" /\ IsValidCall(call)

(* A base call, with a prefix, a suffix or both.                           *)
IsRelayFollow(call) ==
  \/ IsBaseCall(call)
  \/ \E i \in 1..Len(call) :
       /\ Char(call, i) = "/"
       /\ LET before == Sub(call, 1, i - 1)
              after  == Rest(call, i + 1)
          IN  \/ IsAffix(before) /\ IsBaseCall(after)
              \/ IsBaseCall(before) /\ IsAffix(after)
              \/ /\ IsAffix(before)
                 /\ \E j \in 1..Len(after) :
                      /\ Char(after, j) = "/"
                      /\ IsBaseCall(Sub(after, 1, j - 1))
                      /\ IsAffix(Rest(after, j + 1))

FirstHopEnd(s) == RunEnd(s, 1, HopChar)

Span(s, range) == Sub(s, range.from, range.end - 1)

(* The hops that follow position p, each behind an arrow.                  *)
RECURSIVE HopsAfter(_, _)
HopsAfter(s, p) ==
  LET arrow == RunEnd(s, p, {" "})
      from  == RunEnd(s, arrow + 1, {" "})
      end   == RunEnd(s, from, HopChar)
  IN  IF Char(s, arrow) = ">" /\ from < end
      THEN << [from |-> from, end |-> end] >> \o HopsAfter(s, end)
      ELSE << >>

(* How many hops at the front of a route can relay.                        *)
ValidFollowers(s, hops) ==
  CHOOSE n \in 0..Len(hops) :
    /\ \A i \in 1..n : IsRelayFollow(Span(s, hops[i]))
    /\ n < Len(hops) => ~ IsRelayFollow(Span(s, hops[n + 1]))

FullRelay(s) ==
  LET first == [from |-> 1, end |-> FirstHopEnd(s)]
      rest  == HopsAfter(s, first.end)
      hops  == << first >> \o rest
      valid == IF IsRelayFirst(Span(s, first)) THEN 1 + ValidFollowers(s, rest) ELSE 0
  IN  [count |-> Len(hops), valid |-> valid, first |-> first,
       last |-> IF valid = 0 THEN first ELSE hops[valid]]

PartialRelay(s) ==
  LET hops  == HopsAfter(s, 1)
      valid == ValidFollowers(s, hops)
  IN  [valid |-> valid, last |-> IF valid = 0 THEN [from |-> 1, end |-> 1] ELSE hops[valid]]

(* Where the content begins: behind "CALL: ", if that is the sender.       *)
ContentStart(s) ==
  LET colon == FirstHopEnd(s)
  IN  IF /\ colon > 1
         /\ Char(s, colon) = ":" /\ Char(s, colon + 1) = " "
         /\ Char(s, 1) # "@" /\ IsValidCall(Sub(s, 1, colon - 1))
      THEN colon + 2 ELSE 1
-----------------------------------------------------------------------------
(***************************************************************************)
(* A command at position p.  The first candidate that fits is taken, and   *)
(* must stand alone unless it ends in a question mark or a colon.          *)
(***************************************************************************)
NoMatch == [def |-> [text |-> "", kind |-> NoKind, arg |-> "None", bare |-> FALSE],
            command |-> "", arg |-> NoText, end |-> 0]

CommandStands(s, p, text) ==
  LET end == p + Len(text)
  IN  /\ StartsAt(s, p, text)
      /\ Char(text, Len(text)) \in {"?", ":"} \/ Char(s, end) \in {"", " "}

ParseArg(arg, word) ==
  LET call == IF arg = "QueryCall" /\ Char(word, Len(word)) = "?"
              THEN Sub(word, 1, Len(word) - 1) ELSE word
  IN  IF \/ arg \in {"Call", "QueryCall"} /\ IsValidCall(call)
         \/ arg = "MessageId" /\ AllIn(call, Digit)
         \/ arg = "Grid" /\ IsGrid(call)
      THEN call ELSE NoText

StandingCommands(s, p) ==
  LET stands(i) == CommandStands(s, p, Command(i).text)
  IN  SelectSeq(CommandCandidates(s, p), stands)

WordAt(s, p) ==
  LET start == RunEnd(s, p, {" "})
  IN  [text |-> Sub(s, start, RunEnd(s, start, CharsOf(s) \ {" "}) - 1),
       end |-> RunEnd(s, start, CharsOf(s) \ {" "})]

(* The command takes the word behind it if that can be its argument.       *)
WithArg(def, commandEnd, word) ==
  LET arg == IF def.arg = "None" \/ word.text = "" THEN NoText ELSE ParseArg(def.arg, word.text)
  IN  [def |-> def, command |-> def.text, arg |-> arg,
       end |-> IF arg = NoText THEN commandEnd ELSE word.end]

MatchOf(s, p, def, bareOnly) ==
  IF bareOnly /\ ~ def.bare THEN NoMatch
  ELSE WithArg(def, p + Len(def.text), WordAt(s, p + Len(def.text)))

QuestionMark == [text |-> "?", kind |-> "SnrQuery", arg |-> "None", bare |-> FALSE]

(* Mutant: the last command that fits is taken, not the first, which is    *)
(* the longest.                                                            *)
MatchShortCommand(s, p, bareOnly) ==
  IF StandingCommands(s, p) = << >> THEN NoMatch
  ELSE MatchOf(s, p, Command(StandingCommands(s, p)[Len(StandingCommands(s, p))]), bareOnly)

MatchCommand(s, p, bareOnly) ==
  IF StandingCommands(s, p) # << >>
  THEN MatchOf(s, p, Command(Head(StandingCommands(s, p))), bareOnly)
  ELSE IF ~ bareOnly /\ Char(s, p) = "?"
  THEN [def |-> QuestionMark, command |-> "?", arg |-> NoText, end |-> p + 1]
  ELSE NoMatch

(* The command at the start of what follows a recipient in a frame.        *)
PrefixOf(found) ==
  IF found = NoMatch \/ found.def.kind \in {"Cq", "Heartbeat"}
  THEN [kind |-> NoKind, text |-> ""]
  ELSE IF found.def.kind = "QueryMsg" THEN [kind |-> "Query", text |-> "QUERY"]
  ELSE [kind |-> found.def.kind, text |-> found.def.text]

CommandPrefix(s) ==
  IF Char(s, 1) = ">" THEN [kind |-> "Relay", text |-> ">"]
  ELSE PrefixOf(MatchCommand(s, 1, FALSE))
-----------------------------------------------------------------------------
(***************************************************************************)
(* The recipient, and the whole line.                                      *)
(***************************************************************************)
NoTarget == [how |-> NoText, recipient |-> NoText, route |-> << >>, end |-> 1]

Route(s, hops) == [i \in DOMAIN hops |-> Span(s, hops[i])]

Alone(s, end) == Char(s, end) \in {"", " "}

DirectTarget(how, address, end) ==
  [how |-> how, recipient |-> address, route |-> << address >>, end |-> end]

RelayTarget(recipient, route, end) ==
  [how |-> "Relay", recipient |-> recipient, route |-> route, end |-> end]

(* A route that begins with an arrow goes by way of the selected call.     *)
PartialTarget(s, selected, relay) ==
  IF Char(s, 1) = ">" /\ selected # NoText /\ IsRelayFirst(selected) /\ relay.valid # 0
  THEN RelayTarget(Span(s, relay.last),
                   << selected >> \o Route(s, SubSeq(HopsAfter(s, 1), 1, relay.valid)), relay.last.end)
  ELSE NoTarget

(* Of a route with a hop that cannot relay, what comes before it is left.  *)
FullTarget(s, address, relay) ==
  IF relay.valid >= 2
  THEN RelayTarget(Span(s, relay.last),
                   << address >>
                     \o Route(s, SubSeq(HopsAfter(s, relay.first.end), 1, relay.valid - 1)),
                   relay.last.end)
  ELSE IF relay.valid = 1 /\ (relay.count >= 2 \/ Alone(s, relay.first.end))
  THEN DirectTarget("Call", address, relay.first.end)
  ELSE IF relay.count = 1 /\ Alone(s, relay.first.end) /\ Char(s, 1) = "@" /\ IsCompoundCall(address)
  THEN DirectTarget("Group", address, relay.first.end)
  ELSE NoTarget

ExplicitTarget(s, selected) ==
  IF FirstHopEnd(s) = 1 THEN PartialTarget(s, selected, PartialRelay(s))
  ELSE FullTarget(s, Sub(s, 1, FirstHopEnd(s) - 1), FullRelay(s))

NotACommand == [target |-> NoTarget, kind |-> NoKind, command |-> "", arg |-> NoText,
                sender |-> NoText, payload |-> ""]

(* What comes behind the sender, with a recipient in it or none.           *)
Understood(content, sender, target, found) ==
  IF found = NoMatch THEN NotACommand
  ELSE [target |-> target, kind |-> found.def.kind, command |-> found.command,
        arg |-> found.arg, sender |-> sender,
        payload |-> Rest(content, RunEnd(content, found.end, {" "}))]

CommandFor(content, sender, target) ==
  Understood(content, sender, target,
             MatchCommand(content, RunEnd(content, target.end, {" "}), FALSE))

WithoutRecipient(content, sender, selected, bare) ==
  IF bare # NoMatch THEN Understood(content, sender, NoTarget, bare)
  ELSE IF selected = NoText THEN NotACommand
  ELSE CommandFor(content, sender, DirectTarget("Implicit", selected, 1))

ParseContent(content, sender, selected, explicit) ==
  IF explicit = NoTarget
  THEN WithoutRecipient(content, sender, selected, MatchCommand(content, 1, TRUE))
  ELSE CommandFor(content, sender, explicit)

ParseFrom(text, start, selected) ==
  ParseContent(Rest(text, start), IF start = 1 THEN NoText ELSE Sub(text, 1, start - 3), selected,
               ExplicitTarget(Rest(text, start), selected))

ParseCommand(text, selected) ==
  IF text = "" \/ Char(text, 1) = Tick THEN NotACommand
  ELSE ParseFrom(text, ContentStart(text), selected)
=============================================================================
