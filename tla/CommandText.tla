----------------------------- MODULE CommandText -----------------------------
(***************************************************************************)
(* The text of one command on its way to a host and back: a whitelist      *)
(* entry's template and the caller's arguments become a command            *)
(* (params.validate_and_substitute), $SECRET references become values in   *)
(* the worker thread (storage.substitute_secrets), possibly much later, by *)
(* when the vault may have changed, and the values are taken out of the    *)
(* output (storage.scrub_output).                                          *)
(*                                                                         *)
(* A text is a sequence of tokens: a parameter's name stands for its       *)
(* placeholder {name}, a secret for its reference $SECRET{id}; other       *)
(* tokens are characters of one kind each.                                 *)
(*                                                                         *)
(* Definitions with an underscore and a capital (quote_Never) are          *)
(* slips the properties are tried against; TextNext does not use them.     *)
(*                                                                         *)
(* The names of the state machine bear a prefix, because AdmissionProofs   *)
(* extends this module together with CommandPolicy and RateLimit.          *)
(***************************************************************************)
EXTENDS Naturals, Sequences, SequencesExt

CONSTANTS
  Order,      \* the parameter names, sorted
  Secrets,    \* secret identifiers
  SecretVals, \* what a secret may be: texts of letters used by no other text
  Whitelist,  \* whitelist entries: records [cmd, params]
  Values,     \* texts a caller may give for a parameter
  Undefined,  \* no argument, no default, no secret
  MaxEdits,   \* bound on changes of the vault
  MaxPieces   \* bound on the pieces of an output

Params == ToSet(Order)

\* Kinds of characters.
Safe   == "c"    \* letters, digits, and what shlex.quote leaves alone
Blank  == " "
Quote  == "'"
Escape == "'\"'\"'"  \* what shlex.quote makes of a quote
Danger == ";"    \* one of SHELL_DANGEROUS
Root   == "/root"  \* the protected paths, at the start of a value
Marker == "[REDACTED]"
Other  == "o"    \* output that is no part of a secret

Letters == UNION {ToSet(v) : v \in SecretVals}
Typed   == Params \cup Secrets \cup {Safe, Blank, Quote, Danger, Root} \* what a caller may type
Plain   == Typed \cup {Escape, Marker, Other}
Texts   == Seq(Plain \cup Letters)

\* No secret is empty (up_secret encrypts a value only if there is one).  Its letters
\* stand for where a character came from: whatever else a text has is not of a secret.
ASSUME TextAssumption ==
  /\ Order \in Seq(Params)
  /\ (Params \cup Secrets) \cap {Blank, Quote, Escape, Danger} = {}
  /\ SecretVals \subseteq Seq(Letters) \ {<<>>} /\ Letters \cap Plain = {}
  /\ Values \subseteq Seq(Typed)
  /\ \A e \in Whitelist :
       /\ e.cmd \in Seq(Typed)
       /\ \A p \in DOMAIN e.params : e.params[p].default \in Seq(Typed) \cup {Undefined}
  /\ MaxEdits \in Nat /\ MaxPieces \in Nat

VARIABLES
  stage,   \* how far the command is
  entry,   \* the whitelist entry
  args,    \* the caller's arguments: parameter -> text or Undefined
  text,    \* the command's text, then its output
  vault,   \* secret -> [value, linked], or Undefined; linked: to this host
  given,   \* the values the command was given
  used,    \* those that will be taken out of its output, in order
  cut,     \* its output was cut off
  edits

textVars == <<stage, entry, args, text, vault, given, used, cut, edits>>

Secret == [value: SecretVals, linked: BOOLEAN]

\* The type invariant.
TextTypeOK ==
  /\ stage \in {"called", "refused", "resolved", "sent", "output", "done"}
  /\ entry \in Whitelist
  /\ args \in [Params -> Values \cup {Undefined}]
  /\ text \in Texts
  /\ vault \in [Secrets -> Secret \cup {Undefined}]
  /\ given \subseteq SecretVals
  /\ used \in Seq(SecretVals)
  /\ cut \in BOOLEAN
  /\ edits \in 0..MaxEdits

TextInit ==
  /\ stage = "called"
  /\ entry \in Whitelist
  /\ args \in [Params -> Values \cup {Undefined}]
  /\ text = <<>>
  /\ vault \in [Secrets -> Secret]
  /\ given = {}
  /\ used = <<>>
  /\ cut = FALSE
  /\ edits = 0

-----------------------------------------------------------------------------
(* Parameters.                                                             *)

\* Every token t of s replaced by the text f(t).
Expand(s, f(_)) == FlattenSeq([i \in DOMAIN s |-> f(s[i])])

quote_Never(v) == v

\* shlex.quote.
quote(v) ==
  IF v # <<>> /\ ToSet(v) \subseteq {Safe, Root} THEN v
  ELSE <<Quote>> \o Expand(v, LAMBDA t : IF t = Quote THEN <<Escape>> ELSE <<t>>) \o <<Quote>>

Placeholders == {p \in Params : Contains(entry.cmd, p)}
ParamSpec(p) == entry.params[p]
Specified(p) == p \in DOMAIN entry.params

\* The caller's value, or the default.
Value(p) == IF args[p] # Undefined THEN args[p] ELSE ParamSpec(p).default

\* The checks on one value, in the order of the code; a pattern may be missing,
\* or match safe characters, or anything.
Valid(p) ==
  LET v == Value(p) IN
  /\ Len(v) <= ParamSpec(p).max_length
  /\ v = <<>> => ParamSpec(p).default # Undefined
  /\ ParamSpec(p).allow_shell_chars \/ ToSet(v) \cap ({Danger} \cup Secrets) = {}
  /\ ParamSpec(p).pattern \in {"safe", "any"}
  /\ ParamSpec(p).pattern = "safe" => ToSet(v) \subseteq {Safe}
  /\ v = <<>> \/ v[1] # Root

\* One placeholder after another, in the order of the names: what an earlier value
\* brings along is replaced too.
Substituted ==
  LET after[i \in 0..Len(Order)] ==
        IF i = 0 THEN entry.cmd
        ELSE IF Order[i] \notin Placeholders THEN after[i - 1]
        ELSE Expand(after[i - 1],
                    LAMBDA t : IF t = Order[i] THEN quote(Value(t)) ELSE <<t>>)
  IN after[Len(Order)]

Accepted ==
  /\ \A p \in Placeholders : Specified(p) /\ Value(p) # Undefined
  /\ \A p \in Params \ Placeholders : args[p] = Undefined
  /\ \A p \in Placeholders : Valid(p)
  /\ ToSet(Substituted) \cap Params = {}

\* An entry without a params field is taken as it is, whatever the arguments.
validate_and_substitute ==
  /\ stage = "called"
  /\ IF DOMAIN entry.params = {} THEN stage' = "resolved" /\ text' = entry.cmd
     ELSE IF Accepted THEN stage' = "resolved" /\ text' = Substituted
     ELSE stage' = "refused" /\ UNCHANGED text
  /\ UNCHANGED <<entry, args, vault, given, used, cut, edits>>

-----------------------------------------------------------------------------
(* Secrets.                                                                *)

\* The administrator edits, unlinks or deletes a secret while the command waits
\* for its approval or runs.
ChangeVault ==
  /\ stage \in {"resolved", "sent"}
  /\ edits < MaxEdits
  /\ edits' = edits + 1
  /\ \E s \in Secrets, v \in Secret \cup {Undefined} : vault' = [vault EXCEPT ![s] = v]
  /\ UNCHANGED <<stage, entry, args, text, given, used, cut>>

\* The references in the text, from left to right.
References ==
  LET upto[i \in 0..Len(text)] ==
        IF i = 0 THEN <<>>
        ELSE IF text[i] \in Secrets THEN Append(upto[i - 1], text[i]) ELSE upto[i - 1]
  IN upto[Len(text)]

\* What will be scrubbed; the slip forgets the last.
Used_ButLast == IF References = <<>> THEN <<>>
                ELSE [i \in 1..(Len(References) - 1) |-> vault[References[i]].value]
Used == [i \in DOMAIN References |-> vault[References[i]].value]

Usable(s) == vault[s] # Undefined /\ vault[s].linked

\* One pass over the text, in the worker thread; a secret that is gone or not linked to the host ends it.
substitute_secrets ==
  /\ stage = "resolved"
  /\ IF \A i \in DOMAIN References : Usable(References[i])
     THEN /\ stage' = "sent"
          /\ text' = Expand(text, LAMBDA t : IF t \in Secrets THEN vault[t].value ELSE <<t>>)
          /\ given' = {vault[References[i]].value : i \in DOMAIN References}
          /\ used' = Used
     ELSE stage' = "refused" /\ UNCHANGED <<text, given, used>>
  /\ UNCHANGED <<entry, args, vault, cut, edits>>

\* The text is what execute_with_secrets scrubs, output or stderr; the error field is
\* the SSH client's own words and is not scrubbed.

\* What the client says when it has cut the output; stderr is cut without a word.
Notices == {<<>>, <<Other>>}

\* The command prints something: other output, or values it was given.  The client
\* cuts it, by bytes or by lines, before anything is taken out.
Runs ==
  /\ stage = "sent"
  /\ \E n \in 0..MaxPieces : \E pieces \in [1..n -> given \cup {<<Other>>}], notice \in Notices :
       \E k \in 0..Len(FlattenSeq(pieces)) :
         /\ text' = SubSeq(FlattenSeq(pieces), 1, k) \o notice
         /\ cut' = (k < Len(FlattenSeq(pieces)))
  /\ stage' = "output"
  /\ UNCHANGED <<entry, args, vault, given, used, edits>>

\* str.replace: the occurrences of v from left to right.
Replaced(s, v) ==
  LET Here(i) == i + Len(v) - 1 <= Len(s) /\ SubSeq(s, i, i + Len(v) - 1) = v
      from[i \in 1..(Len(s) + 1)] ==
        IF i > Len(s) THEN <<>>
        ELSE IF Here(i) THEN <<Marker>> \o from[i + Len(v)]
        ELSE <<s[i]>> \o from[i + 1]
  IN from[1]

\* One value after another.
scrub_output ==
  LET after[i \in 0..Len(used)] == IF i = 0 THEN text ELSE Replaced(after[i - 1], used[i]) IN
  /\ stage = "output"
  /\ text' = after[Len(used)]
  /\ stage' = "done"
  /\ UNCHANGED <<entry, args, vault, given, used, cut, edits>>

TextNext ==
  \/ validate_and_substitute
  \/ ChangeVault
  \/ substitute_secrets
  \/ Runs
  \/ scrub_output

TextSpec == TextInit /\ [][TextNext]_textVars

-----------------------------------------------------------------------------
(* Properties.                                                             *)

\* How a shell reads a text: words, and operators outside quotes as words of their
\* own.  open: a word has begun; quoted: inside quotes.
EndWord(r) == IF r.open THEN [r EXCEPT !.words = Append(@, r.word), !.word = <<>>, !.open = FALSE]
              ELSE r

ReadToken(r, t) ==
  CASE t = Quote              -> [r EXCEPT !.quoted = ~@, !.open = TRUE]
    [] t = Escape             -> [r EXCEPT !.word = Append(@, Quote), !.open = TRUE]
    [] t = Blank /\ ~r.quoted  -> EndWord(r)
    [] t = Danger /\ ~r.quoted -> [EndWord(r) EXCEPT !.words = Append(@, <<Danger>>)]
    [] OTHER                  -> [r EXCEPT !.word = Append(@, t), !.open = TRUE]

NothingRead == [words |-> <<>>, word |-> <<>>, open |-> FALSE, quoted |-> FALSE]

Read(s) ==
  LET upto[i \in 0..Len(s)] == IF i = 0 THEN NothingRead ELSE ReadToken(upto[i - 1], s[i])
  IN EndWord(upto[Len(s)]).words

\* The words of the template, with each placeholder's value where it stands.
Intended ==
  LET Step(w) == Expand(w, LAMBDA t : IF t \in Params THEN Value(t) ELSE <<t>>) IN
  [i \in DOMAIN Read(entry.cmd) |-> Step(Read(entry.cmd)[i])]

\* A value that carries the placeholder of a later parameter, which is substituted
\* inside the value's quotes.
Nested == \E p \in Placeholders : ToSet(Value(p)) \cap Params # {}

\* A template that puts quotes around a placeholder itself, closed by the value's.
TemplateQuotes == Contains(entry.cmd, Quote)

\* "every value becomes exactly one shell word" (params.py): the shell reads the
\* template's words with the values in their places, whatever characters they
\* have, unless a value names a parameter or the template has quotes.
OneWordEach ==
  stage = "resolved" /\ DOMAIN entry.params # {} /\ ~Nested /\ ~TemplateQuotes =>
    Read(text) = Intended

\* u begins where v ends, or one contains the other.
Overlap(u, v) ==
  \/ \E i, j \in 1..Len(v) : i <= j /\ SubSeq(v, i, j) = u
  \/ \E n \in 1..(Len(u) - 1) : n < Len(v) /\ SubSeq(u, 1, n) = SubSeq(v, Len(v) - n + 1, Len(v))

\* What a value of V that was cut through leaves at the end of a text.
CutEnds(V) ==
  {<<>>} \cup UNION {{SubSeq(v, 1, n) \o w : n \in 1..(Len(v) - 1), w \in Notices} : v \in V}

\* "If the output contains the secret value, it's replaced with [REDACTED]"
\* (guide.md): nothing is left of any value the command was given, whatever it
\* prints (on stdout or stderr) in whatever order, and although the vault has changed since.  There are two
\* exceptions: if two values overlap, replacing one may leave a piece of the other;
\* and since the output is cut first, one value may be cut through, whose beginning
\* then stands at the end.
ScrubIsComplete ==
  stage = "done" /\ (\A u, v \in given : u # v => ~Overlap(u, v)) =>
    \E n \in 0..Len(text) :
      /\ ToSet(SubSeq(text, 1, n)) \cap Letters = {}
      /\ SubSeq(text, n + 1, Len(text)) \in IF cut THEN CutEnds(given) ELSE {<<>>}
=============================================================================
