--------------------------------- MODULE Text ---------------------------------
(***************************************************************************)
(* Strings (base/base_strings.cpp): matching and searching, splitting and  *)
(* joining, the ends of paths, escaping, and on top of them the lookup of  *)
(* a variable in the nearest .env file and the process environment.        *)
(*                                                                         *)
(* A string is a sequence of characters.  A position counts from 0, as in  *)
(* the code, so the character there is s[p + 1].                           *)
(***************************************************************************)
EXTENDS Integers, Sequences, SequencesExt, FiniteSetsExt

CONSTANTS Texts,    \* strings looked at
          Needles,  \* strings searched for, or to split at
          EnvFiles, \* what a .env file may hold, NoFile for none
          Environs, \* process environments: sequences of strings
          Depth,    \* parts of the current path
          Key       \* the variable looked for

VARIABLES text, needle,
          env_files, environ, \* of the directories from the root down; proc_info->environment
          result              \* what an operation returned: [op, ...]

textVars == <<text, needle, env_files, environ, result>>

NoFile == <<"no file">>
NoResult == [op |-> "none"]

TextInit ==
  /\ text \in Texts /\ needle \in Needles
  /\ env_files \in [1 .. Depth -> EnvFiles] /\ environ \in Environs
  /\ result = NoResult

-----------------------------------------------------------------------------
Alphabet == [lower |-> <<"a", "b", "k", "n">>, upper |-> <<"A", "B", "K", "N">>]
Upper(c) == IF c \in ToSet(Alphabet.lower)
              THEN Alphabet.upper[CHOOSE i \in DOMAIN Alphabet.lower : Alphabet.lower[i] = c] ELSE c
IsSpace(c) == c \in {" ", "\n", "\t", "\r", "\f"}
Slash(c) == c \in {"/", "\\"}

Skip(s, n) == SubSeq(s, n + 1, Len(s))
Prefix(s, n) == SubSeq(s, 1, Min({n, Len(s)}))

\* With no_case the case, with sloppy what the longer string has more is ignored.
str8_match(a, b, no_case, sloppy) ==
  /\ Len(a) = Len(b) \/ sloppy
  /\ \A i \in DOMAIN a \cap DOMAIN b : IF no_case THEN Upper(a[i]) = Upper(b[i]) ELSE a[i] = b[i]

\* Mutant: the search ends one position early.
MutantStopOffset(s, sub) == Max({Len(s), Len(sub)}) - Len(sub)

StopOffset(s, sub) == Max({Len(s) + 1, Len(sub)}) - Len(sub)

\* The first place at or after start, or the size.  The first character searched
\* for is always in upper case.
str8_substr_find(s, sub, start, no_case) ==
  LET found(p) == /\ (IF no_case THEN Upper(s[p + 1]) ELSE s[p + 1]) = Upper(sub[1])
                  /\ str8_match(Skip(s, p + 1), Tail(sub), no_case, TRUE)
      places == {p \in start .. StopOffset(s, sub) - 1 : IF sub = <<>> THEN p = start ELSE found(p)}
  IN  IF places = {} THEN Len(s) ELSE Min(places)

\* The place after the last match that ends start characters before the end, or 0.
str8_find_needle_reverse(s, start, sub) ==
  LET places == {p \in 0 .. Len(s) - start - Len(sub) :
                   str8_match(SubSeq(s, p + 1, p + Len(sub)), sub, FALSE, FALSE)}
  IN  IF places = {} THEN 0 ELSE Max(places) + Len(sub)

RECURSIVE Pieces(_, _)
Pieces(s, chars) ==
  LET ends == {i \in DOMAIN s : s[i] \in chars} \cup {Len(s) + 1}
  IN  IF s = <<>> THEN <<>>
      ELSE <<Prefix(s, Min(ends) - 1)>> \o Pieces(Skip(s, Min(ends)), chars)

str8_split(s, chars, keep_empties) ==
  SelectSeq(Pieces(s, chars), LAMBDA piece : keep_empties \/ piece # <<>>)

str8_list_join(list, pre, sep) ==
  FoldLeft(LAMBDA acc, i : acc \o list[i] \o (IF i < Len(list) THEN sep ELSE <<>>),
           pre, [i \in 1 .. Len(list) |-> i])

LastSlash(s) == Max({0} \cup {i \in DOMAIN s : Slash(s[i])})
str8_chop_last_slash(s) == Prefix(s, Max({LastSlash(s) - 1, 0}))
str8_skip_last_slash(s) == Skip(s, LastSlash(s))

str8_whitespace_skip(s) ==
  LET solid == {i \in DOMAIN s : ~IsSpace(s[i])}
  IN  IF solid = {} THEN <<>> ELSE SubSeq(s, Min(solid), Max(solid))

-----------------------------------------------------------------------------
Specials == <<"\n", "\r", "\t", "\f", "\\", "\"">>
Replacements == <<"n", "r", "t", "f", "\\", "\"">>

escaped_from_raw_str8(s) ==
  FlattenSeq([i \in DOMAIN s |->
    IF s[i] \in ToSet(Specials)
      THEN <<"\\", Replacements[CHOOSE k \in DOMAIN Specials : Specials[k] = s[i]]>> ELSE <<s[i]>>])

\* Mutant: the character after the backslash is kept as well.
MutantEscapeLength == 1

EscapeLength == 2

\* A backslash and the character after it become one, a character of no meaning a
\* zero byte; a carriage return is dropped.
RECURSIVE raw_from_escaped_str8(_)
raw_from_escaped_str8(s) ==
  IF s = <<>> THEN <<>>
  ELSE IF s[1] = "\\" /\ Len(s) > 1
    THEN <<IF s[2] \in ToSet(Replacements)
             THEN Specials[CHOOSE k \in DOMAIN Specials : Replacements[k] = s[2]] ELSE "zero">>
           \o raw_from_escaped_str8(Skip(s, EscapeLength))
  ELSE (IF s[1] = "\r" THEN <<>> ELSE <<s[1]>>) \o raw_from_escaped_str8(Tail(s))

-----------------------------------------------------------------------------
\* The trimmed lines of the .env file that is deepest on the way to the current
\* directory; files further up are not looked at.
env_vars_from_env_file ==
  LET have == {d \in 1 .. Depth : env_files[d] # NoFile}
      lines == str8_split(env_files[Max(have)], {"\n"}, FALSE)
      chopped(line) == IF line # <<>> /\ Last(line) = "\r" THEN Front(line) ELSE line
  IN  IF have = {} THEN <<>>
      ELSE [i \in DOMAIN lines |-> str8_whitespace_skip(chopped(lines[i]))]

\* The last entry that matches the key as far as the shorter of the two goes.
env_vars_value_get(key) ==
  LET entries == env_vars_from_env_file \o environ
      matching == {i \in DOMAIN entries : str8_match(entries[i], key, FALSE, TRUE)}
      entry == entries[Max(matching)]
  IN  IF matching = {} THEN [error |-> TRUE, value |-> <<>>]
      ELSE [error |-> FALSE, value |-> Skip(entry, str8_substr_find(entry, <<"=">>, 0, FALSE) + 1)]

Returned(r) == result = NoResult /\ result' = r /\ UNCHANGED <<text, needle, env_files, environ>>

Find == \E start \in 0 .. Len(text), no_case \in BOOLEAN :
          Returned([op |-> "find", start |-> start, no_case |-> no_case,
                    at |-> str8_substr_find(text, needle, start, no_case)])
FindReverse == \E start \in 0 .. Len(text) :
                 Returned([op |-> "reverse", start |-> start,
                           at |-> str8_find_needle_reverse(text, start, needle)])
Split == \E keep \in BOOLEAN :
           Returned([op |-> "split", keep |-> keep, list |-> str8_split(text, ToSet(needle), keep)])
LastPart == Returned([op |-> "path", chop |-> str8_chop_last_slash(text), skip |-> str8_skip_last_slash(text)])
Escape == Returned([op |-> "escape", string |-> escaped_from_raw_str8(text)])
GetVariable == Returned([op |-> "variable", got |-> env_vars_value_get(Key)])

TextNext == Find \/ FindReverse \/ Split \/ LastPart \/ Escape \/ GetVariable

-----------------------------------------------------------------------------
At(p) == p + Len(needle) <= Len(text) /\ SubSeq(text, p + 1, p + Len(needle)) = needle

\* A search finds the first or the last place; one that respects case does so for a
\* string that does not begin with a lower case letter, the other one for any string.
FindExact ==
  CASE result.op = "find" /\ (needle = <<>> \/ result.no_case \/ needle[1] = Upper(needle[1])) ->
         LET places == {p \in result.start .. Len(text) - Len(needle) :
                          IF result.no_case
                            THEN \A i \in DOMAIN needle : Upper(text[p + i]) = Upper(needle[i])
                            ELSE At(p)}
         IN  result.at = Min(places \cup {Len(text)})
    [] result.op = "reverse" ->
         LET places == {p \in 0 .. Len(text) - Len(needle) : At(p) /\ p + Len(needle) <= Len(text) - result.start}
         IN  result.at = Max({0} \cup {p + Len(needle) : p \in places})
    [] OTHER -> TRUE

\* Splitting loses no character but the ones split at: what was split at one
\* character is put together again by joining, up to one at the end; and a path is
\* its directory, a slash and its last part.
PartsMakeTheWhole ==
  CASE result.op = "split" /\ result.keep /\ Len(needle) = 1 ->
         str8_list_join(result.list, <<>>, needle)
           \in {text, IF text # <<>> /\ Last(text) = needle[1] THEN Front(text) ELSE text}
    [] result.op = "split" /\ ~result.keep ->
         /\ <<>> \notin ToSet(result.list)
         /\ FlattenSeq(result.list) = SelectSeq(text, LAMBDA c : c \notin ToSet(needle))
    [] result.op = "path" ->
         IF LastSlash(text) = 0 THEN result.chop = <<>> /\ result.skip = text
         ELSE result.chop \o <<text[LastSlash(text)]>> \o result.skip = text
    [] OTHER -> TRUE

\* What was escaped has no special character but backslashes and quotes, and reads
\* back as what it was.
EscapeReversible ==
  result.op = "escape" => raw_from_escaped_str8(result.string) = text

\* The process environment goes before the nearest .env file, which hides those
\* above it; provided no line is blank and no name begins like another, for a blank
\* line matches every key and a longer name the shorter key.
EnvironmentFirst ==
  LET entries == env_vars_from_env_file \o environ
      named(s) == {i \in DOMAIN s : Prefix(s[i], Len(Key) + 1) = Key \o <<"=">>}
      exact == \A i \in DOMAIN entries : i \in named(entries) \/ ~str8_match(entries[i], Key, FALSE, TRUE)
  IN  result.op = "variable" /\ exact =>
        IF named(environ) # {} THEN result.got = [error |-> FALSE, value |-> Skip(environ[Max(named(environ))], Len(Key) + 1)]
        ELSE IF named(entries) # {} THEN ~result.got.error /\ Key \o <<"=">> \o result.got.value \in ToSet(env_vars_from_env_file)
        ELSE result.got.error

TextExact == FindExact /\ PartsMakeTheWhole /\ EscapeReversible /\ EnvironmentFirst
=============================================================================
