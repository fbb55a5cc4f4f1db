------------------------------- MODULE FileMatching -------------------------------
(***************************************************************************)
(* What a contestant's files are taken for:                                *)
(* cms/server/contest/submission/file_matching.py, with the files carried  *)
(* over from the previous submission (submission/utils.py) and the rows    *)
(* accept_submission and accept_user_test make of them                     *)
(* (submission/workflow.py).                                               *)
(*                                                                         *)
(* A name is a record of a base and an extension; the extension "%l" of an *)
(* element of the format stands for the extensions of the language.  A     *)
(* file received has a codename (the element it is meant for), a filename, *)
(* either of them possibly None, and a content.                            *)
(***************************************************************************)
EXTENDS Naturals, FiniteSets, Sequences

CONSTANTS Absent,            \* None
          Formats,           \* the formats considered: [files, managers], sets of names
          Received,          \* files a contestant may send
          LANGUAGES,         \* records with a name and its extensions, the first preferred
          AllowedNames,      \* names of the languages the contest allows
          MaxUploads         \* bound: requests

VARIABLES
    format,     \* the format of the task; for a user test, also its managers and input
    partial,    \* ALLOW_PARTIAL_SUBMISSION of its task type
    latest,     \* the latest row of the contestant on the task, or Absent
    uploads     \* requests so far

matchingVars == <<format, partial, latest, uploads>>

MatchingInit ==
    /\ format \in Formats
    /\ partial \in BOOLEAN
    /\ latest = Absent
    /\ uploads = 0

-----------------------------------------------------------------------------

Range1(s) == {s[i] : i \in DOMAIN s}

Generic(element) == element.ext = "%l"

MatchFilename(filename, language, element) ==
    IF ~Generic(element) THEN filename = element
    ELSE filename.base = element.base /\ filename.ext \in Range1(language.extensions)

MatchExtension(filename, language, element) ==
    filename # Absent /\ Generic(element) => filename.ext \in Range1(language.extensions)

\* The elements a file is taken for: one, unless it is refused.
MatchFile(f, language, elements) ==
    CASE f.codename = Absent /\ f.filename = Absent -> {}
      [] f.codename = Absent /\ f.filename # Absent ->
            LET candidates == {x \in elements : MatchFilename(f.filename, language, x)}
            IN  IF Cardinality(candidates) = 1 THEN candidates ELSE {}
      [] f.codename # Absent ->
            {x \in elements : x = f.codename /\ MatchExtension(f.filename, language, x)}

\* The mapping from elements to the files matched to them.
Matched(given, language, elements) ==
    [x \in UNION {MatchFile(given[i], language, elements) : i \in DOMAIN given} |->
        given[CHOOSE i \in DOMAIN given : x \in MatchFile(given[i], language, elements)]]

\* A plausible slip: of two files for one element one is taken.
MatchFilesEither(given, language, elements) ==
    IF \E i \in DOMAIN given : MatchFile(given[i], language, elements) = {} THEN {}
    ELSE {Matched(given, language, elements)}

\* All the files together: refused if one of them is, or if two are for one element.
MatchFiles(given, language, elements) ==
    IF \/ \E i \in DOMAIN given : MatchFile(given[i], language, elements) = {}
       \/ \E i, j \in DOMAIN given :
              i # j /\ MatchFile(given[i], language, elements)
                          = MatchFile(given[j], language, elements)
    THEN {}
    ELSE {Matched(given, language, elements)}

NoLanguage == [name |-> Absent, extensions |-> <<>>]

\* The languages tried: only None when no element depends on the language, else the one
\* given, if it is allowed, or all the allowed ones.
CandidateLanguages(language_name, elements) ==
    LET allowed == {l \in LANGUAGES : l.name \in AllowedNames}
    IN  CASE ~(\E x \in elements : Generic(x)) ->
                IF language_name = Absent THEN {NoLanguage} ELSE {}
          [] (\E x \in elements : Generic(x)) /\ language_name # Absent ->
                {l \in allowed : l.name = language_name}
          [] (\E x \in elements : Generic(x)) /\ language_name = Absent -> allowed

\* The files and the language, if exactly one language matches.
MatchFilesAndLanguage(given, language_name, elements) ==
    LET candidates == CandidateLanguages(language_name, elements)
        matched == {l \in candidates : MatchFiles(given, l, elements) # {}}
        language == CHOOSE l \in matched : TRUE
    IN  IF given = <<>> \/ Cardinality(matched) # 1 THEN {}
        ELSE {[language |-> language.name, files |-> m] :
                m \in MatchFiles(given, language, elements)}

-----------------------------------------------------------------------------
(* The rows.                                                               *)

LanguageNamed(name) == IF name = Absent THEN NoLanguage
                       ELSE CHOOSE l \in LANGUAGES : l.name = name

\* Managers sent with a user test are stored under the preferred extension.
StoredName(x, name) ==
    IF Generic(x) THEN [x EXCEPT !.ext = LanguageNamed(name).extensions[1]] ELSE x

\* Files of the previous row for the elements missing now, if it is in the same language.
FromPrevious(missing, language_name) ==
    IF latest = Absent THEN <<>>
    ELSE IF latest.language # language_name THEN <<>>
    ELSE LET kept == {x \in missing : \/ x \in DOMAIN latest.files
                                      \/ StoredName(x, language_name) \in DOMAIN latest.managers}
         IN  [x \in kept |-> IF x \in DOMAIN latest.files THEN latest.files[x]
                             ELSE latest.managers[StoredName(x, language_name)]]

Elements == format.files \union format.managers

\* The input of a user test, sent along with its managers.
InputName == [base |-> "input", ext |-> ""]

\* The files with their digests: those sent, then those of the previous row.
Digests(match) ==
    LET carried == FromPrevious(Elements \ DOMAIN match.files, match.language)
    IN  [x \in DOMAIN match.files \union DOMAIN carried |->
            IF x \in DOMAIN match.files THEN match.files[x] ELSE carried[x]]

\* The row: elements of the submission format are kept under their codename, managers
\* under the name a compiler expects.
Row(match) ==
    LET digests == Digests(match)
        managers == {x \in DOMAIN digests : x \notin format.files}
    IN  [language |-> match.language,
         files |-> [x \in DOMAIN digests \ managers |-> digests[x]],
         managers |-> [n \in {StoredName(x, match.language) : x \in managers} |->
                          digests[CHOOSE x \in managers : StoredName(x, match.language) = n]]]

\* A request: refused if nothing matches, or if files are missing and all are required;
\* the input always is.
Upload(given, language_name) ==
    /\ uploads < MaxUploads
    /\ uploads' = uploads + 1
    /\ \E match \in MatchFilesAndLanguage(given, language_name, Elements) :
          /\ Elements \ DOMAIN match.files # {} => partial
          /\ InputName \in Elements => InputName \in DOMAIN Digests(match)
          /\ latest' = Row(match)
    /\ UNCHANGED <<format, partial>>

\* What a contestant may send: up to two files, with or without a language.
Uploads == {<<>>} \union {<<f>> : f \in Received} \union (Received \X Received)

MatchingNext ==
    \E given \in Uploads, language_name \in {l.name : l \in LANGUAGES} \union {Absent} :
        Upload(given, language_name)

-----------------------------------------------------------------------------
(* Properties.                                                             *)

\* A file may be meant for an element: by its codename, or by its filename.
Fits(f, x, language) ==
    /\ f.codename # Absent \/ f.filename # Absent
    /\ f.codename # Absent => f.codename = x /\ MatchExtension(f.filename, language, x)
    /\ f.codename = Absent => MatchFilename(f.filename, language, x)

\* Every way to read the files: a language that may be meant, and one element for each.
Readings(given, language_name) ==
    {<<l, m>> : l \in CandidateLanguages(language_name, Elements),
                m \in [DOMAIN given -> Elements]}

Sensible(given, l, m) ==
    /\ \A i \in DOMAIN given : Fits(given[i], m[i], l)
    /\ \A i, j \in DOMAIN given : m[i] = m[j] => i = j

\* "There's the slightest uncertainty or ambiguity": files are accepted only when there
\* is a single way to read them, and then they are read that way; and they are refused
\* only when there is none, or several, or one of them alone fits two elements.
OnlyReading ==
    \A given \in Uploads, language_name \in {l.name : l \in LANGUAGES} \union {Absent} :
        LET sensible == {r \in Readings(given, language_name) : Sensible(given, r[1], r[2])}
            result == MatchFilesAndLanguage(given, language_name, Elements)
            twofold == \E i \in DOMAIN given, l \in CandidateLanguages(language_name, Elements) :
                           Cardinality({x \in Elements : Fits(given[i], x, l)}) > 1
        IN  /\ Cardinality(result) <= 1
            /\ given # <<>> /\ Cardinality(sensible) = 1 /\ ~twofold => result # {}
            /\ \A r \in result : \E s \in sensible :
                  /\ sensible = {s}
                  /\ r.language = s[1].name
                  /\ \A i \in DOMAIN given : r.files[s[2][i]] = given[i]

\* Every file of a row is for an element of the format and in the language of the row,
\* the ones carried over from earlier rows too; without partial submissions none is
\* missing.
RowsInOneLanguage ==
    latest # Absent =>
        LET language == LanguageNamed(latest.language)
        IN  /\ DOMAIN latest.files \subseteq format.files
            /\ DOMAIN latest.managers = {StoredName(x, latest.language) :
                   x \in {y \in format.managers :
                             StoredName(y, latest.language) \in DOMAIN latest.managers}}
            /\ \A x \in DOMAIN latest.files : Fits(latest.files[x], x, language)
            /\ ~partial => DOMAIN latest.files = format.files

(* Both: how an upload is read, which does not depend on earlier uploads,  *)
(* is looked at for the first, and what is stored after every one.         *)
MatchingSound ==
    [][uploads = 0 /\ uploads' = 1 => OnlyReading]_matchingVars /\ []RowsInOneLanguage
=============================================================================
