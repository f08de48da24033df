------------------------------- MODULE Detect -------------------------------
(***************************************************************************)
(* The detection engine (internal/detect): templates are parsed and        *)
(* compiled into signatures (template.go, signature.go, loader.go), and of *)
(* all signatures that hold for a request the one with the strongest       *)
(* action decides (engine.go).                                             *)
(*                                                                         *)
(* Text is abstracted: a word, a regular expression or a path pattern is   *)
(* known by what it occurs in.  A request says which words and expressions *)
(* each of its parts holds (holds), a path pattern which targets it covers *)
(* (covers), and a target is a name for the path or for the whole URI.     *)
(***************************************************************************)
EXTENDS Integers, Sequences

\* "unknown" stands for any action string the code has no case for.
Action == {"ban", "block", "challenge", "rate-limit", "log-only", "unknown"}

\* The structures of template.go ("" for what a file does not give).
PathRule == [rel : STRING, covers : SUBSET STRING, query : BOOLEAN]
Matcher == [part : STRING, words : SUBSET STRING, regex : SUBSET STRING,
            and : BOOLEAN, negative : BOOLEAN]
HTTPBlock == [method : STRING, path : SUBSET PathRule,
              raw : SUBSET [method : STRING, path : PathRule], matchers : SUBSET Matcher,
              and : BOOLEAN, action : Action \cup {""}, session : STRING]
TemplateFile == [id : STRING, action : Action \cup {""}, session : STRING, http : Seq(HTTPBlock)]

\* The least of a set of numbers.
First(S) == CHOOSE i \in S : \A j \in S : i <= j

-----------------------------------------------------------------------------
(* ParseTemplate and Compile *)

\* The first of the values that is given.
FirstGiven(values, none) ==
    LET given == {i \in DOMAIN values : values[i] # none}
    IN  IF given = {} THEN none ELSE values[First(given)]

\* Action and session matchers may also be nested in an http block; the
\* template's own come first.
ParseTemplate(t) ==
    [t EXCEPT !.action  = FirstGiven(<<@>> \o [i \in DOMAIN t.http |-> t.http[i].action], ""),
              !.session = FirstGiven(<<@>> \o [i \in DOMAIN t.http |-> t.http[i].session], "")]

\* A template without an action blocks, unless it is behavioural.
EffectiveAction(t) ==
    IF t.action # "" THEN t.action ELSE IF t.session # "" THEN "log-only" ELSE "block"

\* A pattern with a query is held against the whole URI.  A pattern that is
\* nothing but the base URL compiles to one that matches nothing at all.
CompilePath(p) == [covers |-> IF p.rel = "" THEN {} ELSE p.covers, query |-> p.query]

\* The request lines of raw requests add methods and paths to the block.
CompileBlock(h) ==
    [methods  |-> ({h.method} \cup {line.method : line \in h.raw}) \ {""},
     paths    |-> {CompilePath(p) : p \in h.path \cup {line.path : line \in h.raw}},
     matchers |-> h.matchers,
     and      |-> h.and]

\* A matcher with a regular expression that does not compile spoils the
\* template.
Compiles(t) ==
    \A i \in DOMAIN t.http : \A m \in t.http[i].matchers : "bad" \notin m.regex

Compile(t) ==
    [action |-> EffectiveAction(t), session |-> t.session,
     blocks |-> {CompileBlock(t.http[i]) : i \in DOMAIN t.http}]

\* LoadDir skips a file that is no template (it has no id), that does not
\* compile, or that has no http block.  A signature keeps the position of its
\* file: only the order of the positions matters.
LoadDir(templates) ==
    LET good == {i \in DOMAIN templates :
                    LET t == templates[i] IN t.id # "" /\ Compiles(t) /\ t.http # <<>>}
    IN  [i \in good |-> Compile(ParseTemplate(templates[i]))]

-----------------------------------------------------------------------------
(* Matching *)

\* The part of the request a matcher looks at.  The name of any other header
\* is looked up in lower case among canonical names, and never found.
PartValue(part, view) ==
    CASE part \in {"path", "header", "body"}  -> view.holds[part]
      [] part \in {"all", "request", ""}      -> UNION {view.holds[p] : p \in DOMAIN view.holds}
      [] OTHER                                -> {}

\* Words, or regular expressions, of one matcher; none at all hold.
Occur(items, and, hay) ==
    items = {} \/ IF and THEN items \subseteq hay ELSE items \cap hay # {}

EvalMatcher(m, hay) == Occur(m.words, m.and, hay) /\ Occur(m.regex, m.and, hay)

MatchMatcher(m, view) == EvalMatcher(m, PartValue(m.part, view)) # m.negative

\* The target is tried as it came and normalized.
MatchPath(p, view) == p.covers \cap (IF p.query THEN view.uri ELSE view.path) # {}

MatchBlock(b, view) ==
    /\ b.methods # {} => view.method \in b.methods
    /\ b.paths # {} => \E p \in b.paths : MatchPath(p, view)
    /\ b.matchers # {} => IF b.and THEN \A m \in b.matchers : MatchMatcher(m, view)
                          ELSE \E m \in b.matchers : MatchMatcher(m, view)

HttpMatch(sig, view) == \E b \in sig.blocks : MatchBlock(b, view)

-----------------------------------------------------------------------------
(* Inspect *)

\* Mutation of actionRank: a log-only rule outranks an enforcing one.
actionRankFlat(a) == 1

actionRank(a) ==
    CASE a = "ban"        -> 5
      [] a = "block"      -> 4
      [] a = "challenge"  -> 3
      [] a = "rate-limit" -> 2
      [] OTHER            -> 1

\* sigs are the loaded signatures by position, holds the set of positions whose
\* HTTP part and session part are met.  The value is the action of the winner,
\* the first of the strongest, or "none".  (The early break on a ban cannot
\* change the result.)
Inspect(sigs, holds) ==
    LET strongest == {i \in holds : \A j \in holds :
                         actionRank(sigs[i].action) >= actionRank(sigs[j].action)}
    IN  IF holds = {} THEN "none"
        ELSE sigs[First(strongest)].action
=============================================================================
