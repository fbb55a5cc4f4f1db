--------------------------------- MODULE Tokening ---------------------------------
(***************************************************************************)
(* The tokens a contestant has: cms/server/contest/tokening.py.  Times are *)
(* those of ContestPhase.                                                  *)
(*                                                                         *)
(* Contest and task have each a set of rules, a record with mode           *)
(* ("disabled", "infinite" or "finite"), gen_initial, gen_number,          *)
(* gen_interval, gen_max, max_number and min_interval.  A history is the   *)
(* sequence of the times of the tokens played, in order.  The answer is a  *)
(* record with avail (-1 is infinite), next (when the next token is        *)
(* generated) and expiration (when one may be played again), either of     *)
(* which may be None.                                                      *)
(***************************************************************************)
EXTENDS ContestPhase, Sequences

\* The constraints of the tables Contest and Task.
RulesTyped(rules) ==
    /\ rules.mode \in {"disabled", "infinite", "finite"}
    /\ rules.mode = "finite" =>
          /\ {rules.gen_initial, rules.gen_number, rules.min_interval} \subseteq Nat
          /\ rules.gen_interval \in Nat \ {0}
          /\ {rules.gen_max, rules.max_number} \subseteq Nat \union {None}

-----------------------------------------------------------------------------

Tokens(avail, next, expiration) ==
    [avail |-> avail, next |-> next, expiration |-> expiration]

GenerateTokens(rules, start, begin, end) ==
    rules.gen_number * ((end - start) \div rules.gen_interval
                            - (begin - start) \div rules.gen_interval)

Capped(rules, avail) ==
    IF rules.gen_max = None THEN avail ELSE Min({avail, rules.gen_max})

\* What the counter shows at a time, s being what it was when last looked at.
Generated(rules, start, s, end) ==
    Capped(rules, s.avail + GenerateTokens(rules, start, s.prev, end))

\* What is generated between two tokens is capped before the token is taken from it.
TokenTaken(rules, start, s, at) ==
    [avail |-> Generated(rules, start, s, at) - 1, prev |-> at]

\* The counter after all tokens played.
Replayed(rules, start, history) ==
    LET after[i \in 0..Len(history)] ==
            IF i = 0 THEN [avail |-> rules.gen_initial, prev |-> start]
            ELSE TokenTaken(rules, start, after[i - 1], history[i])
    IN  after[Len(history)]

Simulated(rules, start, history, t) ==
    Generated(rules, start, Replayed(rules, start, history), t)

\* A plausible slip: the next period counted from now and not from the start.
NextGenerationFromNow(rules, start, avail, t) ==
    IF rules.gen_number > 0 /\ (rules.gen_max = None \/ avail < rules.gen_max)
    THEN t + rules.gen_interval
    ELSE None

NextGeneration(rules, start, avail, t) ==
    IF rules.gen_number > 0 /\ (rules.gen_max = None \/ avail < rules.gen_max)
    THEN start + rules.gen_interval * ((t - start) \div rules.gen_interval + 1)
    ELSE None

FiniteTokens(rules, start, history, t) ==
    LET simulated == Simulated(rules, start, history, t)
        left == rules.max_number - Len(history)
        exhausted == rules.max_number # None /\ simulated >= left
        avail == IF exhausted THEN left ELSE simulated
        next == IF exhausted THEN None ELSE NextGeneration(rules, start, simulated, t)
        expiration == IF history = <<>> THEN start
                      ELSE history[Len(history)] + rules.min_interval
    IN  Tokens(avail, next,
               IF expiration <= t \/ (avail = 0 /\ next = None) THEN None ELSE expiration)

TokensOf(rules, start, history, t) ==
    CASE rules.mode = "disabled" -> Tokens(0, None, None)
      [] rules.mode = "infinite" -> Tokens(-1, None, None)
      [] rules.mode = "finite" -> FiniteTokens(rules, start, history, t)

Later(a, b) == CASE a = None -> b
                 [] a # None /\ b = None -> a
                 [] a # None /\ b # None -> Max({a, b})

NextOfBoth(a, b) == IF a = None \/ b = None THEN None ELSE Max({a, b})

\* Contest tokens and task tokens together: one of each is needed.
Combined(c, k) ==
    LET expiration == Later(k.expiration, c.expiration)
        contest == IF c.avail = -1 THEN k.avail + 1 ELSE c.avail
        task == IF k.avail = -1 THEN contest + 1 ELSE k.avail
    IN  CASE c.avail = -1 /\ k.avail = -1 -> Tokens(-1, None, expiration)
          [] ~(c.avail = -1 /\ k.avail = -1) /\ contest < task ->
                Tokens(contest, c.next, expiration)
          [] ~(c.avail = -1 /\ k.avail = -1) /\ task < contest ->
                Tokens(task, k.next, expiration)
          [] ~(c.avail = -1 /\ k.avail = -1) /\ task = contest ->
                Tokens(task, NextOfBoth(c.next, k.next), expiration)

\* accept_token refuses only these.
NoTokenNow(tokens) == tokens.avail = 0 \/ tokens.expiration # None

=============================================================================
