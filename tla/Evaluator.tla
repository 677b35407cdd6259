----------------------------- MODULE Evaluator ------------------------------
(***************************************************************************)
(* What one flag decides for one user: targeting rules, rollout, weighted   *)
(* variants.  The flags it requires are looked up by LocalStore.  A text is *)
(* a model value, a hash an arbitrary number: which user gets which is up   *)
(* to murmur3.                                                             *)
(***************************************************************************)
EXTENDS Integers, Sequences

CONSTANTS
    None,       \* an Option that is None; an attribute the user does not have
    On, Off,    \* FlagValue::Bool(true), FlagValue::Bool(false)
    Number,     \* Number[v]: the number that text v parses as, or None
    Fits,       \* Fits[op]: pairs of a text and a pattern that are related by
                \* the operator op (contains, starts_with, ends_with)
    Hashes      \* number of hashes (2^32 in the code)

ASSUME HashesAssumption == Hashes \in Nat \ {0}

\* A user: attributes, and a hash per flag for the rollout and for the variants
\* ("flag:user" and "flag:user:variant").
Context(attributes, hash, pick) ==
    [attributes |-> attributes, hash |-> hash, pick |-> pick]

Refused(flag) ==
    [enabled |-> FALSE, value |-> IF flag.disabled = None THEN Off ELSE flag.disabled]
Granted(value) == [enabled |-> TRUE, value |-> value]

\* A comparison with a text that is no number fails.
NumericCmp(op, a, w) ==
    /\ Number[a] # None /\ Number[w] # None
    /\ \/ op = "greater_than" /\ Number[a] > Number[w]
       \/ op = "greater_than_or_equal" /\ Number[a] >= Number[w]
       \/ op = "less_than" /\ Number[a] < Number[w]
       \/ op = "less_than_or_equal" /\ Number[a] <= Number[w]

\* A rule matches if its comparison holds for some of its values; not_equals if
\* it holds for none, and also if the user does not have the attribute.
RuleMatches(rule, user) ==
    LET a == user.attributes[rule.attribute] IN
    IF rule.operator = "not_equals"
    THEN IF a = None THEN rule.values # {} ELSE a \notin rule.values
    ELSE /\ a # None
         /\ \E w \in rule.values :
               \/ rule.operator = "equals" /\ a = w
               \/ rule.operator \in DOMAIN Fits /\ <<a, w>> \in Fits[rule.operator]
               \/ NumericCmp(rule.operator, a, w)

\* The value of a flag that is on and whose rules give none.
EnabledValue(flag) ==
    IF flag.fallback # None THEN flag.fallback
    ELSE IF flag.boolean THEN On ELSE None

\* Mutant of InRollout: the bound is in it.
InRolloutUpTo(flag, user) ==
    flag.rollout = None \/ user.hash[flag.key] % 100 <= flag.rollout

InRollout(flag, user) ==
    flag.rollout = None \/ user.hash[flag.key] % 100 < flag.rollout

\* Sums of the weights of the first variants.
Cumulative(variants) ==
    LET sum[i \in 0 .. Len(variants)] ==
            IF i = 0 THEN 0 ELSE sum[i - 1] + variants[i].weight
    IN  sum

\* Mutant of Bucket: the remainder, however large the total is.
BucketRemainder(total, h) == h % total

\* A total beyond the largest hash scales the hash instead.
Bucket(total, h) ==
    IF total < Hashes THEN h % total ELSE (h * total) \div Hashes

\* The variant whose interval of the weights the hash falls into.
Picked(variants, h) ==
    LET sum == Cumulative(variants)
        total == sum[Len(variants)]
    IN  IF total = 0 THEN 1
        ELSE CHOOSE i \in 1 .. Len(variants) :
                sum[i - 1] <= Bucket(total, h) /\ Bucket(total, h) < sum[i]

\* What an enabled flag decides once its prerequisites are satisfied: the first
\* rule that matches, else the rollout, else the variants.
OwnResult(flag, user) ==
    LET hits == {i \in DOMAIN flag.rules : RuleMatches(flag.rules[i], user)}
        first == CHOOSE i \in hits : \A j \in hits : i <= j
    IN  IF hits # {}
        THEN Granted(IF flag.rules[first].variant # None THEN flag.rules[first].variant
                     ELSE EnabledValue(flag))
        ELSE IF ~InRollout(flag, user) THEN Refused(flag)
        ELSE IF flag.variants # <<>>
        THEN Granted(flag.variants[Picked(flag.variants, user.pick[flag.key])].value)
        ELSE Granted(EnabledValue(flag))

\* Mutant of Satisfies: a flag that is off satisfies with the value it has.
SatisfiesByValue(result, prerequisite) ==
    IF prerequisite.required = None THEN result.enabled
    ELSE result.value = prerequisite.required

\* The result of a flag satisfies a prerequisite on it.
Satisfies(result, prerequisite) ==
    /\ result.enabled
    /\ prerequisite.required = None \/ result.value = prerequisite.required
=============================================================================
