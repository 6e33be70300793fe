------------------------------ MODULE PushRules ------------------------------
(***************************************************************************)
(* push/push_rules.cpp: whether an event notifies a user, by the rules the *)
(* user's account data holds.                                              *)
(*                                                                         *)
(* A JSON value is tagged with its type: <<"str", text>>, <<"int", n>>,    *)
(* <<"bool", b>>, <<"null">>, <<"arr", sequence>>, <<"obj", function from  *)
(* member names>>.  A text is a sequence of characters, of which one may   *)
(* stand for a run of ordinary ones (<<"content", ".", "body">>).         *)
(***************************************************************************)
EXTENDS Integers, Sequences, SequencesExt, FiniteSets

CONSTANTS
    Fold,           \* tolower, on the characters in use
    WordCharacters, \* is_word_character
    MaxCount        \* the largest number a room_member_count can name

Lowered(text) == [i \in DOMAIN text |-> Fold[text[i]]]

Typed(v, type) == IF v # {} /\ (CHOOSE x \in v : TRUE)[1] = type
                  THEN {(CHOOSE x \in v : TRUE)[2]} ELSE {}

Member(v, name) == {obj[name] : obj \in {o \in Typed(v, "obj") : name \in DOMAIN o}}

StringMember(v, name) == Typed(Member(v, name), "str")

Or(option, default) == IF option = {} THEN default ELSE CHOOSE x \in option : TRUE

---------------------------------------------------------------------------
(* Property paths: dots separate, a backslash protects a dot or itself.    *)

SplitPropertyPath(key) ==
    LET Escapes(i) == key[i] = "\\" /\ i < Len(key) /\ key[i + 1] \in {".", "\\"}
        Step(acc, i) ==
            IF acc.skip THEN [acc EXCEPT !.skip = FALSE]
            ELSE IF Escapes(i) THEN [acc EXCEPT !.path[Len(acc.path)] = Append(@, key[i + 1]), !.skip = TRUE]
            ELSE IF key[i] = "." THEN [acc EXCEPT !.path = Append(@, <<>>)]
            ELSE [acc EXCEPT !.path[Len(acc.path)] = Append(@, key[i])]
    IN FoldLeft(Step, [path |-> << <<>> >>, skip |-> FALSE], [i \in 1 .. Len(key) |-> i]).path

\* resolve_event_property
Property(event, key) == FoldLeft(Member, {event}, SplitPropertyPath(key))

\* event_property_as_string
StringProperty(event, key) == Typed(Property(event, key), "str")

\* scalar_values_equal: arrays and objects equal nothing.
ScalarValuesEqual(x, y) == x = y /\ x[1] \in {"null", "bool", "int", "str"}

---------------------------------------------------------------------------
(* Patterns.                                                               *)

\* dp[i, j]: the first j characters of the pattern match the first i.
GlobTable(value, pattern) ==
    LET dp[i \in 0 .. Len(value), j \in 0 .. Len(pattern)] ==
            IF j = 0 THEN i = 0
            ELSE IF pattern[j] = "*" THEN dp[i, j - 1] \/ (i > 0 /\ dp[i - 1, j])
            ELSE i > 0 /\ pattern[j] \in {"?", value[i]} /\ dp[i - 1, j - 1]
    IN dp

GlobMatchesFull(value, pattern) == GlobTable(value, pattern)[Len(value), Len(pattern)]

StartsWord(value, i) == i = 0 \/ value[i] \notin WordCharacters

EndsWord(value, i) == i = Len(value) \/ value[i + 1] \notin WordCharacters

GlobMatchesWordBoundarySubstring(value, pattern) ==
    LET v == Lowered(value) IN
    \E from, to \in 0 .. Len(v) :
        /\ from <= to /\ StartsWord(v, from) /\ EndsWord(v, to)
        /\ GlobMatchesFull(SubSeq(v, from + 1, to), Lowered(pattern))

ContainsLiteralWordBoundarySubstring(value, literal) ==
    LET v == Lowered(value)
        n == Len(literal)
    IN /\ n > 0
       /\ \E from \in 0 .. Len(v) - n :
            /\ SubSeq(v, from + 1, from + n) = Lowered(literal)
            /\ StartsWord(v, from) /\ EndsWord(v, from + n)

---------------------------------------------------------------------------
(* Conditions.                                                             *)

Ops == {<<"<", "=">>, <<">", "=">>, <<"=", "=">>, <<"<">>, <<">">>}

DigitValue == [d \in {"0", "1", "2", "3"} |->
                CASE d = "0" -> 0 [] d = "1" -> 1 [] d = "2" -> 2 [] d = "3" -> 3]

\* The longest operator that the text begins with; none means equality.
Operator(is) ==
    LET found == {op \in Ops : IsPrefix(op, is)} IN
    IF found = {} THEN <<>> ELSE CHOOSE op \in found : \A other \in found : Len(other) <= Len(op)

ParseRoomMemberCount(is) ==
    LET op == Operator(is)
        digits == SubSeq(is, Len(op) + 1, Len(is))
        value == FoldLeft(LAMBDA n, d : 10 * n + DigitValue[d], 0, digits)
    IN IF digits = <<>> \/ ~(Range(digits) \subseteq DOMAIN DigitValue) THEN {}
       ELSE {[op |-> op, value |-> n] : n \in {value} \intersect (0 .. MaxCount)}

RoomMemberCountMatches(is, actual) ==
    \E c \in ParseRoomMemberCount(is) :
        CASE c.op = <<"<", "=">> -> actual <= c.value
          [] c.op = <<">", "=">> -> actual >= c.value
          [] c.op = <<"<">> -> actual < c.value
          [] c.op = <<">">> -> actual > c.value
          [] OTHER -> actual = c.value

Body == <<"content", ".", "body">>

ConditionMatches(c, event, context) ==
    \/ /\ c.kind = <<"event_match">>
       /\ \E value \in StringProperty(event, c.key) :
            IF c.key = Body THEN GlobMatchesWordBoundarySubstring(value, c.pattern)
            ELSE GlobMatchesFull(Lowered(value), Lowered(c.pattern))
    \/ /\ c.kind = <<"contains_display_name">>
       /\ \E body \in StringProperty(event, Body) :
            ContainsLiteralWordBoundarySubstring(body, context.display_name)
    \/ c.kind = <<"room_member_count">> /\ RoomMemberCountMatches(c.is, context.member_count)
    \/ /\ c.kind = <<"sender_notification_permission">>
       /\ context.sender_power >= (IF c.key \in DOMAIN context.notification_levels
                                   THEN context.notification_levels[c.key]
                                   ELSE context.default_notification_level)
    \/ /\ c.kind = <<"event_property_is">>
       /\ \E actual \in Property(event, c.key), v \in c.value : ScalarValuesEqual(actual, v)
    \/ /\ c.kind = <<"event_property_contains">>
       /\ \E array \in Typed(Property(event, c.key), "arr"), v \in c.value :
            \E i \in DOMAIN array : ScalarValuesEqual(array[i], v)

---------------------------------------------------------------------------
(* Rules, as parse_push_ruleset reads them from account data.              *)

ParseCondition(object) ==
    [kind    |-> Or(StringMember(object, <<"kind">>), <<"unknown">>),
     key     |-> Or(StringMember(object, <<"key">>), <<>>),
     pattern |-> Or(StringMember(object, <<"pattern">>), <<>>),
     is      |-> Or(StringMember(object, <<"is">>), <<>>),
     value   |-> Member(object, <<"value">>)]

\* The elements of an array member that are of a type, each as an option.
Elements(v, name, type) ==
    LET array == Or(Typed(Member(v, name), "arr"), <<>>) IN
    LET kept == SelectSeq(array, LAMBDA e : e[1] = type) IN [i \in DOMAIN kept |-> {kept[i]}]

Tweaks(action, name) ==
    IF StringMember(action, <<"set_tweak">>) = {<<name>>} THEN {action} ELSE {}

\* apply_actions: later actions overwrite earlier ones.
ApplyActions(rule, action) ==
    IF Typed(action, "str") # {} THEN [rule EXCEPT !.notify = @ \/ action = {<<"str", <<"notify">>>>}]
    ELSE IF Tweaks(action, "sound") # {}
    THEN [rule EXCEPT !.sound = Or(StringMember(action, <<"value">>), @)]
    ELSE IF Tweaks(action, "highlight") # {}
    THEN [rule EXCEPT !.highlight = IF Member(action, <<"value">>) = {} THEN TRUE
                                    ELSE Or(Typed(Member(action, <<"value">>), "bool"), @)]
    ELSE rule

ParseRule(object, kind) ==
    LET conditions == Elements(object, <<"conditions">>, "obj")
        actions == Or(Typed(Member(object, <<"actions">>), "arr"), <<>>)
        rule == [rule_id    |-> Or(StringMember(object, <<"rule_id">>), <<>>),
                 enabled    |-> Or(Typed(Member(object, <<"enabled">>), "bool"), TRUE),
                 conditions |-> IF kind \in {"override", "underride"}
                                THEN [i \in DOMAIN conditions |-> ParseCondition(conditions[i])] ELSE <<>>,
                 pattern    |-> IF kind = "content" THEN Or(StringMember(object, <<"pattern">>), <<>>) ELSE <<>>,
                 notify     |-> FALSE, sound |-> <<>>, highlight |-> FALSE]
    IN FoldLeft(ApplyActions, rule, [i \in DOMAIN actions |-> {actions[i]}])

Kinds == <<"override", "content", "room", "sender", "underride">>

\* A rule without an id is dropped.
ParseRuleArray(ruleset, kind) ==
    LET objects == Elements(ruleset, <<kind>>, "obj") IN
    SelectSeq([i \in DOMAIN objects |-> ParseRule(objects[i], kind)], LAMBDA r : r.rule_id # <<>>)

ParsePushRuleset(ruleset) == [k \in Range(Kinds) |-> ParseRuleArray(ruleset, k)]

---------------------------------------------------------------------------
(* evaluate_push_rules.                                                    *)

Master == <<".m.rule.master">>

RuleConditionsMatch(rule, event, context) ==
    \A i \in DOMAIN rule.conditions : ConditionMatches(rule.conditions[i], event, context)

RuleMatchesContent(rule, event) ==
    /\ rule.pattern # <<>>
    /\ \E body \in StringProperty(event, Body) : GlobMatchesWordBoundarySubstring(body, rule.pattern)

Sender(event) == Or(StringProperty(event, <<"sender">>), <<>>)

RuleMatches(kind, rule, event, context) ==
    /\ rule.enabled
    /\ CASE kind = "override" -> rule.rule_id # Master /\ RuleConditionsMatch(rule, event, context)
         [] kind = "content" -> RuleMatchesContent(rule, event)
         [] kind = "room" -> StringProperty(event, <<"room_id">>) = {rule.rule_id}
         [] kind = "sender" -> Sender(event) = rule.rule_id
         [] kind = "underride" -> RuleConditionsMatch(rule, event, context)

Silent == [notify |-> FALSE, sound |-> <<>>, highlight |-> FALSE, rule_id |-> <<>>]

Result(rule) == [notify |-> rule.notify, sound |-> rule.sound, highlight |-> rule.highlight,
                 rule_id |-> rule.rule_id]

EvaluatePushRules(ruleset, event, context) ==
    LET masters == SelectSeq(ruleset["override"], LAMBDA r : r.rule_id = Master)
        Matching(kind) == SelectSeq(ruleset[kind], LAMBDA r : RuleMatches(kind, r, event, context))
        all == FlattenSeq([i \in DOMAIN Kinds |-> Matching(Kinds[i])])
    IN IF Sender(event) # <<>> /\ Sender(event) = context.user THEN Silent
       ELSE IF masters # <<>> /\ masters[1].enabled THEN Result(masters[1])
       ELSE IF all = <<>> THEN Silent ELSE Result(all[1])
=============================================================================
