------------------------------- MODULE Taxonomy -------------------------------
(* Categories, severity keywords, and the classifications that are under way  *)
(* while an Admin edits them.                                                 *)
(*                                                                            *)
(* classify_report_record reads the active categories when it begins, the     *)
(* provider or the response cache answers later, the keyword engine reads its *)
(* rules later still, and the answer is stored without a look at the taxonomy *)
(* it came from.  Each of these is a step here; an Admin may act in between.  *)
EXTENDS Integers, FiniteSets, FiniteSetsExt

CONSTANTS
    Categories, Sink,   \* slugs, and the one for what fits nowhere: "other"
    Terms,          \* normalized phrases, numbered in alphabetical order
    Length, MaxLength,      \* of each phrase
    Keywords,       \* rows of SeverityKeyword, used or not
    Texts, Found,   \* the phrases the engine finds in each text
    Reports, TextOf,
    MaxEdits,       \* bound of the model: edits by an Admin
    None

(* What is assumed of the constants. *)
TaxonomyAssumption ==
    /\ Sink \in Categories /\ None \notin Categories
    /\ Terms \subseteq Nat
    /\ MaxLength \in Nat /\ Length \in [Terms -> 0 .. MaxLength]
    /\ Found \in [Texts -> SUBSET Terms] /\ TextOf \in [Reports -> Texts]
    /\ MaxEdits \in Nat

VARIABLES
    category,   \* per slug: "absent", "active" or "retired"
    keyword,    \* per row: its rule, or None
    stage,      \* of the classification of each Report
    offered,    \* allowed_categories of its request
    answer,     \* what it is about to store, or has stored
    cache,      \* stored answers of the provider
    basis,      \* history: the rules a keyword answer was derived from
    edits

reference == <<category, keyword>>
vars == <<reference, stage, offered, answer, cache, basis, edits>>

(* contracts.Severity: declared from the most severe to the least. *)
Severities == 1 .. 4
Medium == 3

Rule == [term : Terms, severity : Severities,
         category : Categories \cup {None}, active : BOOLEAN]
Answer == [category : Categories, severity : Severities]

(* Shape of the state. *)
TypeOK ==
    /\ category \in [Categories -> {"absent", "active", "retired"}]
    /\ keyword \in [Keywords -> Rule \cup {None}]
    /\ stage \in [Reports -> {"queued", "asked", "answered", "classified", "raised"}]
    /\ offered \in [Reports -> SUBSET Categories]
    /\ answer \in [Reports -> Answer \cup {None}]
    /\ cache \subseteq [text : Texts, categories : SUBSET Categories, answer : Answer]
    /\ basis \in [Reports -> (SUBSET Rule) \cup {None}]
    /\ edits \in 0 .. MaxEdits

ActiveCategories == {k \in Categories : category[k] = "active"}
Stored == {k \in Keywords : keyword[k] # None}

Init ==
    /\ category \in [Categories -> {"absent", "active"}]
    /\ category[Sink] = "active"
    /\ keyword = [k \in Keywords |-> None]
    /\ stage = [r \in Reports |-> "queued"]
    /\ offered = [r \in Reports |-> {}]
    /\ answer = [r \in Reports |-> None]
    /\ cache = {}
    /\ basis = [r \in Reports |-> None]
    /\ edits = 0

-----------------------------------------------------------------------------
(* The keyword engine.                                                        *)

(* active_keyword_rules: an active rule of an active category, or of none. *)
ActiveRules ==
    {keyword[k] : k \in {s \in Stored :
        /\ keyword[s].active
        /\ keyword[s].category = None \/ keyword[s].category \in ActiveCategories}}

\* Mutation: rules of one severity are left in the order of the table.
RanksBeforeBySeverity(a, b) == a.severity < b.severity

(* _ranked: most severe, then most specific, then alphabetical.  Its last key, *)
(* the category, never decides: two rules do not share a term.                *)
RanksBefore(a, b) ==
    \/ a.severity < b.severity
    \/ a.severity = b.severity /\ Length[a.term] > Length[b.term]
    \/ a.severity = b.severity /\ Length[a.term] = Length[b.term] /\ a.term < b.term

(* The orders in which the rules may arrive: a place for each.  The query     *)
(* sorts them by its own collation; the engine takes whatever it is handed.   *)
Arrivals(rules) ==
    {place \in [rules -> 1 .. Cardinality(rules)] :
        \A a, b \in rules : place[a] = place[b] => a = b}

(* sorted() is stable: what the order leaves equal stays as it arrived. *)
First(rules, place) ==
    CHOOSE a \in rules : \A b \in rules \ {a} :
        RanksBefore(a, b) \/ (~RanksBefore(b, a) /\ place[a] < place[b])

\* Mutation: a rule counts whatever category it names.
UsableUnchecked(rule, allowed) == rule.category # None

(* _category_for: a rule that names no category, or one not allowed, is       *)
(* passed over.                                                               *)
Usable(rule, allowed) == rule.category # None /\ rule.category \in allowed

Chosen(matched, place, allowed) ==
    LET usable == {rule \in matched : Usable(rule, allowed)}
    IN IF usable = {} THEN Sink ELSE First(usable, place).category

(* highest: over all matches, whichever of them decides the category. *)
Highest(matched) == Min({rule.severity : rule \in matched})

KeywordAnswer(rules, place, text, allowed) ==
    LET matched == {rule \in rules : rule.term \in Found[text]} IN
    IF matched = {} THEN [category |-> Sink, severity |-> Medium]
    ELSE [category |-> Chosen(matched, place, allowed), severity |-> Highest(matched)]

-----------------------------------------------------------------------------
(* A classification.                                                          *)

(* The request is built from the active categories. *)
BeginClassification(r) ==
    /\ stage[r] = "queued"
    /\ Sink \in ActiveCategories
    /\ offered' = [offered EXCEPT ![r] = ActiveCategories]
    /\ stage' = [stage EXCEPT ![r] = "asked"]
    /\ UNCHANGED <<reference, answer, cache, basis, edits>>

(* active_category_slugs raises, and nothing catches it. *)
SinkMissing(r) ==
    /\ stage[r] = "queued"
    /\ Sink \notin ActiveCategories
    /\ stage' = [stage EXCEPT ![r] = "raised"]
    /\ UNCHANGED <<reference, offered, answer, cache, basis, edits>>

(* coerce_category: what is not allowed lands in the sink. *)
Coerced(k, allowed) == IF k \in allowed THEN k ELSE Sink

Answered(r, given) ==
    /\ stage[r] = "asked"
    /\ answer' = [answer EXCEPT ![r] = given]
    /\ stage' = [stage EXCEPT ![r] = "answered"]
    /\ UNCHANGED <<reference, offered, edits>>

(* The key of the response cache. *)
CachedFor(r) == {e \in cache : e.text = TextOf[r] /\ e.categories = offered[r]}

(* The provider names any category, or something that is none. *)
ProviderAnswers(r, named, severity) ==
    LET given == [category |-> Coerced(named, offered[r]), severity |-> severity] IN
    /\ CachedFor(r) = {}
    /\ Answered(r, given)
    /\ cache' = cache \cup
           {[text |-> TextOf[r], categories |-> offered[r], answer |-> given]}
    /\ UNCHANGED basis

CacheAnswers(r) ==
    /\ \E e \in CachedFor(r) :
           Answered(r, [e.answer EXCEPT !.category = Coerced(@, offered[r])])
    /\ UNCHANGED <<cache, basis>>

(* No answer, or an unusable one: the rules are read now, in some order. *)
FallsBack(r) ==
    /\ \E place \in Arrivals(ActiveRules) :
           Answered(r, KeywordAnswer(ActiveRules, place, TextOf[r], offered[r]))
    /\ basis' = [basis EXCEPT ![r] = ActiveRules]
    /\ UNCHANGED cache

(* The second transaction: Category.objects.get(slug=...), whatever its status. *)
StoreAnswer(r) ==
    /\ stage[r] = "answered"
    /\ category[answer[r].category] # "absent"
    /\ stage' = [stage EXCEPT ![r] = "classified"]
    /\ UNCHANGED <<reference, offered, answer, cache, basis, edits>>

-----------------------------------------------------------------------------
(* The Admin, one transaction each.  A conflict changes nothing.              *)
Edit ==
    /\ edits < MaxEdits
    /\ edits' = edits + 1
    /\ UNCHANGED <<stage, offered, answer, cache, basis>>

CreateCategory(k) ==
    /\ category[k] = "absent"
    /\ category' = [category EXCEPT ![k] = "active"]
    /\ UNCHANGED keyword
    /\ Edit

(* update_category, of the sink like of any other. *)
SetCategory(k, status) ==
    /\ category[k] \notin {"absent", status}
    /\ category' = [category EXCEPT ![k] = status]
    /\ UNCHANGED keyword
    /\ Edit

(* Terms are unique among all rows, the retired ones included. *)
TermFree(term, but) == \A k \in Stored \ {but} : keyword[k].term # term

CreateKeyword(k, term, severity, named) ==
    /\ keyword[k] = None
    /\ TermFree(term, k)
    /\ named # None => category[named] = "active"
    /\ keyword' = [keyword EXCEPT ![k] = [term |-> term, severity |-> severity,
                                         category |-> named, active |-> TRUE]]
    /\ UNCHANGED category
    /\ Edit

(* update_severity_keyword; a field that was not sent keeps its value.  The   *)
(* category may be cleared, or be one that is active now.                     *)
UpdateKeyword(k, rule) ==
    /\ keyword[k] # None
    /\ TermFree(rule.term, k)
    /\ \/ rule.category \in {keyword[k].category, None}
       \/ rule.category \in ActiveCategories
    /\ keyword' = [keyword EXCEPT ![k] = rule]
    /\ UNCHANGED category
    /\ Edit

-----------------------------------------------------------------------------
(* The rules an Admin turns one into: of one of two severities. *)
EditedRules == {rule \in Rule : rule.severity \in {1, 2}}

Next ==
    \/ \E r \in Reports : BeginClassification(r)
    \/ \E r \in Reports : SinkMissing(r)
    \/ \E r \in Reports, named \in Categories \cup {None}, severity \in {2, 3} :
           ProviderAnswers(r, named, severity)
    \/ \E r \in Reports : CacheAnswers(r)
    \/ \E r \in Reports : FallsBack(r)
    \/ \E r \in Reports : StoreAnswer(r)
    \/ \E k \in Categories : CreateCategory(k)
    \/ \E k \in Categories, status \in {"active", "retired"} : SetCategory(k, status)
    \/ \E k \in Keywords, term \in Terms, severity \in {1, 2},
           named \in Categories \cup {None} : CreateKeyword(k, term, severity, named)
    \/ \E k \in Keywords, rule \in EditedRules : UpdateKeyword(k, rule)

Spec == Init /\ [][Next]_vars

-----------------------------------------------------------------------------
(* A Report is classified into a category its request offered, one that was   *)
(* active when the classification began, also when a category was retired,    *)
(* created or brought back before the cache or a keyword rule named it        *)
(* (coerce_category, _category_for).                                          *)
ClassifiedAsOffered ==
    \A r \in Reports : stage[r] = "classified" => answer[r].category \in offered[r]

(* FR-13a: the fallback is deterministic.  Two Reports with one text, the     *)
(* same categories and the same rules get one answer, in whatever order the   *)
(* rules came from the table (_ranked).                                       *)
FallbackIsDeterministic ==
    \A r, q \in Reports :
        /\ basis[r] # None /\ basis[r] = basis[q]
        /\ TextOf[r] = TextOf[q] /\ offered[r] = offered[q]
        => answer[r] = answer[q]

=============================================================================
