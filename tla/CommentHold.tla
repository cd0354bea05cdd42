----------------------------- MODULE CommentHold -----------------------------
(***************************************************************************)
(* What the small-N hold promises of the comments of one section and term, *)
(* with every read and write one step.  A comment is judged once, in the   *)
(* wording it keeps from then on; a week is complete once it takes no more *)
(* answers and each it holds is judged; a stream of a complete week is     *)
(* shown whole if a threshold of people wrote it, and else its comments    *)
(* wait for a batch that hides its authors.                                *)
(***************************************************************************)
EXTENDS Naturals, FiniteSets, Sequences

CONSTANTS
  Comments,
  Streams,
  Weeks,
  AuthorOf,      \* [Comments -> students]
  WeekOf,        \* [Comments -> Weeks]
  StreamOf,      \* [Comments -> Streams]
  Threshold,     \* people behind anything that is read
  WeeksSpanned   \* weeks behind each stream of a batch

VARIABLES
  open,     \* weeks that may still take an answer
  text,     \* [Comments -> which wording it has, 0 for none]
  verdict,  \* [Comments -> "none", "readable" or "care"]
  shown,    \* the streams read under their week
  batches,  \* the batches released, in order
  carried   \* each comment and wording a reader was given

vars == <<open, text, verdict, shown, batches, carried>>

AuthorsOf(S) == {AuthorOf[c] : c \in S}

Complete(w) ==
  /\ w \notin open
  /\ \A c \in Comments : WeekOf[c] = w /\ text[c] # 0 => verdict[c] # "none"

Readable(w, s) ==
  {c \in Comments : WeekOf[c] = w /\ StreamOf[c] = s /\ verdict[c] = "readable"}

Thin(w, s) == Cardinality(AuthorsOf(Readable(w, s))) < Threshold

Released == UNION {batches[i] : i \in DOMAIN batches}

(* What waits for a batch. *)
Kept ==
  {c \in Comments \ Released : /\ verdict[c] = "readable"
                               /\ Complete(WeekOf[c])
                               /\ Thin(WeekOf[c], StreamOf[c])}

Hides(S) ==
  /\ Cardinality(AuthorsOf(S)) >= Threshold
  /\ Cardinality({WeekOf[c] : c \in S}) >= WeeksSpanned

Wordings(S) == {<<c, text[c]>> : c \in S}

Init ==
  /\ open = Weeks
  /\ text = [c \in Comments |-> 0]
  /\ verdict = [c \in Comments |-> "none"]
  /\ shown = {}
  /\ batches = <<>>
  /\ carried = {}

Close ==
  /\ open' \in SUBSET open
  /\ UNCHANGED <<text, verdict, shown, batches, carried>>

(* A week may take its last answer. *)
Write(S) ==
  /\ \A c \in S : WeekOf[c] \in open
  /\ text' = [c \in Comments |-> IF c \in S THEN text[c] + 1 ELSE text[c]]
  /\ open' \in SUBSET open
  /\ UNCHANGED <<verdict, shown, batches, carried>>

Judge(c, kind) ==
  /\ WeekOf[c] \notin open
  /\ text[c] # 0 /\ verdict[c] = "none"
  /\ verdict' = [verdict EXCEPT ![c] = kind]
  /\ UNCHANGED <<open, text, shown, batches, carried>>

Show(w, s) ==
  /\ Complete(w) /\ ~ Thin(w, s)
  /\ shown' = shown \cup {[week |-> w, stream |-> s, cards |-> Readable(w, s)]}
  /\ carried' = carried \cup Wordings(Readable(w, s))
  /\ UNCHANGED <<open, text, verdict, batches>>

Release(S) ==
  /\ \A s \in Streams :
       LET slice == {c \in S : StreamOf[c] = s} IN slice # {} => Hides(slice)
  /\ batches' = Append(batches, S)
  /\ UNCHANGED <<open, text, verdict, shown, carried>>

ReadBatches ==
  /\ carried' = carried \cup Wordings(Released)
  /\ UNCHANGED <<open, text, verdict, shown, batches>>

Next ==
  \/ Close
  \/ \E S \in SUBSET Comments : Write(S)
  \/ \E c \in Comments, kind \in {"readable", "care"} : Judge(c, kind)
  \/ \E w \in Weeks, s \in Streams : Show(w, s)
  \/ \E S \in SUBSET Kept : Release(S)
  \/ ReadBatches

Spec == Init /\ [][Next]_vars

=============================================================================
