----------------------------- MODULE Gradebook -----------------------------
(***************************************************************************)
(* The gradebook (app/services/gradebook.py, app/tasks/grading.py) and the *)
(* three calculations made from it: a student's grade and the grades of a  *)
(* class (app/services/grade_calc.py), and the average over all classes    *)
(* (app/services/report_card.py).  Percentages are in tenths, weights and  *)
(* weighted scores in hundredths, as the code rounds them.  A write is one *)
(* action: what another handler can make of it, through the unique index   *)
(* or an unchanged object, is to write fewer rows, a smaller batch.        *)
(***************************************************************************)
EXTENDS Integers, FiniteSets, SequencesExt

CONSTANTS
  Students, Classes,   \* every student is an active member of every class
  Weights,             \* of a category, in hundredths; 0 is no weight
  Maxima, Marks,       \* of an item; of an entry
  Null,                \* no maximum, no mark
  MaxCategories, MaxItems   \* bounds of the model

ASSUME GradebookAssumption ==
  /\ IsFiniteSet(Students) /\ IsFiniteSet(Classes)
  /\ Weights \subseteq Nat
  /\ Maxima \subseteq Nat \cup {Null}
  /\ Marks \subseteq Int
  /\ Null \notin Int
  /\ {MaxCategories, MaxItems} \subseteq Nat

VARIABLES
  categories,  \* grade_categories: row c is categories[c]
  items,       \* grade_items
  entries      \* grade_entries: entries[s][i] is the mark of s in item i, Null without a row

vars == <<categories, items, entries>>

-----------------------------------------------------------------------------
\* round(): to the nearest, a tie to the even neighbour.
Round(n, d) ==
  LET q == n \div d
      r == n % d
  IN IF 2 * r < d \/ (2 * r = d /\ q % 2 = 0) THEN q ELSE q + 1

CategoriesOf(C) == {c \in DOMAIN categories : categories[c].class \in C}

\* Mutant: a mark of 0 is taken for no mark.
CountedIfTrue(view, c) ==
  {i \in DOMAIN items : items[i].category = c /\ view[i] \notin {Null, 0} /\ items[i].max \notin {Null, 0}}

\* The items of a category that count: marked, out of something.
Counted(view, c) ==
  {i \in DOMAIN items : items[i].category = c /\ view[i] # Null /\ items[i].max \notin {Null, 0}}

\* category_pct: the marks earned out of those that could be.
Percent(view, c) ==
  LET total == SumFunctionOnSet([i \in DOMAIN items |-> items[i].max], Counted(view, c))
      earned == SumFunctionOnSet(view, Counted(view, c))
  IN IF total > 0 THEN Round(1000 * earned, total) ELSE 0

\* Mutant: the weight is read as a share of 100, and the score is cut to points.
WeightedInPoints(view, c) == 100 * ((Percent(view, c) * categories[c].weight) \div 1000)

\* weighted_score, rounded before it is added up.
Weighted(view, c) == Round(Percent(view, c) * categories[c].weight, 10)

TotalWeight(C) ==
  SumFunctionOnSet([c \in DOMAIN categories |-> categories[c].weight], CategoriesOf(C))

TotalScore(view, C) ==
  SumFunctionOnSet([c \in DOMAIN categories |-> Weighted(view, c)], CategoriesOf(C))

\* The weighted mean over the categories of a set of classes.
Mean(view, C) ==
  IF TotalWeight(C) = 0 THEN 0
  ELSE Round(10 * TotalScore(view, C), TotalWeight(C))

\* Mutant: the entries are not those of one student.
OwnEntriesOfAll(s) ==
  [i \in DOMAIN items |->
     LET marked == {p \in Students : entries[p][i] # Null}
     IN IF marked = {} THEN Null ELSE entries[CHOOSE p \in marked : TRUE][i]]

OwnEntries(s) == [i \in DOMAIN items |-> entries[s][i]]

\* calculate_student_grade
FinalGrade(s, class) == Mean(OwnEntries(s), {class})

\* Mutant: the average of the classes, whatever they weigh.
GpaBySum(s) == SumFunctionOnSet([class \in Classes |-> FinalGrade(s, class)], Classes)

\* calculate_gpa
Gpa(s) == Mean(OwnEntries(s), Classes)

\* class_grades_summary keeps one entry of each item, the last row the query
\* returned, and calculates every member's grade from these.
LastEntries ==
  {last \in [DOMAIN items -> Students \cup {Null}] :
     \A i \in DOMAIN items :
       LET marked == {s \in Students : entries[s][i] # Null}
       IN IF marked = {} THEN last[i] = Null ELSE last[i] \in marked}

SummaryGrade(last, class) ==
  Mean([i \in DOMAIN items |-> IF last[i] = Null THEN Null ELSE entries[last[i]][i]], {class})

-----------------------------------------------------------------------------
Init ==
  /\ categories = << >> /\ items = << >>
  /\ entries = [s \in Students |-> [i \in 1..MaxItems |-> Null]]

\* create_category, create_grade_item: structure only grows, and is never edited.
CreateCategory ==
  /\ Len(categories) < MaxCategories
  /\ \E class \in Classes, w \in Weights :
       categories' = Append(categories, [class |-> class, weight |-> w])
  /\ UNCHANGED <<items, entries>>

CreateItem ==
  /\ Len(items) < MaxItems
  /\ \E c \in DOMAIN categories, m \in Maxima :
       items' = Append(items, [category |-> c, max |-> m])
  /\ UNCHANGED <<categories, entries>>

\* Mutant: the mark is stored as a percentage.
WrittenAsPercent(s, i, marks) ==
  IF s \notin DOMAIN marks THEN entries[s][i]
  ELSE IF items[i].max \in {Null, 0} THEN marks[s] ELSE (100 * marks[s]) \div items[i].max

Written(s, i, marks) == IF s \in DOMAIN marks THEN marks[s] ELSE entries[s][i]

\* The rows found are updated and the others inserted, in one transaction.
Write(i, marks) ==
  /\ entries' = [s \in Students |-> [entries[s] EXCEPT ![i] = Written(s, i, marks)]]
  /\ UNCHANGED <<categories, items>>

\* set_grade: one student, and no mark above the item's maximum.
SetGrade ==
  \E i \in DOMAIN items, s \in Students, m \in Marks :
    /\ items[i].max # Null => m <= items[i].max
    /\ Write(i, [p \in {s} |-> m])

\* batch_update_gradebook: many students, and no look at the maximum.
BatchUpdate ==
  \E i \in DOMAIN items, S \in SUBSET Students \ {{}} :
    \E marks \in [S -> Marks] : Write(i, marks)

Next == CreateCategory \/ CreateItem \/ SetGrade \/ BatchUpdate

Spec == Init /\ [][Next]_vars

-----------------------------------------------------------------------------
TypeOK ==
  /\ categories \in Seq([class : Classes, weight : Weights])
  /\ items \in Seq([category : DOMAIN categories, max : Maxima])
  /\ entries \in [Students -> [1..MaxItems -> Marks \cup {Null}]]
  /\ \A s \in Students : \A i \in 1..MaxItems : entries[s][i] # Null => i \in DOMAIN items

\* A grade is between the lowest and the highest percentage of the categories that
\* weigh something, although each weighted score is rounded before the sum.
Weighing(C) == {c \in CategoriesOf(C) : categories[c].weight > 0}

GradeWithinCategories ==
  \A s \in Students, class \in Classes : Weighing({class}) # {} =>
    \E low, high \in Weighing({class}) :
      /\ Percent(OwnEntries(s), low) <= FinalGrade(s, class)
      /\ FinalGrade(s, class) <= Percent(OwnEntries(s), high)

\* The average over all classes is between the student's lowest and highest class
\* grade, although it is made from the scores and not from the grades.
GpaBetweenClassGrades ==
  \A s \in Students : TotalWeight(Classes) > 0 =>
    \E low, high \in {class \in Classes : TotalWeight({class}) > 0} :
      FinalGrade(s, low) <= Gpa(s) /\ Gpa(s) <= FinalGrade(s, high)

\* A write to some students' entries leaves the grades of all others as they were.
GradeIsOwn ==
  [][\A s \in Students, class \in Classes :
       categories' = categories /\ items' = items /\ entries'[s] = entries[s] =>
         FinalGrade(s, class)' = FinalGrade(s, class)]_vars

\* Raising marks that are there never lowers a grade, whatever is rounded.
Raised(s) ==
  \A i \in DOMAIN items :
    /\ (entries[s][i] = Null) = (entries'[s][i] = Null)
    /\ entries[s][i] # Null => entries'[s][i] >= entries[s][i]

RaisedMarksNeverLower ==
  [][\A s \in Students, class \in Classes :
       categories' = categories /\ items' = items /\ entries'[s] # entries[s] /\ Raised(s) =>
         FinalGrade(s, class)' >= FinalGrade(s, class)]_vars

\* The grades of a class, calculated together, are those calculated one by one.
SummaryIsPerStudent ==
  \A last \in LastEntries, s \in Students, class \in Classes :
    SummaryGrade(last, class) = FinalGrade(s, class)

\* No entry is above the maximum of its item, whoever wrote it.
MarksWithinMaximum ==
  \A s \in Students : \A i \in DOMAIN items :
    entries[s][i] # Null /\ items[i].max # Null => entries[s][i] <= items[i].max
=============================================================================
