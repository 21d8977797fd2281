---------------------------- MODULE KanbanBoard ----------------------------
(***************************************************************************)
(* The drag of a card over the board: the handlers of Kanban               *)
(* (components/reui/kanban.tsx) as KanbanBoardView                         *)
(* (components/kanban-board.tsx) uses it, with restoreOnCancel and         *)
(* onValueCommit and without onMove.  Columns are disabled there, so only  *)
(* cards are dragged.  The tasks of the parent may change at any time: a   *)
(* poll, another drag's answer or a new task replaces the columns, also in *)
(* the middle of a drag.                                                   *)
(***************************************************************************)
EXTENDS Naturals, Sequences, FiniteSets, SequencesExt

CONSTANTS
    CardOrder,    \* the cards in the order of the tasks
    Columns,      \* the statuses
    MaxRefreshes  \* bound: changes of the tasks that do not come from a drag

Cards == ToSet(CardOrder)

\* Tasks are named by uuids, columns by the ids of statuses.
ASSUME ColumnAssumption == Cards \cap Columns = {}

Nobody == "nobody"

VARIABLES
    kbTasks,    \* the tasks property: [some cards -> column]
    kbColumns,  \* the state columns: [Columns -> Seq(Cards)]
    kbShown,    \* the status that each card in the columns had when it came there
    kbOrigin,   \* dragOriginRef
    kbActive,   \* the dragged card
    kbOver,     \* what the pointer is over: a card, a column or Nobody
    kbAsked,    \* the status change the last drop asked for
    kbRefreshes

kbVars == <<kbTasks, kbColumns, kbShown, kbOrigin, kbActive, kbOver, kbAsked, kbRefreshes>>

NoOrigin == [columns |-> <<>>, shown |-> <<>>, box |-> Nobody, at |-> 0]
NoAsk == [card |-> Nobody, column |-> Nobody]

\* columnsFromTasks: each task in the column of its status, in order.
ColumnsFromTasks(tasks) ==
    [c \in Columns |-> SelectSeq(CardOrder, LAMBDA x : x \in DOMAIN tasks /\ tasks[x] = c)]

\* findContainer, as the set of the columns it may return.
Container(cols, x) ==
    IF x \in Columns THEN {x} ELSE {c \in Columns : x \in ToSet(cols[c])}

\* findIndex, counted from 1; 0 where the card is not in the column.
Index(seq, x) == IF x \in ToSet(seq) THEN CHOOSE k \in DOMAIN seq : seq[k] = x ELSE 0

\* arrayMove of dnd-kit: a target that is not there (-1 in the code) is the end.
ArrayMove(seq, from, to) ==
    LET rest == RemoveAt(seq, from)
    IN  InsertAt(rest, IF to = 0 THEN Len(rest) + 1 ELSE to, seq[from])

KbInit ==
    /\ kbTasks \in [Cards -> Columns]
    /\ kbColumns = ColumnsFromTasks(kbTasks) /\ kbShown = kbTasks
    /\ kbOrigin = NoOrigin /\ kbActive = Nobody /\ kbOver = Nobody /\ kbAsked = NoAsk
    /\ kbRefreshes = 0

\* The parent's tasks change; the effect replaces the columns.
Refresh(tasks) ==
    /\ kbRefreshes < MaxRefreshes /\ kbRefreshes' = kbRefreshes + 1
    /\ tasks # kbTasks
    /\ kbTasks' = tasks /\ kbColumns' = ColumnsFromTasks(tasks) /\ kbShown' = tasks
    /\ UNCHANGED <<kbOrigin, kbActive, kbOver, kbAsked>>

\* handleDragStart: remembers the columns and the card's place in them.
HandleDragStart(x) ==
    /\ kbActive = Nobody
    /\ \E c \in Container(kbColumns, x) :
         kbOrigin' = [columns |-> kbColumns, shown |-> kbShown, box |-> c,
                      at |-> Index(kbColumns[c], x)]
    /\ kbActive' = x /\ kbOver' = Nobody
    /\ UNCHANGED <<kbTasks, kbColumns, kbShown, kbAsked, kbRefreshes>>

\* The card moved from column a to the place of o in column b.
MovedAcross(cols, x, a, b, o) ==
    LET at == IF o \in Columns THEN Len(cols[b]) + 1 ELSE Index(cols[b], o)
    IN  [cols EXCEPT ![a] = RemoveAt(@, Index(@, x)), ![b] = InsertAt(@, at, x)]

\* handleDragOver: the columns show the card where it would land.
HandleDragOver(o) ==
    /\ kbActive # Nobody /\ o # kbOver
    /\ kbOver' = o
    /\ LET from == Container(kbColumns, kbActive)
           into == Container(kbColumns, o)
       IN  IF from = {} \/ into = {} THEN UNCHANGED kbColumns
           ELSE \E a \in from, b \in into :
                  kbColumns' =
                    IF a # b THEN MovedAcross(kbColumns, kbActive, a, b, o)
                    ELSE [kbColumns EXCEPT ![a] =
                            ArrayMove(@, Index(@, kbActive), Index(@, o))]
    /\ UNCHANGED <<kbTasks, kbShown, kbOrigin, kbActive, kbAsked, kbRefreshes>>

\* activeTask, as the set of the statuses it may have: the task of the list, or,
\* when the list has it no longer, the card the columns still show.
StatusOf(x) ==
    IF x \in DOMAIN kbTasks THEN {kbTasks[x]} ELSE {kbShown[y] : y \in {x} \cap DOMAIN kbShown}

\* The board's onValueCommit: a status change is asked for when the card ends
\* in another column than its task.  The list shows it at once, and the
\* columns are made again from a new list even when it has no such task.
CommitCard(cols, x, c) ==
    IF StatusOf(x) \ {c} # {}
    THEN /\ kbAsked' = [card |-> x, column |-> c]
         /\ kbTasks' = [y \in DOMAIN kbTasks |-> IF y = x THEN c ELSE kbTasks[y]]
         /\ kbColumns' = ColumnsFromTasks(kbTasks')
         /\ kbShown' = kbTasks'
    ELSE kbColumns' = cols /\ UNCHANGED <<kbTasks, kbShown, kbAsked>>

(* Mutant of DropColumn: the column the pointer is over. *)
PointerColumn(cols) == IF kbOver = Nobody THEN {} ELSE Container(cols, kbOver)

\* The column a drop is for is looked up in what the board shows, by the card.
DropColumn(cols) == Container(cols, kbActive)

\* commitChange: nothing when the card is gone or back where it started.
CommitChange(cols) ==
    LET box == DropColumn(cols)
    IN  IF \A c \in box : c = kbOrigin.box /\ Index(cols[c], kbActive) = kbOrigin.at
        THEN kbColumns' = cols /\ UNCHANGED <<kbTasks, kbShown, kbAsked>>
        ELSE \E c \in box : CommitCard(cols, kbActive, c)

DragDone ==
    /\ kbActive' = Nobody /\ kbOver' = Nobody /\ kbOrigin' = NoOrigin
    /\ UNCHANGED kbRefreshes

\* handleDragEnd: the last reorder within a column, then the commit of what
\* the columns show.
HandleDragEnd ==
    /\ kbActive # Nobody
    /\ LET from == Container(kbColumns, kbActive)
           into == IF kbOver = Nobody THEN {} ELSE Container(kbColumns, kbOver)
       IN  IF from = into /\ from # {}
           THEN \E c \in from :
                  CommitChange([kbColumns EXCEPT ![c] =
                     ArrayMove(@, Index(@, kbActive), Index(@, kbOver))])
           ELSE CommitChange(kbColumns)
    /\ DragDone

\* handleDragCancel with restoreOnCancel: the columns of the drag's start.
HandleDragCancel ==
    /\ kbActive # Nobody
    /\ kbColumns' = kbOrigin.columns /\ kbShown' = kbOrigin.shown
    /\ DragDone
    /\ UNCHANGED <<kbTasks, kbAsked>>

KbNext ==
    \/ \E S \in SUBSET Cards : \E tasks \in [S -> Columns] : Refresh(tasks)
    \/ \E x \in Cards : HandleDragStart(x)
    \/ \E o \in Cards \cup Columns \cup {Nobody} : HandleDragOver(o)
    \/ HandleDragEnd
    \/ HandleDragCancel

-----------------------------------------------------------------------------
(* Properties *)

\* Polls and answers rebuild the columns in the middle of a drag, and the pointer
\* may rest on another column than the card by then: a drop asks for the column in
\* which the board showed the card when it was released, for the dragged card only.
AskedAsShown ==
    [][kbAsked' # kbAsked =>
         /\ kbAsked'.card = kbActive
         /\ kbActive \in ToSet(kbColumns[kbAsked'.column])]_kbVars
=============================================================================
