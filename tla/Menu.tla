-------------------------------- MODULE Menu --------------------------------
(***************************************************************************)
(* The menus of the terminal front end (tui/tui_menu_model.c, tui_menu.c): *)
(* which items are visible, which one is highlighted, and what each key    *)
(* does.  A menu is a record: its items, the search (query), the visible   *)
(* items by their index, the highlighted row, the top row and the rows     *)
(* that the terminal has for them.  Rows and indices count from 1.         *)
(*                                                                         *)
(* An item is [id, key, has]: its id, its mnemonic, and the letters that   *)
(* its label has among those searched for, so that a query is a set of     *)
(* letters as long as it has at most one (MaxQuery).                       *)
(***************************************************************************)
EXTENDS Integers, Sequences, FiniteSets

CONSTANTS
    MaxQuery        \* BOUND: the letters of a search

ASSUME MenuAssumption == MaxQuery \in {0, 1}

Item(id, key, has) == [id |-> id, key |-> key, has |-> has]
Separator == Item("separator", "none", {})
Selectable(item) == item # Separator

(***************************************************************************)
(* What is visible and highlighted.                                        *)
(***************************************************************************)
SelectableRows(m) == {v \in DOMAIN m.visible : Selectable(m.items[m.visible[v]])}

Least(s) == CHOOSE x \in s : \A y \in s : x <= y
Greatest(s) == CHOOSE x \in s : \A y \in s : x >= y

\* the items that a search finds, and the v-th of them
Hits(m) == {i \in DOMAIN m.items : Selectable(m.items[i]) /\ m.query \subseteq m.items[i].has}
Nth(s, v) == CHOOSE i \in s : Cardinality({j \in s : j <= i}) = v

\* menu_state_apply_filter: a search highlights its first hit; its end, or an empty query,
\* keeps the number of the row, whatever is in that row now
Filtered(m) ==
    LET found == [m EXCEPT !.visible = [v \in 1..Cardinality(Hits(m)) |-> Nth(Hits(m), v)]]
    IN  IF m.query = {} THEN [m EXCEPT !.visible = [i \in DOMAIN m.items |-> i]]
        ELSE [found EXCEPT !.selected = IF found.visible = <<>> THEN 1 ELSE Least(SelectableRows(found))]

\* tui_menu_state_create
Opened(items, default, rows) ==
    LET m == Filtered([items |-> items, searching |-> FALSE, query |-> {}, visible |-> <<>>,
                       selected |-> default, top |-> 1, rows |-> rows])
    IN  IF Selectable(items[default]) THEN m
        ELSE [m EXCEPT !.selected = Least(SelectableRows(m))]

\* Mutant: the row after the last one counts as visible.
Shown_OneMore(m) ==
    [m EXCEPT !.top = IF m.selected < @ THEN m.selected
                      ELSE IF m.selected > @ + m.rows THEN m.selected - m.rows + 1
                      ELSE @]

\* tui_menu_state_ensure_selection_visible, before each time the menu is drawn
Shown(m) ==
    [m EXCEPT !.top = IF m.selected < @ THEN m.selected
                      ELSE IF m.selected >= @ + m.rows THEN m.selected - m.rows + 1
                      ELSE @]

(***************************************************************************)
(* The keys and the mouse.                                                 *)
(***************************************************************************)
\* tui_menu_state_step goes round
Step(m, direction) ==
    LET n == Len(m.visible)
        row(k) == ((m.selected - 1 + direction * k) % n) + 1
        able == {k \in 1..n : row(k) \in SelectableRows(m)}
    IN  IF able = {} THEN m ELSE [m EXCEPT !.selected = row(Least(able))]

Home(m) == IF SelectableRows(m) = {} THEN m ELSE [m EXCEPT !.selected = Least(SelectableRows(m))]
End(m) == IF SelectableRows(m) = {} THEN m ELSE [m EXCEPT !.selected = Greatest(SelectableRows(m))]

\* tui_menu_state_page: as many steps as there are rows, without going round
Page(m, direction) ==
    LET ahead == {v \in SelectableRows(m) : direction * (v - m.selected) > 0}
        near(v) == {u \in ahead : direction * (v - u) >= 0}
        reached == {v \in ahead : Cardinality(near(v)) <= m.rows}
    IN  IF reached = {} THEN m
        ELSE [m EXCEPT !.selected = IF direction > 0 THEN Greatest(reached) ELSE Least(reached)]

SearchOpen(m) == Filtered([m EXCEPT !.searching = TRUE, !.query = {}])
SearchClose(m) == Filtered([m EXCEPT !.searching = FALSE, !.query = {}])
SearchAppend(m, c) ==
    IF Cardinality(m.query) >= MaxQuery THEN m ELSE Filtered([m EXCEPT !.query = @ \cup {c}])
SearchBackspace(m) == Filtered([m EXCEPT !.query = {}])

\* tui_menu_state_mnemonic_jump: the one item with this mnemonic is chosen at
\* once, of several the next one is highlighted
WithMnemonic(m, c) == {i \in DOMAIN m.items : Selectable(m.items[i]) /\ m.items[i].key = c}
NextMnemonic(m, c) ==
    LET rows == {v \in DOMAIN m.visible : m.visible[v] \in WithMnemonic(m, c)}
        later == {v \in rows : v > m.selected}
    IN  [m EXCEPT !.selected = Least(IF later = {} THEN rows ELSE later)]

\* tui_menu_state_row_for_number: separators have no number
RowForNumber(m, n) ==
    {v \in SelectableRows(m) : Cardinality({u \in SelectableRows(m) : u <= v}) = n}
NumericJump(m, n) ==
    IF RowForNumber(m, n) = {} THEN m
    ELSE [m EXCEPT !.selected = CHOOSE v \in RowForNumber(m, n) : TRUE]

\* menu_handle_mouse does not look at the search: the wheel, or a click on a row that is drawn
Drawn(m) == m.top .. m.top + m.rows - 1
Clicked(m, v) == IF v \in SelectableRows(m) THEN [m EXCEPT !.selected = v] ELSE m
Mouse(m) == {Step(m, 1), Step(m, -1)} \cup {Clicked(m, v) : v \in Drawn(m)}

\* menu_handle_key_in_search takes letters, menu_handle_key moves
InSearch(m, letters) ==
    {SearchClose(m), SearchBackspace(m)} \cup {SearchAppend(m, c) : c \in letters}
Moves(m) ==
    {Step(m, 1), Step(m, -1), Home(m), End(m), Page(m, 1), Page(m, -1), SearchOpen(m)}
    \cup {NumericJump(m, n) : n \in 1..9}
    \cup {NextMnemonic(m, c) : c \in {k \in {m.items[i].key : i \in DOMAIN m.items} :
                                        Cardinality(WithMnemonic(m, k)) > 1}}

\* tui_show_menu: one key or mouse event, then the menu is drawn again
Keyed(m, letters) ==
    {Shown(n) : n \in Mouse(m) \cup (IF m.searching THEN InSearch(m, letters) ELSE Moves(m))}

\* Enter on the highlighted item or a double click, which beep on what cannot be chosen,
\* or a mnemonic: the items chosen
Chosen(m) ==
    {m.visible[v] : v \in {v \in SelectableRows(m) : v = m.selected \/ v \in Drawn(m)}}
    \cup (IF m.searching THEN {}
          ELSE {i \in DOMAIN m.items : Selectable(m.items[i]) /\ WithMnemonic(m, m.items[i].key) = {i}})

\* KEY_RESIZE: the terminal has room for other rows
Resized(m, rows) == Shown([m EXCEPT !.rows = rows])
=============================================================================
