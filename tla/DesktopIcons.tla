------------------------------ MODULE DesktopIcons ------------------------------
(***************************************************************************)
(* The icons of the XP desktop and where they lie.  A place is the set of  *)
(* cells of the grid that an icon overlaps there: one cell for an icon on  *)
(* the grid, any of Drops for one that the user let go.  The positions are *)
(* kept in the browser's storage, which may refuse to store.               *)
(***************************************************************************)
EXTENDS Naturals, Sequences, SequencesExt, FiniteSets, FiniteSetsExt, Filters

CONSTANTS Ids,        \* a sequence: the icons in the order they are laid out
          Fixed,      \* the icons that are always there
          Cells,      \* number of cells of the grid
          Drops       \* places an icon can be dropped at

ASSUME IconsAssumption ==
    /\ Ids \in Seq(ToSet(Ids)) /\ Fixed \subseteq ToSet(Ids) /\ Cells \in Nat \ {0} /\ Drops \subseteq SUBSET (1..Cells)

VARIABLES shown,      \* the icons on the desktop, none while the wizard is open
          listed,     \* the icons of the sessions listed last
          wizardOpen,
          positions,  \* id -> place
          stored      \* localStorage

iconVars == <<shown, listed, wizardOpen, positions, stored>>

\* The first cell that no icon overlaps, or the first one when there is none.
nextFreeGridSlot(taken) ==
    LET free == {c \in 1..Cells : \A p \in taken : c \notin p}
    IN  IF free = {} THEN {1} ELSE {Min(free)}

allIds(set) == Kept(Ids, {i \in DOMAIN Ids : Ids[i] \in set})

Nowhere == [id \in {} |-> {}]

Laid(pos, id) ==
    IF id \in DOMAIN pos THEN pos
    ELSE [x \in DOMAIN pos \cup {id} |-> IF x = id THEN nextFreeGridSlot(Range(pos)) ELSE pos[x]]

\* The icons without a position are laid out one after the other; the others, also the
\* ones of sessions that are gone, keep theirs.
Seeded(pos, set) ==
    LET ids == allIds(set)
        laid[k \in 0..Len(ids)] == IF k = 0 THEN pos ELSE Laid(laid[k - 1], ids[k])
    IN  laid[Len(ids)]

\* saveToStorage swallows an error.
Saves(pos) == stored' \in {stored, pos}

\* The effect on the ids.
Shows(set) ==
    /\ shown' = set /\ positions' = Seeded(positions, set)
    /\ IF positions' = positions THEN UNCHANGED stored ELSE Saves(positions')

\* Mounting the desktop: what was stored, then the effect.
IconsInit ==
    /\ wizardOpen = FALSE /\ listed = {} /\ shown = Fixed
    /\ positions = Seeded(Nowhere, Fixed) /\ stored \in {Nowhere, positions}

ListSessions(set) == listed' = set /\ Shows(IF wizardOpen THEN {} ELSE Fixed \cup set) /\ UNCHANGED wizardOpen

ToggleWizard == wizardOpen' = ~wizardOpen /\ Shows(IF wizardOpen THEN Fixed \cup listed ELSE {}) /\ UNCHANGED listed

setIconPosition(id, place) ==
    /\ id \in shown /\ positions[id] # place
    /\ positions' = [positions EXCEPT ![id] = place] /\ Saves(positions')
    /\ UNCHANGED <<shown, listed, wizardOpen>>

\* Mutant: as it was once, the positions are cleared for the effect to lay them out again.
Arranged_Clears == Nowhere

Arranged == Seeded(Nowhere, shown)

\* Auto-arrange; the menu of the desktop is there also while the wizard is open.
resetPositions ==
    /\ positions' = Arranged /\ Saves(positions')
    /\ UNCHANGED <<shown, listed, wizardOpen>>

\* The shell is left and entered again.
Remount ==
    /\ shown' = Fixed /\ listed' = {} /\ wizardOpen' = FALSE
    /\ positions' = Seeded(stored, Fixed)
    /\ IF positions' = stored THEN UNCHANGED stored ELSE Saves(positions')

IconsNext ==
    \/ \E set \in SUBSET (ToSet(Ids) \ Fixed) : set # listed /\ ListSessions(set)
    \/ ToggleWizard \/ resetPositions \/ Remount
    \/ \E id \in shown, place \in Drops : setIconPosition(id, place)

IconsSpec == IconsInit /\ [][IconsNext]_iconVars

-----------------------------------------------------------------------------

\* Every icon on the desktop has a position, also after Auto-arrange, after the wizard hid
\* the icons and after a reload: "the re-layout never fired and icons stacked at (16,16)".
EveryIconIsPlaced == shown \subseteq DOMAIN positions
=============================================================================
