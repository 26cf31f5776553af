------------------------------- MODULE MCPage --------------------------------
\* Two villages, of which B's store name differs from its tag and has upgrades
\* declared; the page is opened where none or the older is remembered.
EXTENDS Page, TLC
CONSTANTS A, B, dirB
MCTags   == {A, B}
First(t, n) == [tag |-> t, cap |-> n, rev |-> 0]
MCLabel  == A :> A @@ B :> dirB
MCStored == {First(A, 1), [First(B, 2) EXCEPT !.rev = 1]}
MCOpened == {A, None}
=============================================================================
