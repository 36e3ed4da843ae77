----------------------------- MODULE MCInventory -----------------------------
EXTENDS InventorySync

MCCapacity == [own |-> 2, arms |-> 1, stock |-> 2]
MCMaxStack == [food |-> 3, gun |-> 1, kit |-> 1]

MCMagazine == 2

Food(q) == [template |-> "food", quantity |-> q, state |-> NoState]
Gun == [template |-> "gun", quantity |-> 1, state |-> [count |-> MCMagazine, reserve |-> 1]]
Kit == [template |-> "kit", quantity |-> 1, state |-> [count |-> 2, reserve |-> 0]]

Wish(action, i, q) == [action |-> action, item |-> i, quantity |-> q, by |-> "own"]
InAnothersName(wish) == [wish EXCEPT !.by = "other"]

\* Items 1 and 2 are the camp's, 3 to 6 lie about.
MCStock == <<Food(3), Gun>>
MCWorld == <<Food(2), Gun, Kit, Gun>>

\* Parts of a stack are taken and put down again, and one send is refused.
Parts == [wishes |-> {Wish("Transfer", 1, 1), Wish("Throw", 7, 1)},
          world |-> {"visits", "throws"}, faults |-> 1, repeats |-> 0]
\* Weapons change hands, fired in between: one for another of what lies about,
Guns == [wishes |-> {Wish("Pickup", 4, 1), Wish("Pickup", 6, 1)},
         world |-> {"shots"}, faults |-> 0, repeats |-> 0]
\* the camp's, lent and returned,
Lent == [wishes |-> {Wish("Transfer", 2, 1)},
         world |-> {"visits", "shots"}, faults |-> 0, repeats |-> 0]
\* and the camp's for one that lies about.
Swaps == [wishes |-> {Wish("Transfer", 2, 1), Wish("Pickup", 4, 1)},
          world |-> {"visits"}, faults |-> 0, repeats |-> 0]
\* A whole stack is taken, and the camp may go.
Wholes == [wishes |-> {Wish("Transfer", 1, 3), Wish("Transfer", 1, 1)},
           world |-> {"visits", "ruin"}, faults |-> 0, repeats |-> 0]
\* What lies about is picked up, used and put down.
Finds == [wishes |-> {Wish("Pickup", 3, 1), Wish("Consume", 3, 1), Wish("Place", 3, 1)}, world |-> {}, faults |-> 1, repeats |-> 1]
\* One with charges is carried, or used up, or tried for in another's name.
Kits == [wishes |-> {Wish("Pickup", 5, 1), Wish("Consume", 5, 1), Wish("Carry", 5, 1),
                     InAnothersName(Wish("Pickup", 5, 1))},
         world |-> {}, faults |-> 0, repeats |-> 1]
MCScenarios == {Parts, Guns, Lent, Swaps, Wholes, Finds, Kits}
MCWholes == {Wholes}
=============================================================================
