----------------------------- MODULE MCSiblings -----------------------------
EXTENDS Siblings

NorthSouth == <<"north", "south">>

=============================================================================
