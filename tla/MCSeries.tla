----------------------------- MODULE MCSeries ------------------------------
(* A small instance of Series: months of one or two days.                   *)
EXTENDS Series

Calendar == <<0, 2, 3, 5, 6, 8, 9, 11, 12, 14>>
\* An update keeps the end of the series or sets one.
EndChanges == {Keep, 3}
=============================================================================
