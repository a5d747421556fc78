--------------------------- MODULE UsersAndDecks ---------------------------
(***************************************************************************)
(* The rows that the rules of access and the folder tree both speak of.    *)
(***************************************************************************)
CONSTANTS
    Users,   \* the users who have signed in once
    Decks,   \* the identities of decks
    NoOrg    \* organization_id IS NULL
=============================================================================
