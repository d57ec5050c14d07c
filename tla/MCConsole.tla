----------------------------- MODULE MCConsole ------------------------------
(***************************************************************************)
(* Two consoles, and lines that the two parsers might take differently.    *)
(***************************************************************************)
EXTENDS Console, TLC

CONSTANTS c1, c2

Add == <<"add">>
Cancel == <<"cancel">>
Shutdown == <<"shutdown">>
Near == <<":", "1", "@", "h", ":", "80">>
Far == <<":", "1", "@", "h", ":", "656", "16">>
Root == <<"/", ":", "1", "@", "h", ":", "80">>
Empty == <<"@", ":", "1">>

Numbers == (<<"1">> :> 1) @@ (<<"80">> :> 80) @@ (<<"656">> :> 656) @@
           (<<"656", "16">> :> 65616)

Sent == {<<Add, Near, Far>>, <<Cancel, Near>>, <<Cancel, <<>>, <<>>>>, <<Shutdown, <<>>>>}
NotSent == {NoText, <<<<"help", "me">>>>, <<<<>>, Shutdown>>, <<Add, Near>>,
            <<Cancel, <<>>>>, <<<<"list">>>>}

(* Root and Far are other spellings of the directory that Near names *)
AllLines == (c1 :> Sent \cup NotSent \cup {<<Add, Far, Empty>>}) @@
            (c2 :> Sent \cup NotSent \cup {<<Add, Root, Empty>>})

TwoAndOne == (c1 :> 2) @@ (c2 :> 1)
=============================================================================
