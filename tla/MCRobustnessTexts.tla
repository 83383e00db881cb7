------------------------- MODULE MCRobustnessTexts -------------------------
(* Texts over small families of characters for TLC. *)
EXTENDS RobustnessTexts, TLC

\* One family per group of transformations that work on the same characters.
MCFamilies ==
    {{"a", "sp", "tab", "nl"},          \* layout
     {"a", "-", "nl", "."},             \* line wrapping and boundaries
     {"e", "E", "acute", "eacute", "'"},  \* Unicode forms and cases
     {"s", "S", "eszett", "sp"},        \* a letter with two letters for a capital
     {"a", "zwsp", "nbsp", "bidi", "dots"},  \* artefacts
     {"b", "B", "sp", "!"},             \* the synonym map
     {"c", "C", "'", "a"}}              \* the contractions

MCSynonyms == <<"b">> :> << <<"a">>, <<"c", "a">> >>
MCContractions == << << <<"c", "'", "a">>, <<"c", "sp", "a">> >> >>
MCChoice == [si \in Seeds \X (0..MaxLength) |-> si[1] + si[2]]
=============================================================================
