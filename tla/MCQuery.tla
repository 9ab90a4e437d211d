------------------------------ MODULE MCQuery -------------------------------
(* Small instances of Query for TLC.                                        *)
EXTENDS Query

CONSTANTS a, b

(* One page has each word once, and one of them in a tag as well; one has     *)
(* them two and one times, with a tag in between and more behind a '>' too    *)
(* many; one has a word in a tag and after the end of a style tag, where it   *)
(* does not count, and one that nothing follows.  Two share a frequency.      *)
MCPages == {
    <<Open, b, Close, a, Mark, b, Mark>>,
    <<a, Space, a, Open, Mark, Close, b, Mark, Close, a, Space>>,
    <<b, Mark, Open, a, Space, Style, Close, a, Open, Close, Space, b, Space, a>> }

\* One word, two, one twice; blanks before, between and after them, or alone.
MCRequests == {<<a>>, <<a, b>>, <<b, b>>, <<a, Empty, b>>, <<Empty, b, Empty>>,
               <<Empty>>, <<Empty, Empty>>}

\* <message>none</message>
MCErrorPage == <<Open, Mark, Close, Mark, Open, Mark, Close>>
=============================================================================
