----------------------------- MODULE MCLanguage -----------------------------
\* Two texts; the file starts with one of them, which is all the same.
EXTENDS LanguageProperties

CONSTANTS a, b

MCTexts  == {a, b}
MCOpened == {a}
=============================================================================
