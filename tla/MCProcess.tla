----------------------------- MODULE MCProcess ------------------------------
\* Two fonts, keys of up to three blocks, up to three rounds.
EXTENDS Process

MCFonts == {"font1", "font2"}
MCLengths == 0..5
MCRounds == 0..3
=============================================================================
