------------------------------ MODULE MCWebRelay ------------------------------
(* WebRelay with two slots, segments of two bytes and an inputbuf of two.  A
   string of two bytes takes one segment, or two when the browser's window is
   one; a form of two bytes comes in up to three segments, the headers included,
   and fills inputbuf.  *)
EXTENDS WebRelay

MCWindows == {1, 2}
MCOutLens == {1, 2}
MCPostLens == {1, 3}
MCForms == <<{0, 2}, {0}>>
===============================================================================
