---------------------------- MODULE MCJspServer ----------------------------
(* The JTAG serial port server with rings of a few bytes.                    *)
EXTENDS JspServer
=============================================================================
