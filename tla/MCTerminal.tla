----------------------------- MODULE MCTerminal -----------------------------
(***************************************************************************)
(* Four keys: a letter with two forms, Enter, Tab, and one the tables      *)
(* leave out.  A screen of two rows of four columns with tab stops at two. *)
(***************************************************************************)
EXTENDS Terminal

MC_Make  == {"K_A", "K_ENTER", "K_TAB", "K_F1"}
MC_Chars == {"a", "A", "\n", "\t"}
MC_ascii == [sc \in MC_Make |-> CASE sc = "K_A" -> "a" [] sc = "K_ENTER" -> "\n"
                                  [] sc = "K_TAB" -> "\t" [] OTHER -> "none"]
MC_shift == [MC_ascii EXCEPT !["K_A"] = "A"]

MC_BootText == <<"\n", "M", "\r", "m", "\n">>
=============================================================================
