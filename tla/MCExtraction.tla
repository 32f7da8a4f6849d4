---------------------------- MODULE MCExtraction ----------------------------
(* Extraction on the texts of up to four nodes with two names. *)
EXTENDS Extraction

MCTypes == {"function_definition", "class_definition", "if_statement", "else_clause", "call", "assignment",
            "return_statement"}
=============================================================================
