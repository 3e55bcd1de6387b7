SPECIFICATION Spec
CONSTANT Accounts <- TwoAccounts
INVARIANTS DecodesWhatWasEncoded AuthorizedIffAccount ServerAccepts FieldsFound
